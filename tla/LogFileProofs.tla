--------------------------- MODULE LogFileProofs ---------------------------
(***************************************************************************)
(* What the reader of leveldb's logs returns, for every size of blocks,    *)
(* headers and records, and any number of them.                            *)
(***************************************************************************)
EXTENDS LogFile, SequenceTheorems, TLAPS

Types == {"full", "first", "middle", "last"}

Size(f)   == HeaderSize + fragments[f].length
Starts(f) == fragments[f].type \in {"full", "first"}
Ends(f)   == fragments[f].type \in {"full", "last"}

(* All bytes of f are in the file, behind the first p bytes.               *)
Whole(f, p) ==
  \A i \in 1 .. Size(f) : p + i \in DOMAIN file /\ file[p + i] = <<f, i>>

(* The end of the block that the byte behind the first p bytes is in.      *)
End(p) == ((p \div BlockSize) + 1) * BlockSize

LogType ==
  /\ file \in Seq({None} \cup (Nat \X Nat))
  /\ fragments \in Seq([record : Nat, type : Types, length : Nat])
  /\ blockOffset \in 0 .. BlockSize
  /\ left \in Nat \cup {None} /\ begin \in BOOLEAN
  /\ added \in Nat
  /\ complete \in Seq([record : Nat, end : Nat])
  /\ failures \in Nat
  /\ at \in Nat \cup {None, Eof}
  /\ scratch \in Seq(Nat) \cup {None}
  /\ got \in Seq(Seq(Nat))
  /\ at = None => scratch = None /\ got = <<>>

(* The fragments of a record are emitted one after the other.              *)
Emitted ==
  /\ \A f \in DOMAIN fragments : fragments[f].record <= added
  /\ \A f, g \in DOMAIN fragments : f < g =>
       /\ fragments[f].record <= fragments[g].record
       /\ Starts(g) => fragments[f].record < fragments[g].record
  /\ \A f \in DOMAIN fragments : ~Starts(f) =>
       /\ f - 1 \in DOMAIN fragments /\ ~Ends(f - 1)
       /\ fragments[f - 1].record = fragments[f].record
  /\ left # None /\ begin => \A f \in DOMAIN fragments : fragments[f].record < added
  /\ left # None /\ ~begin =>
       /\ Len(fragments) \in DOMAIN fragments /\ ~Ends(Len(fragments))
       /\ fragments[Len(fragments)].record = added

(* The bytes of the file, also of its first part, are those of fragments,  *)
(* in order, with nothing missing between those of one and nothing missing *)
(* of a fragment that another of its record follows.                       *)
BytesOK ==
  /\ \A p \in DOMAIN file : file[p] # None =>
       \E f \in DOMAIN fragments : \E i \in 1 .. Size(f) : file[p] = <<f, i>>
  /\ \A p, q \in DOMAIN file : p < q =>
       \A f, g \in DOMAIN fragments : \A i, j \in Nat :
         file[p] = <<f, i>> /\ file[q] = <<g, j>> => f < g \/ (f = g /\ q - p = j - i)
  /\ \A q \in DOMAIN file : \A g \in DOMAIN fragments : \A j \in Nat :
       file[q] = <<g, j>> /\ ~Starts(g) =>
         \E p \in Nat : p + Size(g - 1) < q /\ Whole(g - 1, p)

(* A record with its last byte in the file is complete.                    *)
EndsOK ==
  \A p \in DOMAIN file : \A f \in DOMAIN fragments :
    file[p] = <<f, Size(f)>> /\ Ends(f) =>
      \E j \in DOMAIN complete : complete[j].record = fragments[f].record

(* Between the fragments of a record the last one is in the file.          *)
GoesOn ==
  at = None /\ left # None /\ ~begin =>
    \E p \in Nat : p + Size(Len(fragments)) <= Len(file) /\ Whole(Len(fragments), p)

WriterInv == Emitted /\ BytesOK /\ EndsOK /\ GoesOn

(* Fragments of one record from its start on, without a gap.               *)
Run(s) ==
  /\ s # <<>>
  /\ \A k \in DOMAIN s :
       /\ s[k] \in DOMAIN fragments /\ s[k] = s[1] + (k - 1)
       /\ fragments[s[k]].record = fragments[s[1]].record
  /\ Starts(s[1])

(* The last byte of f is the e-th of the file.                             *)
LastByte(f, e) == e \in DOMAIN file /\ file[e] = <<f, Size(f)>>

Returned ==
  \A i \in DOMAIN got :
    /\ Run(got[i]) /\ Ends(Last(got[i]))
    /\ \E j \in DOMAIN complete : complete[j].record = RecordOf(got[i])
    /\ at \in Nat => \E e \in 1 .. at : LastByte(Last(got[i]), e)
    /\ \A j \in 1 .. i - 1 : RecordOf(got[j]) < RecordOf(got[i])

(* The reader is at the end of the last fragment it keeps, or skipped less *)
(* than a header from there to the next block.                             *)
UnderWay ==
  at \in Nat /\ scratch # None =>
    /\ Run(scratch) /\ ~Ends(Last(scratch))
    /\ \A i \in DOMAIN got : RecordOf(got[i]) < RecordOf(scratch)
    /\ \E e \in 1 .. at :
         /\ LastByte(Last(scratch), e) /\ at < e + HeaderSize
         /\ at = e \/ End(at) = at + BlockSize

MixInv == LogType /\ WriterInv /\ Returned /\ UnderWay
-----------------------------------------------------------------------------
(* Where everything lies when no write failed                              *)

(* Every record is emitted, and they follow each other.                    *)
Numbered ==
  /\ \A f \in DOMAIN fragments : Starts(f) =>
       \/ f = 1 /\ fragments[f].record = 1
       \/ /\ f - 1 \in DOMAIN fragments /\ Ends(f - 1)
          /\ fragments[f].record = fragments[f - 1].record + 1
  /\ left = None \/ begin =>
       LET before == IF left = None THEN added ELSE added - 1
           n      == Len(fragments)
       IN  IF n = 0 THEN before = 0 ELSE Ends(n) /\ fragments[n].record = before

(* Of a fragment all bytes are in their places, up to the end of the file. *)
Unbroken ==
  \A q \in DOMAIN file : \A f \in DOMAIN fragments : \A j \in 1 .. Size(f) :
    file[q] = <<f, j>> =>
      /\ j <= q /\ q - j + Size(f) <= End(q - j)
      /\ \A i \in 1 .. Size(f) : q - j + i \in DOMAIN file => file[q - j + i] = <<f, i>>

(* The next fragment follows in the block if there is room for a header,   *)
(* and else in the next one.                                               *)
Following ==
  /\ 1 \in DOMAIN file => file[1] = <<1, 1>>
  /\ \A f \in DOMAIN fragments : \A e \in DOMAIN file : LastByte(f, e) =>
       IF End(e) - e < HeaderSize
       THEN /\ \A p \in e + 1 .. End(e) : p \in DOMAIN file => file[p] = None
            /\ End(e) + 1 \in DOMAIN file => file[End(e) + 1] = <<f + 1, 1>>
       ELSE e + 1 \in DOMAIN file => file[e + 1] = <<f + 1, 1>>

(* The records are answered in their order, with their ends.               *)
Answered ==
  /\ \A j \in DOMAIN complete : complete[j].record = j
  /\ \A f \in DOMAIN fragments : \A e \in DOMAIN file : LastByte(f, e) /\ Ends(f) =>
       /\ fragments[f].record \in DOMAIN complete
       /\ complete[fragments[f].record].end = e
  /\ \A j \in DOMAIN complete : complete[j].end <= Len(file) =>
       \E f \in DOMAIN fragments :
         LastByte(f, complete[j].end) /\ Ends(f) /\ fragments[f].record = j

(* The writer is at the end of the last fragment, and knows where.         *)
Appending ==
  at = None =>
    /\ Len(complete) = IF left = None THEN added ELSE added - 1
    /\ \A j \in DOMAIN complete : complete[j].end <= Len(file)
    /\ IF fragments = <<>> THEN file = <<>> /\ blockOffset = 0
                           ELSE LastByte(Len(fragments), Len(file))
    /\ End(Len(file)) =
         Len(file) + IF blockOffset = BlockSize THEN BlockSize ELSE BlockSize - blockOffset

(* The fragments up to g are read, the last byte of g is the e-th.         *)
Read(g, e) ==
  /\ IF g = 0 THEN e = 0 ELSE LastByte(g, e)
  /\ \A p \in e + 1 .. at : p \in DOMAIN file => file[p] = None
  /\ at = e \/ (at = End(e) /\ at < e + HeaderSize)
  /\ scratch = None <=> g = 0 \/ Ends(g)
  /\ Len(got) = IF g = 0 THEN 0
                ELSE IF Ends(g) THEN fragments[g].record ELSE fragments[g].record - 1

(* There is no other record that is wholly in the file.                    *)
AllRead == \A j \in DOMAIN complete : j > Len(got) => complete[j].end > Len(file)

ReadInOrder ==
  /\ \A j \in DOMAIN got : /\ RecordOf(got[j]) = j
                           /\ j \in DOMAIN complete /\ complete[j].end <= Len(file)
  /\ at \in Nat =>
       \/ at = Len(file) /\ AllRead
       \/ \E g \in 0 .. Len(fragments) : \E e \in 0 .. at : Read(g, e)
  /\ at = Eof => AllRead

NothingFailed ==
  failures = 0 =>
    Numbered /\ Unbroken /\ Following /\ Answered /\ Appending /\ ReadInOrder

-----------------------------------------------------------------------------
(* Arithmetic                                                              *)

LEMMA MinOfTwo ==
  ASSUME NEW a \in Int, NEW b \in Int
  PROVE  Min({a, b}) = IF a <= b THEN a ELSE b
<1>1. \E x \in {a, b} : \A y \in {a, b} : x <= y
  OBVIOUS
<1>2. Min({a, b}) \in {a, b} /\ \A y \in {a, b} : Min({a, b}) <= y
  BY <1>1 DEF Min
<1> QED
  BY <1>2

LEMMA Quotient ==
  ASSUME SizesAssumption, NEW p \in Nat
  PROVE  /\ p \div BlockSize \in Nat
         /\ (p \div BlockSize) * BlockSize \in Nat
         /\ (p \div BlockSize) * BlockSize <= p
         /\ End(p) = (p \div BlockSize) * BlockSize + BlockSize
         /\ p < End(p)
<1>1. BlockSize \in Nat \ {0}
  BY DEF SizesAssumption
<1>2. /\ p \div BlockSize \in Nat
      /\ (p \div BlockSize) * BlockSize <= p
      /\ p < (p \div BlockSize) * BlockSize + BlockSize
  BY <1>1
<1>3. \A k \in Nat : k * BlockSize \in Nat /\ (k + 1) * BlockSize = k * BlockSize + BlockSize
  BY <1>1
<1> QED
  BY <1>1, <1>2, <1>3 DEF End

(* The block that p is in is the only one.                                 *)
LEMMA OneBlock ==
  ASSUME SizesAssumption, NEW p \in Nat, NEW k \in Nat,
         k * BlockSize <= p, p < k * BlockSize + BlockSize
  PROVE  End(p) = k * BlockSize + BlockSize
<1> DEFINE m == p \div BlockSize
<1>1. BlockSize \in Nat \ {0}
  BY DEF SizesAssumption
<1>2. /\ m \in Nat /\ m * BlockSize <= p /\ p < m * BlockSize + BlockSize
      /\ End(p) = m * BlockSize + BlockSize
  BY Quotient
<1> HIDE DEF m
<1>3. \A i, j \in Nat : i < j => i * BlockSize + BlockSize <= j * BlockSize
  BY <1>1
<1>4. m * BlockSize \in Nat /\ k * BlockSize \in Nat
  BY <1>1, <1>2
<1>5. ~(m < k) /\ ~(k < m)
  BY <1>1, <1>2, <1>3, <1>4
<1>6. m = k
  BY <1>2, <1>5
<1> QED
  BY <1>2, <1>6

LEMMA EndsOfBlocks ==
  ASSUME SizesAssumption
  PROVE  /\ \A p \in Nat : End(p) \in Nat /\ p < End(p) /\ End(p) <= p + BlockSize
         /\ \A p, q \in Nat : p <= q /\ q < End(p) => End(q) = End(p)
         /\ \A p \in Nat : End(End(p)) = End(p) + BlockSize
<1>0. BlockSize \in Nat \ {0}
  BY DEF SizesAssumption
<1>1. ASSUME NEW p \in Nat
      PROVE  End(p) \in Nat /\ p < End(p) /\ End(p) <= p + BlockSize
  BY <1>0, Quotient
<1>2. ASSUME NEW p \in Nat, NEW q \in Nat, p <= q, q < End(p)
      PROVE  End(q) = End(p)
  <2> DEFINE k == p \div BlockSize
  <2>1. /\ k \in Nat /\ k * BlockSize \in Nat /\ k * BlockSize <= p
        /\ End(p) = k * BlockSize + BlockSize
    BY Quotient
  <2> HIDE DEF k
  <2>2. k * BlockSize <= q /\ q < k * BlockSize + BlockSize
    BY <1>0, <1>2, <2>1
  <2> QED
    BY <2>1, <2>2, OneBlock
<1>3. ASSUME NEW p \in Nat PROVE End(End(p)) = End(p) + BlockSize
  <2> DEFINE k == p \div BlockSize
  <2>1. k \in Nat /\ End(p) = k * BlockSize + BlockSize
    BY Quotient
  <2>2. k + 1 \in Nat /\ (k + 1) * BlockSize = k * BlockSize + BlockSize
    <3> HIDE DEF k
    <3> QED
      BY <1>0, <2>1
  <2> HIDE DEF k
  <2>3. End(p) \in Nat /\ (k + 1) * BlockSize = End(p) /\ End(p) < End(p) + BlockSize
    BY <1>0, <1>1, <2>1, <2>2
  <2> QED
    BY <2>2, <2>3, OneBlock
<1> QED
  BY <1>1, <1>2, <1>3

LEMMA Concatenation ==
  ASSUME NEW S, NEW c \in Seq(S), NEW d \in Seq(S)
  PROVE  /\ c \o d \in Seq(S) /\ Len(c \o d) = Len(c) + Len(d)
         /\ \A p \in 1 .. Len(c) : (c \o d)[p] = c[p]
         /\ \A i \in 1 .. Len(d) : (c \o d)[Len(c) + i] = d[i]
<1>1. Len(c) \in Nat /\ Len(d) \in Nat
  OBVIOUS
<1>2. c \o d \in Seq(S) /\ Len(c \o d) = Len(c) + Len(d)
  OBVIOUS
<1>3. ASSUME NEW p \in 1 .. Len(c) PROVE (c \o d)[p] = c[p]
  BY <1>1
<1>4. ASSUME NEW i \in 1 .. Len(d) PROVE (c \o d)[Len(c) + i] = d[i]
  BY <1>1
<1> QED
  BY <1>2, <1>3, <1>4

LEMMA ThreeParts ==
  ASSUME NEW S, NEW a \in Seq(S), NEW b \in Seq(S), NEW c \in Seq(S)
  PROVE  /\ (a \o b) \o c \in Seq(S)
         /\ Len((a \o b) \o c) = Len(a) + Len(b) + Len(c)
         /\ \A p \in 1 .. Len(a) : ((a \o b) \o c)[p] = a[p]
         /\ \A i \in 1 .. Len(b) : ((a \o b) \o c)[Len(a) + i] = b[i]
         /\ \A i \in 1 .. Len(c) : ((a \o b) \o c)[Len(a) + Len(b) + i] = c[i]
<1>1. /\ a \o b \in Seq(S) /\ Len(a \o b) = Len(a) + Len(b)
      /\ \A p \in 1 .. Len(a) : (a \o b)[p] = a[p]
      /\ \A i \in 1 .. Len(b) : (a \o b)[Len(a) + i] = b[i]
  BY Concatenation
<1>2. PICK d \in Seq(S) : d = a \o b
  BY <1>1
<1>3. /\ d \o c \in Seq(S) /\ Len(d \o c) = Len(d) + Len(c)
      /\ \A p \in 1 .. Len(d) : (d \o c)[p] = d[p]
      /\ \A i \in 1 .. Len(c) : (d \o c)[Len(d) + i] = c[i]
  BY Concatenation
<1>4. Len(a) \in Nat /\ Len(b) \in Nat
  OBVIOUS
<1> QED
  BY <1>1, <1>2, <1>3, <1>4
-----------------------------------------------------------------------------
(* What is written                                                         *)

LEMMA FragmentTypes ==
  ASSUME LogType, NEW f \in DOMAIN fragments
  PROVE  /\ f \in Nat \ {0}
         /\ fragments[f].record \in Nat
         /\ fragments[f].type \in Types
         /\ fragments[f].length \in Nat
<1> DEFINE R == [record : Nat, type : Types, length : Nat]
<1>1. fragments \in Seq(R)
  BY DEF LogType
<1> HIDE DEF R
<1>2. f \in 1 .. Len(fragments) /\ Len(fragments) \in Nat
  BY <1>1
<1>3. fragments[f] \in R
  BY <1>1, <1>2
<1> QED
  BY <1>2, <1>3 DEF R

(* The steps of AddRecord's loop: a fragment is emitted, and n of its bytes*)
(* are written.                                                            *)
Emits(n) ==
  /\ at = None /\ left # None
  /\ n \in 0 .. HeaderSize + FragmentLength
  /\ file' = file \o Trailer \o SubSeq(Bytes, 1, n)
  /\ fragments' = Append(fragments, Fragment)
  /\ blockOffset' = Offset + HeaderSize + FragmentLength
  /\ UNCHANGED <<added, reader>>

LEMMA Lengths ==
  ASSUME SizesAssumption, LogType, left # None
  PROVE  /\ left \in Nat
         /\ Offset \in 0 .. BlockSize - HeaderSize
         /\ FragmentLength \in 0 .. left
         /\ FragmentLength <= BlockSize - Offset - HeaderSize
         /\ FragmentLength = left \/ FragmentLength = BlockSize - Offset - HeaderSize
         /\ Type \in Types
         /\ Type \in {"full", "first"} <=> begin
         /\ Type \in {"full", "last"} <=> left = FragmentLength
<1>1. /\ left \in Nat /\ HeaderSize \in Nat /\ BlockSize \in Nat /\ HeaderSize < BlockSize
      /\ blockOffset \in 0 .. BlockSize
  BY DEF SizesAssumption, LogType
<1>2. Offset \in 0 .. BlockSize - HeaderSize
  BY <1>1 DEF Offset
<1>3. BlockSize - Offset - HeaderSize \in Nat
  BY <1>1, <1>2
<1>4. FragmentLength = IF left <= BlockSize - Offset - HeaderSize
                       THEN left ELSE BlockSize - Offset - HeaderSize
  BY <1>1, <1>3, MinOfTwo DEF FragmentLength
<1>5. /\ Type \in Types
      /\ Type \in {"full", "first"} <=> begin
      /\ Type \in {"full", "last"} <=> left = FragmentLength
  BY DEF Type, Types, LogType
<1> QED
  BY <1>1, <1>2, <1>3, <1>4, <1>5

LEMMA WholeBytes ==
  ASSUME SizesAssumption, LogType, left # None
  PROVE  /\ Bytes \in Seq(Nat \X Nat) /\ Len(Bytes) = HeaderSize + FragmentLength
         /\ SubSeq(Bytes, 1, HeaderSize + FragmentLength) = Bytes
<1>1. FragmentLength \in Nat /\ HeaderSize \in Nat
  BY Lengths DEF SizesAssumption
<1>2. Len(fragments) + 1 \in Nat
  BY DEF LogType
<1>3. Bytes \in Seq(Nat \X Nat) /\ Len(Bytes) = HeaderSize + FragmentLength
  BY <1>1, <1>2 DEF Bytes
<1>4. SubSeq(Bytes, 1, Len(Bytes)) = Bytes
  BY <1>3
<1> QED
  BY <1>3, <1>4

(* The filling of a block.                                                 *)
LEMMA TrailerIs ==
  ASSUME SizesAssumption, LogType
  PROVE  LET t == Len(Trailer)
         IN  /\ Trailer \in Seq({None} \cup (Nat \X Nat))
             /\ t = IF BlockSize - blockOffset < HeaderSize THEN BlockSize - blockOffset ELSE 0
             /\ t \in Nat
             /\ \A i \in 1 .. t : Trailer[i] = None
<1> DEFINE m == BlockSize - blockOffset
<1>1. BlockSize \in Nat /\ blockOffset \in 0 .. BlockSize
  BY DEF SizesAssumption, LogType
<1>2. CASE m < HeaderSize
  <2>1. Trailer = [i \in 1 .. m |-> None] /\ m \in Nat
    BY <1>1, <1>2 DEF Trailer
  <2> QED
    BY <1>2, <2>1
<1>3. CASE ~(m < HeaderSize)
  <2>1. Trailer = <<>>
    BY <1>1, <1>3 DEF Trailer
  <2> QED
    BY <1>3, <2>1
<1> QED
  BY <1>2, <1>3

(* The new file: the old one, the rest of a block, and n bytes.            *)
LEMMA NewBytes ==
  ASSUME SizesAssumption, LogType, NEW n, Emits(n)
  PROVE  LET t == Len(Trailer)
         IN  /\ t = IF BlockSize - blockOffset < HeaderSize THEN BlockSize - blockOffset ELSE 0
             /\ t \in Nat
             /\ file' \in Seq({None} \cup (Nat \X Nat))
             /\ Len(file') = Len(file) + t + n
             /\ \A p \in DOMAIN file : file'[p] = file[p]
             /\ \A p \in Len(file) + 1 .. Len(file) + t : file'[p] = None
             /\ \A i \in 1 .. n : file'[Len(file) + t + i] = <<Len(fragments) + 1, i>>
<1> DEFINE S == {None} \cup (Nat \X Nat)
           m == BlockSize - blockOffset
           t == Len(Trailer)
           b == SubSeq(Bytes, 1, n)
<1>1. /\ FragmentLength \in Nat /\ HeaderSize \in Nat /\ n \in Nat
      /\ n <= HeaderSize + FragmentLength
      /\ BlockSize \in Nat /\ blockOffset \in 0 .. BlockSize
  BY Lengths DEF SizesAssumption, Emits, LogType
<1>2. /\ Trailer \in Seq(S)
      /\ t = IF m < HeaderSize THEN m ELSE 0
      /\ t \in Nat
      /\ \A i \in 1 .. t : Trailer[i] = None
  BY TrailerIs
<1>3. /\ b \in Seq(S) /\ Len(b) = n
      /\ \A i \in 1 .. n : b[i] = <<Len(fragments) + 1, i>>
  <2>1. Bytes \in Seq(Nat \X Nat) /\ Len(Bytes) = HeaderSize + FragmentLength
    BY WholeBytes DEF Emits
  <2>2. Bytes \in Seq(S)
    BY <2>1
  <2>3. \A i \in 1 .. n : Bytes[i] = <<Len(fragments) + 1, i>>
    BY <1>1 DEF Bytes
  <2>4. \A i \in 1 .. n : i \in 1 .. Len(Bytes)
    BY <1>1, <2>1
  <2> HIDE DEF S
  <2>5. b \in Seq(S) /\ Len(b) = n /\ \A i \in 1 .. n : b[i] = Bytes[i]
    BY <1>1, <2>1, <2>2, <2>4
  <2> QED
    BY <2>3, <2>5
<1>4. file \in Seq(S) /\ file' = (file \o Trailer) \o b
  BY DEF LogType, Emits
<1> HIDE DEF S, b, t
<1>5. /\ file' \in Seq(S) /\ Len(file') = Len(file) + t + n
      /\ \A p \in 1 .. Len(file) : file'[p] = file[p]
      /\ \A i \in 1 .. t : file'[Len(file) + i] = None
      /\ \A i \in 1 .. n : file'[Len(file) + t + i] = <<Len(fragments) + 1, i>>
  <2>1. Trailer \in Seq(S) /\ b \in Seq(S)
    BY <1>2, <1>3
  <2>2. file' \in Seq(S)
    BY <1>4, <2>1, ThreeParts
  <2>3. Len(file') = Len(file) + Len(Trailer) + Len(b)
    BY <1>4, <2>1, ThreeParts
  <2>4. \A p \in 1 .. Len(file) : file'[p] = file[p]
    BY <1>4, <2>1, ThreeParts
  <2>5. \A i \in 1 .. Len(Trailer) : file'[Len(file) + i] = Trailer[i]
    BY <1>4, <2>1, ThreeParts
  <2>6. \A i \in 1 .. Len(b) : file'[Len(file) + Len(Trailer) + i] = b[i]
    BY <1>4, <2>1, ThreeParts
  <2> QED
    BY <1>2, <1>3, <2>2, <2>3, <2>4, <2>5, <2>6 DEF t
<1>6. Len(file) \in Nat /\ DOMAIN file = 1 .. Len(file)
  BY <1>4
<1>7. \A p \in DOMAIN file : file'[p] = file[p]
  BY <1>5, <1>6
<1>8. ASSUME NEW p \in Len(file) + 1 .. Len(file) + t PROVE file'[p] = None
  <2>1. p - Len(file) \in 1 .. t /\ Len(file) + (p - Len(file)) = p
    BY <1>2, <1>6
  <2> QED
    BY <1>5, <2>1
<1> QED
  BY <1>2, <1>5, <1>7, <1>8 DEF S, t

LEMMA NewFragment ==
  ASSUME SizesAssumption, LogType, NEW n, Emits(n)
  PROVE  LET new == Len(fragments) + 1
         IN  /\ new \in Nat
             /\ fragments' \in Seq([record : Nat, type : Types, length : Nat])
             /\ DOMAIN fragments' = 1 .. new /\ DOMAIN fragments = 1 .. new - 1
             /\ Len(fragments') = new
             /\ \A f \in DOMAIN fragments : fragments'[f] = fragments[f]
             /\ fragments'[new].record = added
             /\ fragments'[new].type = Type
             /\ fragments'[new].length = FragmentLength
<1>1. Fragment \in [record : Nat, type : Types, length : Nat]
  BY Lengths DEF Fragment, LogType, Emits
<1>2. /\ fragments \in Seq([record : Nat, type : Types, length : Nat])
      /\ fragments' = Append(fragments, Fragment)
  BY DEF LogType, Emits
<1>3. fragments'[Len(fragments) + 1] = Fragment
  BY <1>1, <1>2
<1> QED
  BY <1>1, <1>2, <1>3 DEF Fragment

(* Where a byte of the new file comes from.                                *)
LEMMA NewPlace ==
  ASSUME SizesAssumption, LogType, BytesOK, NEW n, Emits(n),
         NEW p \in DOMAIN file', NEW f \in Nat, NEW i \in Nat, file'[p] = <<f, i>>
  PROVE  \/ p \in DOMAIN file /\ f \in DOMAIN fragments /\ file[p] = <<f, i>>
         \/ /\ f = Len(fragments) + 1 /\ i \in 1 .. n
            /\ p = Len(file) + Len(Trailer) + i
<1> DEFINE t == Len(Trailer)
<1>1. /\ t \in Nat /\ n \in Nat /\ Len(file) \in Nat
      /\ DOMAIN file = 1 .. Len(file) /\ DOMAIN file' = 1 .. Len(file) + t + n
  <2>1. /\ t \in Nat /\ Len(file') = Len(file) + t + n
        /\ file' \in Seq({None} \cup (Nat \X Nat))
    BY NewBytes
  <2>2. n \in Nat
    BY Lengths DEF Emits, SizesAssumption
  <2> QED
    BY <2>1, <2>2 DEF LogType
<1>2. /\ \A q \in DOMAIN file : file'[q] = file[q]
      /\ \A q \in Len(file) + 1 .. Len(file) + t : file'[q] = None
      /\ \A k \in 1 .. n : file'[Len(file) + t + k] = <<Len(fragments) + 1, k>>
  BY NewBytes
<1>3. None # <<f, i>>
  BY DEF SizesAssumption
<1> HIDE DEF t
<1>4. CASE p \in DOMAIN file
  <2>1. file[p] = <<f, i>>
    BY <1>2, <1>4
  <2>2. PICK g \in DOMAIN fragments : \E j \in 1 .. Size(g) : file[p] = <<g, j>>
    BY <1>3, <1>4, <2>1 DEF BytesOK
  <2>3. f = g
    BY <2>1, <2>2
  <2> QED
    BY <1>4, <2>1, <2>2, <2>3
<1>5. CASE p \notin DOMAIN file
  <2>1. p \notin Len(file) + 1 .. Len(file) + t
    BY <1>2, <1>3
  <2>2. p - (Len(file) + t) \in 1 .. n /\ Len(file) + t + (p - (Len(file) + t)) = p
    BY <1>1, <1>5, <2>1
  <2>3. file'[p] = <<Len(fragments) + 1, p - (Len(file) + t)>>
    BY <1>2, <2>2
  <2>4. f = Len(fragments) + 1 /\ i = p - (Len(file) + t)
    BY <2>3
  <2> QED
    BY <2>2, <2>4 DEF t
<1> QED
  BY <1>4, <1>5

LEMMA NewSizes ==
  ASSUME SizesAssumption, LogType, NEW n, Emits(n), NEW new, new = Len(fragments) + 1
  PROVE  /\ \A f \in DOMAIN fragments :
              /\ f \in DOMAIN fragments' /\ f \in Nat /\ f < new
              /\ Size(f)' = Size(f) /\ Size(f) \in Nat /\ HeaderSize <= Size(f)
              /\ Starts(f)' <=> Starts(f)
              /\ Ends(f)' <=> Ends(f)
              /\ \A p : Whole(f, p) => Whole(f, p)'
         /\ Size(new)' = HeaderSize + FragmentLength
         /\ Starts(new)' <=> begin
         /\ Ends(new)' <=> left = FragmentLength
         /\ n \in 0 .. Size(new)'
<1>1. /\ new \in Nat
      /\ DOMAIN fragments' = 1 .. new /\ DOMAIN fragments = 1 .. new - 1
      /\ \A f \in DOMAIN fragments : fragments'[f] = fragments[f]
      /\ fragments'[new].type = Type
      /\ fragments'[new].length = FragmentLength
  BY NewFragment
<1>2. /\ Type \in {"full", "first"} <=> begin
      /\ Type \in {"full", "last"} <=> left = FragmentLength
  BY Lengths DEF Emits
<1>3. \A p \in DOMAIN file : p \in DOMAIN file' /\ file'[p] = file[p]
  <2>1. /\ Len(Trailer) \in Nat /\ Len(file') = Len(file) + Len(Trailer) + n
        /\ file' \in Seq({None} \cup (Nat \X Nat))
        /\ \A p \in DOMAIN file : file'[p] = file[p]
    BY NewBytes
  <2>2. n \in Nat
    BY Lengths DEF Emits, SizesAssumption
  <2> DEFINE R == {None} \cup (Nat \X Nat)
  <2>3. file \in Seq(R) /\ file' \in Seq(R)
    BY <2>1 DEF LogType
  <2> HIDE DEF R
  <2>4. /\ Len(file) \in Nat /\ DOMAIN file = 1 .. Len(file)
        /\ DOMAIN file' = 1 .. Len(file')
    BY <2>3
  <2> QED
    BY <2>1, <2>2, <2>4
<1>4. ASSUME NEW f \in DOMAIN fragments
      PROVE  /\ f \in DOMAIN fragments' /\ f \in Nat /\ f < new
             /\ Size(f)' = Size(f) /\ Size(f) \in Nat /\ HeaderSize <= Size(f)
             /\ Starts(f)' <=> Starts(f)
             /\ Ends(f)' <=> Ends(f)
             /\ \A p : Whole(f, p) => Whole(f, p)'
  <2>1. /\ f \in DOMAIN fragments' /\ f \in Nat /\ f < new /\ fragments'[f] = fragments[f]
        /\ fragments[f].length \in Nat
    <3>1. fragments[f].length \in Nat
      BY FragmentTypes
    <3>2. f \in 1 .. new - 1
      BY <1>1
    <3> QED
      BY <1>1, <3>1, <3>2
  <2>2. Size(f)' = Size(f) /\ Size(f) \in Nat /\ HeaderSize <= Size(f)
    BY <2>1 DEF Size, SizesAssumption
  <2>3. Starts(f)' <=> Starts(f)
    BY <2>1 DEF Starts
  <2>4. Ends(f)' <=> Ends(f)
    BY <2>1 DEF Ends
  <2>5. \A p : Whole(f, p) => Whole(f, p)'
    BY <1>3, <2>2 DEF Whole
  <2> QED
    BY <2>1, <2>2, <2>3, <2>4, <2>5
<1>5. Size(new)' = HeaderSize + FragmentLength
  BY <1>1 DEF Size
<1>6. Starts(new)' <=> begin
  BY <1>1, <1>2 DEF Starts
<1>7. Ends(new)' <=> left = FragmentLength
  BY <1>1, <1>2 DEF Ends
<1>8. n \in 0 .. Size(new)'
  BY <1>5 DEF Emits
<1> QED
  BY <1>4, <1>5, <1>6, <1>7, <1>8

LEMMA FragmentsAfter ==
  ASSUME SizesAssumption, LogType, Emitted, NEW n, Emits(n),
         left' = None \/ left # FragmentLength, begin' = FALSE \/ left' = None
  PROVE  Emitted'
<1> PICK new : new = Len(fragments) + 1
  OBVIOUS
<1>1. /\ new \in Nat
      /\ DOMAIN fragments' = 1 .. new /\ DOMAIN fragments = 1 .. new - 1
      /\ Len(fragments') = new
      /\ \A f \in DOMAIN fragments : fragments'[f] = fragments[f]
      /\ fragments'[new].record = added
      /\ added' = added /\ added \in Nat /\ left # None
      /\ \A f \in DOMAIN fragments : fragments[f].record \in Nat
  <2>1. \A f \in DOMAIN fragments : fragments[f].record \in Nat
    BY FragmentTypes
  <2>2. added' = added /\ added \in Nat /\ left # None
    BY DEF Emits, LogType
  <2> QED
    BY <2>1, <2>2, NewFragment
<1>2. /\ \A f \in DOMAIN fragments : (Starts(f)' <=> Starts(f)) /\ (Ends(f)' <=> Ends(f))
      /\ Starts(new)' <=> begin
      /\ Ends(new)' <=> left = FragmentLength
  BY NewSizes
<1>3. \A f \in DOMAIN fragments' : f \in DOMAIN fragments \/ f = new
  BY <1>1
<1>4. new \notin DOMAIN fragments /\ new \in DOMAIN fragments'
  BY <1>1
<1>5. \A f \in DOMAIN fragments' : fragments'[f].record <= added'
  BY <1>1, <1>3 DEF Emitted
<1>6. ASSUME NEW f \in DOMAIN fragments', NEW g \in DOMAIN fragments', f < g
      PROVE  /\ fragments'[f].record <= fragments'[g].record
             /\ Starts(g)' => fragments'[f].record < fragments'[g].record
  <2>1. f \in DOMAIN fragments
    BY <1>1, <1>3, <1>6
  <2>2. CASE g \in DOMAIN fragments
    BY <1>1, <1>2, <1>6, <2>1, <2>2 DEF Emitted
  <2>3. CASE g = new
    BY <1>1, <1>2, <2>1, <2>3 DEF Emitted
  <2> QED
    BY <1>3, <2>2, <2>3
<1>7. ASSUME NEW f \in DOMAIN fragments', ~Starts(f)'
      PROVE  /\ f - 1 \in DOMAIN fragments' /\ ~Ends(f - 1)'
             /\ fragments'[f - 1].record = fragments'[f].record
  <2>1. CASE f \in DOMAIN fragments
    <3>1. /\ f - 1 \in DOMAIN fragments /\ ~Ends(f - 1)
          /\ fragments[f - 1].record = fragments[f].record
      BY <1>2, <1>7, <2>1 DEF Emitted
    <3> QED
      BY <1>1, <1>2, <2>1, <3>1
  <2>2. CASE f = new
    <3>1. /\ Len(fragments) \in DOMAIN fragments /\ ~Ends(Len(fragments))
          /\ fragments[Len(fragments)].record = added
      BY <1>1, <1>2, <1>7, <2>2 DEF Emitted
    <3>2. f - 1 = Len(fragments)
      BY <1>1, <2>2, <3>1
    <3> QED
      BY <1>1, <1>2, <2>2, <3>1, <3>2
  <2> QED
    BY <1>3, <2>1, <2>2
<1>8. left' # None => ~begin' /\ ~Ends(new)'
  BY <1>2 DEF LogType
<1> QED
  BY <1>1, <1>4, <1>5, <1>6, <1>7, <1>8 DEF Emitted

LEMMA BytesAfter ==
  ASSUME SizesAssumption, LogType, Emitted, BytesOK, GoesOn, NEW n, Emits(n)
  PROVE  BytesOK'
<1> PICK new : new = Len(fragments) + 1
  OBVIOUS
<1> DEFINE t == Len(Trailer)
<1>1. /\ \A f \in DOMAIN fragments :
           /\ f \in DOMAIN fragments' /\ f \in Nat /\ f < new
           /\ Size(f)' = Size(f) /\ Size(f) \in Nat
           /\ Starts(f)' <=> Starts(f)
           /\ \A p : Whole(f, p) => Whole(f, p)'
      /\ Starts(new)' <=> begin
      /\ n \in 0 .. Size(new)'
  BY NewSizes
<1>2. /\ new \in Nat /\ DOMAIN fragments' = 1 .. new /\ DOMAIN fragments = 1 .. new - 1
  BY NewFragment
<1>3. /\ t \in Nat /\ Len(file) \in Nat /\ DOMAIN file = 1 .. Len(file)
      /\ DOMAIN file' = 1 .. Len(file) + t + n
      /\ file' \in Seq({None} \cup (Nat \X Nat))
      /\ \A p \in DOMAIN file : file'[p] = file[p]
      /\ \A p \in Len(file) + 1 .. Len(file) + t : file'[p] = None
      /\ \A i \in 1 .. n : file'[Len(file) + t + i] = <<new, i>>
  <2>1. /\ t \in Nat
        /\ Len(file') = Len(file) + t + n
        /\ file' \in Seq({None} \cup (Nat \X Nat))
        /\ \A p \in DOMAIN file : file'[p] = file[p]
        /\ \A p \in Len(file) + 1 .. Len(file) + t : file'[p] = None
        /\ \A i \in 1 .. n : file'[Len(file) + t + i] = <<new, i>>
    BY NewBytes
  <2>2. Len(file) \in Nat /\ DOMAIN file = 1 .. Len(file)
    BY DEF LogType
  <2>3. DOMAIN file' = 1 .. Len(file')
    BY <2>1
  <2> QED
    BY <2>1, <2>2, <2>3
<1>4. \A p \in DOMAIN file' : \A f, i \in Nat : file'[p] = <<f, i>> =>
        \/ p \in DOMAIN file /\ f \in DOMAIN fragments /\ file[p] = <<f, i>>
        \/ f = new /\ i \in 1 .. n /\ p = Len(file) + t + i
  BY NewPlace
<1>5. n \in Nat /\ Size(new)' \in Nat
  <2>1. Size(new)' = HeaderSize + FragmentLength
    BY NewSizes
  <2> QED
    <3>1. FragmentLength \in Nat /\ HeaderSize \in Nat
      BY Lengths DEF Emits, SizesAssumption
    <3>2. Size(new)' \in Nat
      BY <2>1, <3>1
    <3> QED
      BY <1>1, <3>2
<1> HIDE DEF t
<1>6. ASSUME NEW p \in DOMAIN file', file'[p] # None
      PROVE  \E f \in DOMAIN fragments' : \E i \in 1 .. Size(f)' : file'[p] = <<f, i>>
  <2>1. CASE p \in DOMAIN file
    <3>1. PICK f \in DOMAIN fragments : \E i \in 1 .. Size(f) : file[p] = <<f, i>>
      BY <1>3, <1>6, <2>1 DEF BytesOK
    <3> QED
      BY <1>1, <1>3, <2>1, <3>1
  <2>2. CASE p \notin DOMAIN file
    <3>1. p - (Len(file) + t) \in 1 .. n /\ Len(file) + t + (p - (Len(file) + t)) = p
      <4>1. p \notin Len(file) + 1 .. Len(file) + t
        BY <1>3, <1>6
      <4> QED
        BY <1>3, <1>5, <2>2, <4>1
    <3>2. file'[p] = <<new, p - (Len(file) + t)>>
      BY <1>3, <3>1
    <3>3. new \in DOMAIN fragments' /\ p - (Len(file) + t) \in 1 .. Size(new)'
      BY <1>1, <1>2, <1>5, <3>1
    <3> QED
      BY <3>2, <3>3
  <2> QED
    BY <2>1, <2>2
<1>7. ASSUME NEW p \in DOMAIN file', NEW q \in DOMAIN file', p < q,
             NEW f \in DOMAIN fragments', NEW g \in DOMAIN fragments',
             NEW i \in Nat, NEW j \in Nat, file'[p] = <<f, i>>, file'[q] = <<g, j>>
      PROVE  f < g \/ (f = g /\ q - p = j - i)
  <2>0. f \in Nat /\ g \in Nat
    BY <1>2
  <2>1. \/ p \in DOMAIN file /\ f \in DOMAIN fragments /\ file[p] = <<f, i>>
        \/ f = new /\ i \in 1 .. n /\ p = Len(file) + t + i
    BY <1>4, <1>7, <2>0
  <2>2. \/ q \in DOMAIN file /\ g \in DOMAIN fragments /\ file[q] = <<g, j>>
        \/ g = new /\ j \in 1 .. n /\ q = Len(file) + t + j
    BY <1>4, <1>7, <2>0
  <2>3. CASE q \in DOMAIN file /\ g \in DOMAIN fragments /\ file[q] = <<g, j>>
    <3>1. p \in DOMAIN file
      BY <1>3, <1>5, <1>7, <2>3
    <3>2. f \in DOMAIN fragments /\ file[p] = <<f, i>>
      BY <1>3, <1>5, <2>1, <3>1
    <3> QED
      BY <1>7, <2>3, <3>1, <3>2 DEF BytesOK
  <2>4. CASE g = new /\ j \in 1 .. n /\ q = Len(file) + t + j
    BY <1>1, <1>2, <1>3, <1>5, <2>1, <2>4
  <2> QED
    BY <2>2, <2>3, <2>4
<1>8. ASSUME NEW q \in DOMAIN file', NEW g \in DOMAIN fragments', NEW j \in Nat,
             file'[q] = <<g, j>>, ~Starts(g)'
      PROVE  \E p \in Nat : p + Size(g - 1)' < q /\ Whole(g - 1, p)'
  <2>0. g \in Nat
    BY <1>2
  <2>1. \/ q \in DOMAIN file /\ g \in DOMAIN fragments /\ file[q] = <<g, j>>
        \/ g = new /\ j \in 1 .. n /\ q = Len(file) + t + j
    BY <1>4, <1>8, <2>0
  <2>2. CASE q \in DOMAIN file /\ g \in DOMAIN fragments /\ file[q] = <<g, j>>
    <3>1. ~Starts(g)
      BY <1>1, <1>8, <2>2
    <3>2. g - 1 \in DOMAIN fragments
      BY <2>2, <3>1 DEF Emitted
    <3>3. PICK p \in Nat : p + Size(g - 1) < q /\ Whole(g - 1, p)
      BY <2>2, <3>1 DEF BytesOK
    <3>4. Size(g - 1)' = Size(g - 1) /\ Whole(g - 1, p)'
      BY <1>1, <3>2, <3>3
    <3> QED
      BY <3>3, <3>4
  <2>3. CASE g = new /\ j \in 1 .. n /\ q = Len(file) + t + j
    <3>1. ~begin
      BY <1>1, <1>8, <2>3
    <3>2. PICK p \in Nat : p + Size(Len(fragments)) <= Len(file) /\ Whole(Len(fragments), p)
      BY <3>1 DEF GoesOn, Emits
    <3>3. Len(fragments) \in DOMAIN fragments /\ g - 1 = Len(fragments)
      BY <1>2, <2>3, <3>1 DEF Emitted, Emits
    <3>4. Size(g - 1)' = Size(g - 1) /\ Whole(g - 1, p)' /\ Size(g - 1) \in Nat
      BY <1>1, <3>2, <3>3
    <3>5. p + Size(g - 1) < q
      BY <1>3, <1>5, <2>3, <3>2, <3>3, <3>4
    <3> QED
      BY <3>4, <3>5
  <2> QED
    BY <2>1, <2>2, <2>3
<1> QED
  BY <1>6, <1>7, <1>8 DEF BytesOK

LEMMA EmitIsEmits ==
  ASSUME SizesAssumption, LogType, EmitPhysicalRecord
  PROVE  /\ Emits(HeaderSize + FragmentLength)
         /\ begin' = FALSE /\ failures' = failures
         /\ \/ /\ left = FragmentLength /\ left' = None
               /\ complete' = Append(complete, [record |-> added, end |-> Len(file')])
            \/ /\ left # FragmentLength /\ left' = left - FragmentLength
               /\ left' \in Nat /\ complete' = complete
<1>1. at = None /\ left # None
  BY DEF EmitPhysicalRecord
<1>2. /\ HeaderSize + FragmentLength \in Nat /\ left \in Nat
      /\ FragmentLength \in 0 .. left
  BY <1>1, Lengths DEF SizesAssumption
<1>3. SubSeq(Bytes, 1, HeaderSize + FragmentLength) = Bytes
  BY <1>1, WholeBytes
<1>4. Emits(HeaderSize + FragmentLength)
  <2>1. file' = file \o Trailer \o SubSeq(Bytes, 1, HeaderSize + FragmentLength)
    BY <1>3 DEF EmitPhysicalRecord
  <2>2. /\ fragments' = Append(fragments, Fragment)
        /\ blockOffset' = Offset + HeaderSize + FragmentLength
        /\ UNCHANGED <<added, reader>>
    BY DEF EmitPhysicalRecord
  <2>3. HeaderSize + FragmentLength \in 0 .. HeaderSize + FragmentLength
    BY <1>2
  <2> QED
    BY <1>1, <2>1, <2>2, <2>3 DEF Emits
<1> QED
  BY <1>2, <1>4 DEF EmitPhysicalRecord

LEMMA FailsIsEmits ==
  ASSUME SizesAssumption, LogType, NEW n \in 0 .. BlockSize, EmitFails(n)
  PROVE  /\ Emits(n)
         /\ n < HeaderSize + FragmentLength
         /\ left' = None /\ begin' = begin /\ complete' = complete
         /\ failures' = failures + 1
<1>1. at = None /\ left # None /\ n < HeaderSize + FragmentLength
  BY DEF EmitFails
<1>2. n \in 0 .. HeaderSize + FragmentLength
  BY <1>1, Lengths DEF SizesAssumption
<1> QED
  BY <1>1, <1>2 DEF EmitFails, Emits

(* What stays in the writer, whatever it does.                             *)
LEMMA CompleteTypes ==
  ASSUME LogType, NEW r, r \in [record : Nat, end : Nat]
  PROVE  /\ Append(complete, r) \in Seq([record : Nat, end : Nat])
         /\ DOMAIN complete = 1 .. Len(complete) /\ Len(complete) \in Nat
         /\ DOMAIN Append(complete, r) = 1 .. Len(complete) + 1
         /\ \A j \in DOMAIN complete : Append(complete, r)[j] = complete[j]
         /\ Append(complete, r)[Len(complete) + 1] = r
<1> DEFINE R == [record : Nat, end : Nat]
<1>1. complete \in Seq(R) /\ r \in R
  BY DEF LogType
<1> HIDE DEF R
<1>2. /\ Append(complete, r) \in Seq(R)
      /\ DOMAIN complete = 1 .. Len(complete) /\ Len(complete) \in Nat
      /\ DOMAIN Append(complete, r) = 1 .. Len(complete) + 1
      /\ \A j \in DOMAIN complete : Append(complete, r)[j] = complete[j]
      /\ Append(complete, r)[Len(complete) + 1] = r
  BY <1>1
<1> QED
  BY <1>2 DEF R

LEMMA TypesAfter ==
  ASSUME SizesAssumption, LogType, NEW n, Emits(n),
         left' \in Nat \cup {None}, begin' \in BOOLEAN, failures' \in Nat,
         complete' \in Seq([record : Nat, end : Nat])
  PROVE  LogType'
<1>1. /\ file' \in Seq({None} \cup (Nat \X Nat))
      /\ fragments' \in Seq([record : Nat, type : Types, length : Nat])
  BY NewBytes, NewFragment
<1>2. blockOffset' \in 0 .. BlockSize
  <2>1. /\ Offset \in 0 .. BlockSize - HeaderSize /\ FragmentLength \in Nat
        /\ FragmentLength <= BlockSize - Offset - HeaderSize
        /\ HeaderSize \in Nat /\ BlockSize \in Nat
    BY Lengths DEF Emits, SizesAssumption
  <2> QED
    BY <2>1 DEF Emits
<1>3. /\ added' = added /\ at' = at /\ scratch' = scratch /\ got' = got
  BY DEF Emits, reader
<1> QED
  BY <1>1, <1>2, <1>3 DEF LogType

LEMMA EmitKeeps ==
  ASSUME SizesAssumption, LogType, WriterInv, EmitPhysicalRecord
  PROVE  LogType' /\ WriterInv'
<1> PICK n : n = HeaderSize + FragmentLength
  OBVIOUS
<1> PICK new : new = Len(fragments) + 1
  OBVIOUS
<1> DEFINE r == [record |-> added, end |-> Len(file')]
<1>1. /\ Emits(n) /\ begin' = FALSE /\ failures' = failures
      /\ \/ /\ left = FragmentLength /\ left' = None
            /\ complete' = Append(complete, r)
         \/ /\ left # FragmentLength /\ left' \in Nat /\ complete' = complete
  BY EmitIsEmits
<1>2. /\ Len(Trailer) \in Nat /\ Len(file) \in Nat
      /\ file' \in Seq({None} \cup (Nat \X Nat))
      /\ Len(file') = Len(file) + Len(Trailer) + n
      /\ \A p \in DOMAIN file : file'[p] = file[p]
      /\ \A i \in 1 .. n : file'[Len(file) + Len(Trailer) + i] = <<new, i>>
  <2>1. Len(file) \in Nat
    BY DEF LogType
  <2> QED
    BY <1>1, <2>1, NewBytes
<1>3. r \in [record : Nat, end : Nat]
  <2>1. Len(file') \in Nat
    BY <1>2
  <2> QED
    BY <2>1 DEF LogType
<1>4. /\ Append(complete, r) \in Seq([record : Nat, end : Nat])
      /\ DOMAIN complete = 1 .. Len(complete) /\ Len(complete) \in Nat
      /\ DOMAIN Append(complete, r) = 1 .. Len(complete) + 1
      /\ \A j \in DOMAIN complete : Append(complete, r)[j] = complete[j]
      /\ Append(complete, r)[Len(complete) + 1] = r
  BY <1>3, CompleteTypes
<1>5. /\ new \in Nat /\ Len(fragments') = new
      /\ DOMAIN fragments' = 1 .. new /\ DOMAIN fragments = 1 .. new - 1
      /\ \A f \in DOMAIN fragments : fragments'[f] = fragments[f]
      /\ fragments'[new].record = added
  BY <1>1, NewFragment
<1>6. /\ \A f \in DOMAIN fragments : (Size(f)' = Size(f)) /\ (Ends(f)' <=> Ends(f))
      /\ Size(new)' = n /\ n \in Nat
      /\ Ends(new)' <=> left = FragmentLength
  <2>1. n \in Nat
    BY <1>1, Lengths DEF Emits, SizesAssumption
  <2> QED
    BY <1>1, <2>1, NewSizes
<1>7. LogType'
  <2>1. left' \in Nat \cup {None} /\ begin' \in BOOLEAN /\ failures' \in Nat
    BY <1>1 DEF LogType
  <2>2. complete' \in Seq([record : Nat, end : Nat])
    <3>1. complete \in Seq([record : Nat, end : Nat])
      BY DEF LogType
    <3> HIDE DEF r
    <3> QED
      BY <1>1, <1>4, <3>1
  <2> QED
    BY <1>1, <2>1, <2>2, TypesAfter
<1>8. Emitted'
  BY <1>1, FragmentsAfter DEF WriterInv
<1>9. BytesOK'
  BY <1>1, BytesAfter DEF WriterInv
<1>10. EndsOK'
  <2> SUFFICES ASSUME NEW p \in DOMAIN file', NEW f \in DOMAIN fragments',
                      file'[p] = <<f, Size(f)'>>, Ends(f)'
               PROVE  \E j \in DOMAIN complete' : complete'[j].record = fragments'[f].record
    BY DEF EndsOK
  <2>1. CASE f \in DOMAIN fragments
    <3>1. Size(f)' = Size(f) /\ Size(f) \in Nat /\ f \in Nat /\ f < new /\ Ends(f)
      BY <1>1, <2>1, NewSizes
    <3>2. p \in DOMAIN file /\ file[p] = <<f, Size(f)>>
      BY <1>1, <3>1, NewPlace DEF WriterInv
    <3>3. PICK j \in DOMAIN complete : complete[j].record = fragments[f].record
      BY <2>1, <3>1, <3>2 DEF WriterInv, EndsOK
    <3>4. j \in DOMAIN complete' /\ complete'[j] = complete[j]
      <4> HIDE DEF r
      <4>1. j \in 1 .. Len(complete) + 1
        BY <1>4
      <4> QED
        BY <1>1, <1>4, <4>1
    <3> QED
      BY <1>5, <2>1, <3>3, <3>4
  <2>2. CASE f = new
    <3>1. complete' = Append(complete, r)
      BY <1>1, <1>6, <2>2
    <3>2. Len(complete) + 1 \in DOMAIN complete' /\ complete'[Len(complete) + 1].record = added
      BY <1>4, <3>1
    <3> QED
      BY <1>5, <2>2, <3>2
  <2> QED
    BY <1>5, <2>1, <2>2
<1>11. GoesOn'
  <2>1. PICK q \in Nat : q = Len(file) + Len(Trailer)
    BY <1>2
  <2>2. q + Size(new)' <= Len(file')
    BY <1>2, <1>6, <2>1
  <2>3. DOMAIN file' = 1 .. Len(file')
    BY <1>2
  <2>4. \A i \in 1 .. n : q + i \in DOMAIN file' /\ file'[q + i] = <<new, i>>
    BY <1>2, <1>6, <2>1, <2>3
  <2>5. Whole(new, q)'
    BY <1>6, <2>4 DEF Whole
  <2>6. Len(fragments') = new
    BY <1>5
  <2> QED
    BY <2>2, <2>5, <2>6 DEF GoesOn
<1> QED
  BY <1>7, <1>8, <1>9, <1>10, <1>11 DEF WriterInv

LEMMA FailureKeeps ==
  ASSUME SizesAssumption, LogType, WriterInv, NEW n \in 0 .. BlockSize, EmitFails(n)
  PROVE  LogType' /\ WriterInv'
<1> PICK new : new = Len(fragments) + 1
  OBVIOUS
<1>1. /\ Emits(n) /\ n < HeaderSize + FragmentLength
      /\ left' = None /\ begin' = begin /\ complete' = complete
      /\ failures' = failures + 1
  BY FailsIsEmits
<1>2. LogType'
  <2>1. left' \in Nat \cup {None} /\ begin' \in BOOLEAN /\ failures' \in Nat
    BY <1>1 DEF LogType
  <2>2. complete' \in Seq([record : Nat, end : Nat])
    BY <1>1 DEF LogType
  <2> QED
    BY <1>1, <2>1, <2>2, TypesAfter
<1>3. Emitted'
  BY <1>1, FragmentsAfter DEF WriterInv
<1>4. BytesOK'
  BY <1>1, BytesAfter DEF WriterInv
<1>5. EndsOK'
  <2> SUFFICES ASSUME NEW p \in DOMAIN file', NEW f \in DOMAIN fragments',
                      file'[p] = <<f, Size(f)'>>, Ends(f)'
               PROVE  \E j \in DOMAIN complete : complete[j].record = fragments'[f].record
    BY <1>1 DEF EndsOK
  <2>1. /\ DOMAIN fragments' = 1 .. new /\ DOMAIN fragments = 1 .. new - 1
        /\ \A g \in DOMAIN fragments : fragments'[g] = fragments[g]
        /\ new \in Nat
    BY <1>1, NewFragment
  <2>2. CASE f \in DOMAIN fragments
    <3>1. Size(f)' = Size(f) /\ Size(f) \in Nat /\ f \in Nat /\ f < new /\ Ends(f)
      BY <1>1, <2>2, NewSizes
    <3>2. p \in DOMAIN file /\ file[p] = <<f, Size(f)>>
      BY <1>1, <3>1, NewPlace DEF WriterInv
    <3>3. PICK j \in DOMAIN complete : complete[j].record = fragments[f].record
      BY <2>2, <3>1, <3>2 DEF WriterInv, EndsOK
    <3> QED
      BY <2>1, <2>2, <3>3
  <2>3. CASE f = new
    <3>1. Size(new)' = HeaderSize + FragmentLength /\ HeaderSize + FragmentLength \in Nat
      <4>1. HeaderSize + FragmentLength \in Nat
        <5>1. left # None
          BY <1>1 DEF Emits
        <5>2. FragmentLength \in 0 .. left /\ left \in Nat
          BY <5>1, Lengths
        <5> QED
          BY <5>2 DEF SizesAssumption
      <4> QED
        BY <1>1, <4>1, NewSizes
    <3>2. Size(f)' \in 1 .. n
      BY <1>1, <2>1, <2>3, <3>1, NewPlace DEF WriterInv
    <3> QED
      BY <1>1, <2>3, <3>1, <3>2
  <2> QED
    BY <2>1, <2>2, <2>3
<1>6. GoesOn'
  BY <1>1 DEF GoesOn
<1> QED
  BY <1>2, <1>3, <1>4, <1>5, <1>6 DEF WriterInv

(* A filling that is not written whole, or not at all: there is nothing of *)
(* a fragment in it.                                                       *)
LEMMA FillKeeps ==
  ASSUME SizesAssumption, LogType, WriterInv, NEW m \in 0 .. HeaderSize, FillFails(m)
  PROVE  LogType' /\ WriterInv'
<1> DEFINE S == {None} \cup (Nat \X Nat)
           some == SubSeq(Trailer, 1, m)
<1>1. /\ fragments' = fragments /\ complete' = complete /\ blockOffset' = 0
      /\ failures' = failures + 1 /\ left' = left /\ begin' = begin /\ added' = added
      /\ at = None /\ left # None /\ at' = at /\ scratch' = scratch /\ got' = got
      /\ m < Len(Trailer) /\ file' = file \o some
  BY DEF FillFails, reader
<1>2. /\ Trailer \in Seq(S) /\ Len(Trailer) \in Nat /\ m \in Nat /\ BlockSize \in Nat
      /\ \A i \in 1 .. Len(Trailer) : Trailer[i] = None
  BY TrailerIs DEF SizesAssumption
<1>3. some \in Seq(S) /\ Len(some) = m /\ \A i \in 1 .. m : some[i] = None
  <2> HIDE DEF S
  <2> QED
    BY <1>1, <1>2
<1>4. file \in Seq(S)
  BY DEF LogType
<1> HIDE DEF S, some
<1>5. /\ file' \in Seq(S) /\ Len(file) \in Nat
      /\ DOMAIN file = 1 .. Len(file) /\ DOMAIN file' = 1 .. Len(file) + m
      /\ Len(file') = Len(file) + m
      /\ \A p \in 1 .. Len(file) : file'[p] = file[p]
      /\ \A i \in 1 .. m : file'[Len(file) + i] = None
  <2>1. /\ file' \in Seq(S) /\ Len(file') = Len(file) + Len(some)
        /\ \A p \in 1 .. Len(file) : file'[p] = file[p]
        /\ \A i \in 1 .. Len(some) : file'[Len(file) + i] = some[i]
    BY <1>1, <1>3, <1>4, Concatenation
  <2>2. Len(file) \in Nat /\ DOMAIN file = 1 .. Len(file) /\ DOMAIN file' = 1 .. Len(file')
    BY <1>4, <2>1
  <2> QED
    BY <1>3, <2>1, <2>2
<1>6. \A p \in DOMAIN file : p \in DOMAIN file' /\ file'[p] = file[p]
  BY <1>2, <1>5
<1>7. ASSUME NEW p \in DOMAIN file', file'[p] # None
      PROVE  p \in DOMAIN file /\ file[p] = file'[p]
  <2>1. CASE p \in 1 .. Len(file)
    BY <2>1, <1>5
  <2>2. CASE p \notin 1 .. Len(file)
    <3>1. p - Len(file) \in 1 .. m /\ Len(file) + (p - Len(file)) = p
      BY <2>2, <1>2, <1>5
    <3> QED
      BY <3>1, <1>5, <1>7
  <2> QED
    BY <2>1, <2>2
<1>8. \A f, i : f \in Nat /\ i \in Nat => <<f, i>> # None
  BY DEF SizesAssumption
<1>9. LogType'
  <2>1. failures' \in Nat /\ 0 \in 0 .. BlockSize
    BY <1>1, <1>2 DEF LogType
  <2> QED
    BY <1>1, <1>5, <2>1 DEF LogType, S
<1>10. /\ \A f : Size(f)' = Size(f) /\ (Starts(f)' <=> Starts(f)) /\ (Ends(f)' <=> Ends(f))
       /\ \A f, p : Whole(f, p) => Whole(f, p)'
  BY <1>1, <1>6 DEF Size, Starts, Ends, Whole
<1>11. \A f \in DOMAIN fragments : f \in Nat /\ Size(f) \in Nat
  BY FragmentTypes DEF Size, SizesAssumption
<1>12. Emitted'
  BY <1>1, <1>10 DEF WriterInv, Emitted
<1>13. BytesOK'
  <2>1. ASSUME NEW p \in DOMAIN file', file'[p] # None
        PROVE  \E f \in DOMAIN fragments' : \E i \in 1 .. Size(f)' : file'[p] = <<f, i>>
    BY <1>1, <1>7, <1>10, <2>1 DEF WriterInv, BytesOK
  <2>2. ASSUME NEW p \in DOMAIN file', NEW q \in DOMAIN file', p < q,
               NEW f \in DOMAIN fragments', NEW g \in DOMAIN fragments',
               NEW i \in Nat, NEW j \in Nat, file'[p] = <<f, i>>, file'[q] = <<g, j>>
        PROVE  f < g \/ (f = g /\ q - p = j - i)
    <3>1. file'[p] # None /\ file'[q] # None
      BY <1>1, <1>8, <1>11, <2>2
    <3>2. p \in DOMAIN file /\ q \in DOMAIN file /\ file[p] = <<f, i>> /\ file[q] = <<g, j>>
      BY <1>7, <2>2, <3>1
    <3> QED
      BY <1>1, <2>2, <3>2 DEF WriterInv, BytesOK
  <2>3. ASSUME NEW q \in DOMAIN file', NEW g \in DOMAIN fragments', NEW j \in Nat,
               file'[q] = <<g, j>>, ~Starts(g)'
        PROVE  \E p \in Nat : p + Size(g - 1)' < q /\ Whole(g - 1, p)'
    <3>1. file'[q] # None
      BY <1>1, <1>8, <1>11, <2>3
    <3>2. q \in DOMAIN file /\ file[q] = <<g, j>>
      BY <1>7, <2>3, <3>1
    <3>3. PICK p \in Nat : p + Size(g - 1) < q /\ Whole(g - 1, p)
      BY <1>1, <1>10, <2>3, <3>2 DEF WriterInv, BytesOK
    <3> QED
      BY <1>10, <3>3
  <2> QED
    BY <2>1, <2>2, <2>3 DEF BytesOK
<1>14. EndsOK'
  <2> SUFFICES ASSUME NEW p \in DOMAIN file', NEW f \in DOMAIN fragments,
                      file'[p] = <<f, Size(f)>>, Ends(f)
               PROVE  \E j \in DOMAIN complete : complete[j].record = fragments[f].record
    BY <1>1, <1>10 DEF EndsOK
  <2>1. p \in DOMAIN file /\ file[p] = <<f, Size(f)>>
    BY <1>7, <1>8, <1>11
  <2> QED
    BY <2>1 DEF WriterInv, EndsOK
<1>15. GoesOn'
  <2> SUFFICES ASSUME ~begin
               PROVE  \E p \in Nat : /\ p + Size(Len(fragments))' <= Len(file')
                                     /\ Whole(Len(fragments), p)'
    BY <1>1 DEF GoesOn
  <2>0. PICK g : g = Len(fragments)
    OBVIOUS
  <2>1. PICK p \in Nat : p + Size(g) <= Len(file) /\ Whole(g, p)
    BY <2>0, <1>1 DEF WriterInv, GoesOn
  <2>2. Size(g) \in Nat
    BY <2>0, <1>1, <1>11 DEF WriterInv, Emitted
  <2>3. Size(g)' = Size(g) /\ Whole(g, p)'
    BY <1>10, <2>1
  <2>4. p + Size(g) <= Len(file')
    BY <1>2, <1>5, <2>1, <2>2
  <2>5. Len(fragments') = g
    BY <2>0, <1>1
  <2> QED
    BY <2>3, <2>4, <2>5
<1> QED
  BY <1>9, <1>12, <1>13, <1>14, <1>15 DEF WriterInv

LEMMA AddKeeps ==
  ASSUME SizesAssumption, LogType, WriterInv, NEW size \in Sizes, AddRecord(size)
  PROVE  LogType' /\ WriterInv'
<1>1. /\ file' = file /\ fragments' = fragments /\ complete' = complete
      /\ blockOffset' = blockOffset /\ failures' = failures
      /\ at' = at /\ scratch' = scratch /\ got' = got
      /\ left' = size /\ begin' = TRUE /\ added' = added + 1
  BY DEF AddRecord, reader
<1>2. size \in Nat /\ added \in Nat
  BY DEF SizesAssumption, LogType
<1>3. LogType'
  BY <1>1, <1>2 DEF LogType
<1>4. /\ \A f : Size(f)' = Size(f) /\ (Starts(f)' <=> Starts(f)) /\ (Ends(f)' <=> Ends(f))
      /\ \A f, p : Whole(f, p)' <=> Whole(f, p)
  BY <1>1 DEF Size, Starts, Ends, Whole
<1>5. Emitted'
  <2>1. \A f \in DOMAIN fragments : fragments[f].record < added + 1
    BY <1>2, FragmentTypes DEF WriterInv, Emitted
  <2>2. \A f \in DOMAIN fragments : fragments[f].record <= added + 1
    BY <1>2, <2>1, FragmentTypes
  <2> QED
    BY <1>1, <1>4, <2>1, <2>2 DEF WriterInv, Emitted
<1>6. BytesOK'
  BY <1>1, <1>4 DEF WriterInv, BytesOK
<1>7. EndsOK'
  BY <1>1, <1>4 DEF WriterInv, EndsOK
<1>8. GoesOn'
  BY <1>1 DEF GoesOn
<1> QED
  BY <1>3, <1>5, <1>6, <1>7, <1>8 DEF WriterInv

LEMMA CrashKeeps ==
  ASSUME SizesAssumption, LogType, WriterInv, NEW bytes \in 0 .. Len(file), Crash(bytes)
  PROVE  LogType' /\ WriterInv' /\ scratch' = None /\ got' = <<>>
<1>1. /\ fragments' = fragments /\ complete' = complete
      /\ blockOffset' = blockOffset /\ failures' = failures
      /\ at = None /\ at' = 0 /\ scratch' = scratch /\ got' = got
      /\ left' = left /\ begin' = begin /\ added' = added
  BY DEF Crash, writer
<1>2. /\ Len(file) \in Nat /\ DOMAIN file = 1 .. Len(file) /\ bytes \in Nat
      /\ file' \in Seq({None} \cup (Nat \X Nat))
      /\ DOMAIN file' = 1 .. bytes
      /\ \A p \in 1 .. bytes : file'[p] = file[p]
  <2> DEFINE S == {None} \cup (Nat \X Nat)
  <2>1. file \in Seq(S) /\ file' = SubSeq(file, 1, bytes)
    BY DEF LogType, Crash
  <2> HIDE DEF S
  <2>2. Len(file) \in Nat /\ DOMAIN file = 1 .. Len(file) /\ bytes \in Nat /\ bytes <= Len(file)
    BY <2>1
  <2>3. file' \in Seq(S) /\ DOMAIN file' = 1 .. bytes
    BY <2>1, <2>2
  <2>4. \A p \in 1 .. bytes : file'[p] = file[p]
    BY <2>1, <2>2
  <2> QED
    BY <2>2, <2>3, <2>4 DEF S
<1>3. \A p \in DOMAIN file' : p \in DOMAIN file /\ file'[p] = file[p]
  BY <1>2
<1>4. LogType'
  <2>1. scratch' = None /\ got' = <<>>
    BY <1>1 DEF LogType
  <2> QED
    BY <1>1, <1>2, <2>1 DEF LogType
<1>5. \A f : Size(f)' = Size(f) /\ (Starts(f)' <=> Starts(f)) /\ (Ends(f)' <=> Ends(f))
  BY <1>1 DEF Size, Starts, Ends
<1>6. Emitted'
  BY <1>1, <1>5 DEF WriterInv, Emitted
<1>7. BytesOK'
  <2>1. ASSUME NEW p \in DOMAIN file', file'[p] # None
        PROVE  \E f \in DOMAIN fragments' : \E i \in 1 .. Size(f)' : file'[p] = <<f, i>>
    BY <1>1, <1>3, <1>5, <2>1 DEF WriterInv, BytesOK
  <2>2. ASSUME NEW p \in DOMAIN file', NEW q \in DOMAIN file', p < q,
               NEW f \in DOMAIN fragments', NEW g \in DOMAIN fragments',
               NEW i \in Nat, NEW j \in Nat, file'[p] = <<f, i>>, file'[q] = <<g, j>>
        PROVE  f < g \/ (f = g /\ q - p = j - i)
    BY <1>1, <1>3, <2>2 DEF WriterInv, BytesOK
  <2>3. ASSUME NEW q \in DOMAIN file', NEW g \in DOMAIN fragments', NEW j \in Nat,
               file'[q] = <<g, j>>, ~Starts(g)'
        PROVE  \E p \in Nat : p + Size(g - 1)' < q /\ Whole(g - 1, p)'
    <3>1. PICK p \in Nat : p + Size(g - 1) < q /\ Whole(g - 1, p)
      BY <1>1, <1>3, <1>5, <2>3 DEF WriterInv, BytesOK
    <3>2. g - 1 \in DOMAIN fragments
      BY <1>1, <1>5, <2>3 DEF WriterInv, Emitted
    <3>3. Size(g - 1) \in Nat /\ Size(g - 1)' = Size(g - 1)
      BY <1>5, <3>2, FragmentTypes DEF Size, SizesAssumption
    <3>4. \A i \in 1 .. Size(g - 1) : p + i \in DOMAIN file' /\ file'[p + i] = <<g - 1, i>>
      BY <1>2, <3>1, <3>3 DEF Whole
    <3>5. Whole(g - 1, p)'
      BY <3>3, <3>4 DEF Whole
    <3> QED
      BY <3>1, <3>3, <3>5
  <2> QED
    BY <2>1, <2>2, <2>3 DEF BytesOK
<1>8. EndsOK'
  BY <1>1, <1>3, <1>5 DEF WriterInv, EndsOK
<1>9. GoesOn'
  BY <1>1 DEF GoesOn, SizesAssumption
<1> QED
  BY <1>1, <1>4, <1>6, <1>7, <1>8, <1>9 DEF WriterInv, LogType

(* The reader changes nothing of the writer's, and does not go back.       *)
LEMMA ReadingKeeps ==
  ASSUME SizesAssumption, LogType, WriterInv, UNCHANGED <<file, writer>>, at' # None
  PROVE  /\ WriterInv'
         /\ \A f : Size(f)' = Size(f) /\ (Starts(f)' <=> Starts(f)) /\ (Ends(f)' <=> Ends(f))
         /\ \A f, e : LastByte(f, e)' <=> LastByte(f, e)
<1>1. /\ file' = file /\ fragments' = fragments /\ complete' = complete
      /\ left' = left /\ begin' = begin /\ added' = added
  BY DEF writer
<1>2. /\ \A f : Size(f)' = Size(f) /\ (Starts(f)' <=> Starts(f)) /\ (Ends(f)' <=> Ends(f))
      /\ \A f, p : Whole(f, p)' <=> Whole(f, p)
      /\ \A f, e : LastByte(f, e)' <=> LastByte(f, e)
  BY <1>1 DEF Size, Starts, Ends, Whole, LastByte
<1>3. Emitted'
  BY <1>1, <1>2 DEF WriterInv, Emitted
<1>4. BytesOK'
  BY <1>1, <1>2 DEF WriterInv, BytesOK
<1>5. EndsOK'
  BY <1>1, <1>2 DEF WriterInv, EndsOK
<1>6. GoesOn'
  BY DEF GoesOn
<1> QED
  BY <1>2, <1>3, <1>4, <1>5, <1>6 DEF WriterInv
-----------------------------------------------------------------------------
(* What is read                                                            *)

LEMMA Buffer ==
  ASSUME SizesAssumption, LogType, Reading
  PROVE  /\ at \in Nat /\ BlockEnd = End(at) /\ End(at) \in Nat
         /\ BufferEnd = IF End(at) <= Len(file) THEN End(at) ELSE Len(file)
         /\ BufferEnd \in Nat /\ Len(file) \in Nat /\ DOMAIN file = 1 .. Len(file)
<1>1. at \in Nat /\ Len(file) \in Nat /\ DOMAIN file = 1 .. Len(file)
  BY DEF LogType, Reading
<1>2. BlockEnd = End(at) /\ End(at) \in Nat
  BY <1>1, EndsOfBlocks DEF BlockEnd, End
<1> QED
  BY <1>1, <1>2, MinOfTwo DEF BufferEnd

(* A fragment that is found at the reader's place.                         *)
LEMMA Found ==
  ASSUME SizesAssumption, LogType, Reading, NEW f \in Here
  PROVE  /\ f \in DOMAIN fragments /\ Size(f) \in Nat /\ HeaderSize <= Size(f)
         /\ HeaderSize \in Nat \ {0}
         /\ at + Size(f) <= BufferEnd
         /\ at + 1 \in DOMAIN file /\ file[at + 1] = <<f, 1>>
         /\ LastByte(f, at + Size(f))
<1>1. f \in DOMAIN fragments /\ HeaderSize \in Nat \ {0}
  BY DEF Here, SizesAssumption
<1>2. Size(f) \in Nat /\ HeaderSize <= Size(f)
  BY <1>1, FragmentTypes DEF Size
<1>3. at + Size(f) <= BufferEnd /\ \A i \in 1 .. Size(f) : file[at + i] = <<f, i>>
  BY DEF Here, Size
<1>4. /\ at \in Nat /\ BufferEnd \in Nat /\ BufferEnd <= Len(file)
      /\ Len(file) \in Nat /\ DOMAIN file = 1 .. Len(file)
  BY Buffer, EndsOfBlocks
<1>5. 1 \in 1 .. Size(f) /\ Size(f) \in 1 .. Size(f)
  BY <1>1, <1>2
<1> QED
  BY <1>1, <1>2, <1>3, <1>4, <1>5 DEF LastByte

(* What was read before is of an earlier fragment, and, if it ended its    *)
(* record, of an earlier record.                                           *)
LEMMA Ahead ==
  ASSUME SizesAssumption, LogType, WriterInv, Reading, NEW f \in Here,
         NEW g \in DOMAIN fragments, NEW e \in 1 .. at, LastByte(g, e)
  PROVE  /\ g < f
         /\ fragments[g].record <= fragments[f].record
         /\ Ends(g) => fragments[g].record < fragments[f].record
<1>1. /\ f \in DOMAIN fragments /\ f \in Nat /\ g \in Nat
      /\ fragments[f].record \in Nat /\ fragments[g].record \in Nat
  BY Found, FragmentTypes
<1>2. Size(g) \in Nat /\ Size(g) >= 1
  BY FragmentTypes DEF Size, SizesAssumption
<1>3. /\ e \in DOMAIN file /\ file[e] = <<g, Size(g)>>
      /\ at + 1 \in DOMAIN file /\ file[at + 1] = <<f, 1>>
      /\ at \in Nat /\ e < at + 1
  <2>1. at \in Nat
    BY Buffer
  <2> QED
    BY <2>1, Found DEF LastByte
<1>4. g < f \/ (g = f /\ (at + 1) - e = 1 - Size(g))
  BY <1>1, <1>2, <1>3 DEF WriterInv, BytesOK
<1>5. g < f
  BY <1>2, <1>3, <1>4
<1>6. fragments[g].record <= fragments[f].record
  BY <1>1, <1>5 DEF WriterInv, Emitted
<1>7. ASSUME Ends(g) PROVE fragments[g].record < fragments[f].record
  <2> PICK h : h = g + 1
    OBVIOUS
  <2>1. h \in DOMAIN fragments /\ h \in Nat /\ g < h /\ h <= f /\ h - 1 = g
    <3>1. DOMAIN fragments = 1 .. Len(fragments) /\ Len(fragments) \in Nat
      BY DEF LogType
    <3> QED
      BY <1>1, <1>5, <3>1
  <2>2. Starts(h)
    BY <1>7, <2>1 DEF WriterInv, Emitted
  <2>3. fragments[g].record < fragments[h].record
    BY <2>1, <2>2 DEF WriterInv, Emitted
  <2>4. fragments[h].record \in Nat /\ fragments[h].record <= fragments[f].record
    <3>1. CASE h = f
      BY <1>1, <3>1
    <3>2. CASE h < f
      BY <1>1, <2>1, <3>2, FragmentTypes DEF WriterInv, Emitted
    <3> QED
      BY <1>1, <2>1, <3>1, <3>2
  <2> QED
    BY <1>1, <2>3, <2>4
<1> QED
  BY <1>5, <1>6, <1>7

(* A fragment that goes on with a record is the next after what is kept:   *)
(* between the two there is no room for another one.                       *)
LEMMA NoneBetween ==
  ASSUME SizesAssumption, LogType, WriterInv, Reading, NEW f \in Here, ~Starts(f),
         NEW g \in DOMAIN fragments, NEW e \in 1 .. at, LastByte(g, e),
         at < e + HeaderSize
  PROVE  f = g + 1 /\ fragments[f].record = fragments[g].record
<1>1. /\ f \in DOMAIN fragments /\ f \in Nat /\ g \in Nat /\ at \in Nat /\ g < f
      /\ at + 1 \in DOMAIN file /\ file[at + 1] = <<f, 1>>
      /\ HeaderSize \in Nat \ {0}
  BY Found, Ahead, Buffer, FragmentTypes
<1> PICK h : h = f - 1
  OBVIOUS
<1>2. h \in DOMAIN fragments /\ h \in Nat /\ fragments[h].record = fragments[f].record
  BY <1>1, FragmentTypes DEF WriterInv, Emitted
<1>3. Size(h) \in Nat /\ HeaderSize <= Size(h) /\ Size(g) \in Nat
  BY <1>1, <1>2, FragmentTypes DEF Size
<1>4. PICK p \in Nat : p + Size(h) < at + 1 /\ Whole(h, p)
  BY <1>1 DEF WriterInv, BytesOK
<1>5. /\ p + 1 \in DOMAIN file /\ file[p + 1] = <<h, 1>>
      /\ e \in DOMAIN file /\ file[e] = <<g, Size(g)>>
  BY <1>1, <1>3, <1>4 DEF Whole, LastByte
<1>6. ASSUME g < h PROVE FALSE
  <2>1. CASE p + 1 < e
    <3>1. h < g \/ (h = g /\ e - (p + 1) = Size(g) - 1)
      BY <1>2, <1>3, <1>5, <2>1 DEF WriterInv, BytesOK
    <3> QED
      BY <1>1, <1>2, <1>6, <3>1
  <2>2. CASE p + 1 = e
    <3>1. h = g
      BY <1>5, <2>2
    <3> QED
      BY <1>1, <1>6, <3>1
  <2>3. CASE e < p + 1
    BY <1>1, <1>3, <1>4, <2>3
  <2> QED
    BY <1>1, <1>4, <2>1, <2>2, <2>3
<1>7. h = g
  BY <1>1, <1>2, <1>6
<1> QED
  BY <1>1, <1>2, <1>7

LEMMA RunRecord ==
  ASSUME LogType, NEW s \in Seq(Nat), Run(s)
  PROVE  /\ Len(s) \in Nat \ {0} /\ DOMAIN s = 1 .. Len(s)
         /\ Last(s) \in DOMAIN fragments /\ s[1] \in DOMAIN fragments
         /\ Last(s) = s[1] + (Len(s) - 1)
         /\ fragments[Last(s)].record = RecordOf(s)
         /\ RecordOf(s) \in Nat
<1>1. /\ Len(s) \in Nat \ {0} /\ DOMAIN s = 1 .. Len(s)
      /\ 1 \in DOMAIN s /\ Len(s) \in DOMAIN s
  BY DEF Run
<1>2. Last(s) = s[Len(s)]
  BY DEF Last
<1> QED
  BY <1>1, <1>2, FragmentTypes DEF Run, RecordOf

LEMMA OneFragment ==
  ASSUME LogType, NEW f \in DOMAIN fragments, Starts(f)
  PROVE  <<f>> \in Seq(Nat) /\ Run(<<f>>) /\ Last(<<f>>) = f
<1>1. f \in Nat
  BY FragmentTypes
<1>2. <<f>> \in Seq(Nat) /\ DOMAIN <<f>> = {1} /\ <<f>>[1] = f /\ Len(<<f>>) = 1 /\ <<f>> # <<>>
  BY <1>1
<1> QED
  BY <1>1, <1>2 DEF Run, Last

LEMMA OneMore ==
  ASSUME LogType, NEW s \in Seq(Nat), Run(s), NEW f \in DOMAIN fragments,
         f = Last(s) + 1, fragments[f].record = fragments[Last(s)].record
  PROVE  /\ Append(s, f) \in Seq(Nat) /\ Run(Append(s, f)) /\ Last(Append(s, f)) = f
         /\ RecordOf(Append(s, f)) = RecordOf(s)
<1> PICK x : x = Append(s, f)
  OBVIOUS
<1>1. f \in Nat
  BY FragmentTypes
<1>2. /\ Len(s) \in Nat \ {0} /\ DOMAIN s = 1 .. Len(s)
      /\ s[1] \in DOMAIN fragments /\ s[1] \in Nat
      /\ Last(s) = s[1] + (Len(s) - 1)
      /\ fragments[Last(s)].record = fragments[s[1]].record
  BY RunRecord, FragmentTypes DEF RecordOf
<1>3. /\ x \in Seq(Nat) /\ x # <<>> /\ DOMAIN x = 1 .. Len(s) + 1 /\ Len(x) = Len(s) + 1
      /\ \A k \in DOMAIN s : x[k] = s[k]
      /\ x[Len(s) + 1] = f
  BY <1>1
<1>4. x[1] = s[1]
  BY <1>2, <1>3
<1>5. ASSUME NEW k \in DOMAIN x
      PROVE  /\ x[k] \in DOMAIN fragments /\ x[k] = x[1] + (k - 1)
             /\ fragments[x[k]].record = fragments[x[1]].record
  <2>1. CASE k \in DOMAIN s
    BY <1>3, <1>4, <2>1 DEF Run
  <2>2. CASE k = Len(s) + 1
    BY <1>1, <1>2, <1>3, <1>4, <2>2
  <2> QED
    BY <1>2, <1>3, <2>1, <2>2
<1>6. Run(x)
  BY <1>3, <1>4, <1>5 DEF Run
<1>7. Last(x) = f /\ RecordOf(x) = RecordOf(s)
  BY <1>3, <1>4 DEF Last, RecordOf
<1> QED
  BY <1>3, <1>6, <1>7

LEMMA GotTypes ==
  ASSUME LogType, NEW x \in Seq(Nat)
  PROVE  /\ Append(got, x) \in Seq(Seq(Nat))
         /\ DOMAIN got = 1 .. Len(got) /\ Len(got) \in Nat
         /\ DOMAIN Append(got, x) = 1 .. Len(got) + 1
         /\ \A i \in DOMAIN got : Append(got, x)[i] = got[i] /\ got[i] \in Seq(Nat)
         /\ Append(got, x)[Len(got) + 1] = x
<1> DEFINE S == Seq(Nat)
<1>1. got \in Seq(S) /\ x \in S
  BY DEF LogType
<1> HIDE DEF S
<1>2. /\ Append(got, x) \in Seq(S)
      /\ DOMAIN got = 1 .. Len(got) /\ Len(got) \in Nat
      /\ DOMAIN Append(got, x) = 1 .. Len(got) + 1
      /\ \A i \in DOMAIN got : Append(got, x)[i] = got[i] /\ got[i] \in S
      /\ Append(got, x)[Len(got) + 1] = x
  BY <1>1
<1> QED
  BY <1>2 DEF S

(* What a step of the reader leaves as it is.                              *)
LEMMA SameWriter ==
  ASSUME SizesAssumption, LogType, WriterInv, UNCHANGED <<file, writer>>, at' # None
  PROVE  /\ \A s : Run(s)' <=> Run(s)
         /\ \A s : RecordOf(s)' = RecordOf(s)
         /\ \A f : (Ends(f)' <=> Ends(f)) /\ (Starts(f)' <=> Starts(f))
         /\ \A f, e : LastByte(f, e)' <=> LastByte(f, e)
         /\ complete' = complete /\ fragments' = fragments
<1>1. fragments' = fragments /\ complete' = complete
  BY DEF writer
<1>2. /\ \A f : (Ends(f)' <=> Ends(f)) /\ (Starts(f)' <=> Starts(f))
      /\ \A f, e : LastByte(f, e)' <=> LastByte(f, e)
  BY ReadingKeeps
<1>3. \A s : Run(s)' <=> Run(s)
  BY <1>1, <1>2 DEF Run
<1>4. \A s : RecordOf(s)' = RecordOf(s)
  BY <1>1 DEF RecordOf
<1> QED
  BY <1>1, <1>2, <1>3, <1>4

(* Nothing more is returned, and the reader goes on.                       *)
LEMMA ReturnsNothing ==
  ASSUME SizesAssumption, LogType, WriterInv, Returned, Reading,
         UNCHANGED <<file, writer>>, got' = got,
         at' = Eof \/ (at' \in Nat /\ at <= at')
  PROVE  Returned'
<1>1. at \in Nat /\ at' # None
  BY Buffer DEF SizesAssumption
<1>2. /\ \A s : (Run(s)' <=> Run(s)) /\ RecordOf(s)' = RecordOf(s)
      /\ \A f : Ends(f)' <=> Ends(f)
      /\ \A f, e : LastByte(f, e)' <=> LastByte(f, e)
      /\ complete' = complete /\ fragments' = fragments
  BY <1>1, SameWriter
<1> SUFFICES ASSUME NEW i \in DOMAIN got
             PROVE  /\ Run(got[i])' /\ Ends(Last(got[i]))'
                    /\ \E j \in DOMAIN complete : complete[j].record = RecordOf(got[i])
                    /\ at' \in Nat => \E e \in 1 .. at' : LastByte(Last(got[i]), e)'
                    /\ \A j \in 1 .. i - 1 : RecordOf(got[j]) < RecordOf(got[i])
  BY <1>2 DEF Returned
<1>3. Run(got[i])' /\ Ends(Last(got[i]))'
  BY <1>2 DEF Returned
<1>4. ASSUME at' \in Nat PROVE \E e \in 1 .. at' : LastByte(Last(got[i]), e)'
  <2>1. PICK e \in 1 .. at : LastByte(Last(got[i]), e)
    BY <1>1 DEF Returned
  <2>2. e \in 1 .. at'
    BY <1>1, <1>4, <2>1 DEF SizesAssumption
  <2> QED
    BY <1>2, <2>1, <2>2
<1> QED
  BY <1>3, <1>4 DEF Returned

(* The record that is returned is complete, and comes after those before.  *)
LEMMA ReturnsRecord ==
  ASSUME SizesAssumption, LogType, WriterInv, Returned, Reading,
         UNCHANGED <<file, writer>>, NEW f \in Here, at' = at + Size(f),
         NEW x \in Seq(Nat), Run(x), Last(x) = f, Ends(f), got' = Append(got, x)
  PROVE  Returned'
<1>0. /\ at \in Nat /\ f \in DOMAIN fragments /\ Size(f) \in Nat /\ HeaderSize <= Size(f)
      /\ HeaderSize \in Nat \ {0} /\ LastByte(f, at + Size(f))
  BY Buffer, Found
<1>1. /\ at \in Nat /\ f \in DOMAIN fragments /\ Size(f) \in Nat /\ HeaderSize <= Size(f)
      /\ HeaderSize \in Nat \ {0} /\ LastByte(f, at + Size(f))
      /\ at + Size(f) \in Nat /\ at' \in Nat /\ at' # None
  BY <1>0 DEF SizesAssumption
<1>2. /\ \A s : (Run(s)' <=> Run(s)) /\ RecordOf(s)' = RecordOf(s)
      /\ \A g : Ends(g)' <=> Ends(g)
      /\ \A g, e : LastByte(g, e)' <=> LastByte(g, e)
      /\ complete' = complete /\ fragments' = fragments
  BY <1>1, SameWriter
<1>3. /\ DOMAIN got = 1 .. Len(got) /\ Len(got) \in Nat
      /\ DOMAIN got' = 1 .. Len(got) + 1
      /\ \A i \in DOMAIN got : got'[i] = got[i] /\ got[i] \in Seq(Nat)
      /\ got'[Len(got) + 1] = x
  BY GotTypes
<1>4. RecordOf(x) = fragments[f].record
  BY RunRecord
<1>5. \E j \in DOMAIN complete : complete[j].record = RecordOf(x)
  BY <1>1, <1>4 DEF WriterInv, EndsOK, LastByte
<1>6. at + Size(f) \in 1 .. at'
  BY <1>1
<1>7. ASSUME NEW i \in DOMAIN got PROVE RecordOf(got[i]) < RecordOf(x)
  <2>1. PICK e \in 1 .. at : LastByte(Last(got[i]), e)
    BY <1>1 DEF Returned
  <2>2. /\ Last(got[i]) \in DOMAIN fragments /\ Ends(Last(got[i]))
        /\ fragments[Last(got[i])].record = RecordOf(got[i])
    BY <1>3, RunRecord DEF Returned
  <2>3. fragments[Last(got[i])].record < fragments[f].record
    BY <2>1, <2>2, Ahead
  <2> QED
    BY <1>4, <2>2, <2>3
<1>8. ASSUME NEW i \in DOMAIN got'
      PROVE  /\ Run(got[i])' /\ Ends(Last(got[i]))'
             /\ \E j \in DOMAIN complete' : complete'[j].record = RecordOf(got[i])'
             /\ at' \in Nat => \E e \in 1 .. at' : LastByte(Last(got[i]), e)'
             /\ \A j \in 1 .. i - 1 : RecordOf(got[j])' < RecordOf(got[i])'
  <2>1. CASE i \in DOMAIN got
    <3> PICK s : s = got[i]
      OBVIOUS
    <3>1. /\ got'[i] = s /\ Run(s) /\ Ends(Last(s))
          /\ \E j \in DOMAIN complete : complete[j].record = RecordOf(s)
          /\ \E e \in 1 .. at : LastByte(Last(s), e)
          /\ \A j \in 1 .. i - 1 : RecordOf(got[j]) < RecordOf(s)
      BY <1>1, <1>3, <2>1 DEF Returned
    <3>2. \A j \in 1 .. i - 1 : j \in DOMAIN got /\ got'[j] = got[j]
      BY <1>3, <2>1
    <3>3. \A e \in 1 .. at : e \in 1 .. at'
      BY <1>1
    <3> QED
      BY <1>2, <3>1, <3>2, <3>3
  <2>2. CASE i = Len(got) + 1
    <3>1. got'[i] = x
      BY <1>3, <2>2
    <3>2. \A j \in 1 .. i - 1 : j \in DOMAIN got /\ got'[j] = got[j]
      BY <1>3, <2>2
    <3> QED
      BY <1>1, <1>2, <1>5, <1>6, <1>7, <3>1, <3>2
  <2> QED
    BY <1>3, <2>1, <2>2
<1> QED
  BY <1>8 DEF Returned

(* A fragment that is kept for the rest of its record.                     *)
LEMMA Keeps ==
  ASSUME SizesAssumption, LogType, WriterInv, Returned, Reading,
         UNCHANGED <<file, writer>>, NEW f \in Here, at' = at + Size(f),
         NEW x \in Seq(Nat), Run(x), Last(x) = f, ~Ends(f), scratch' = x, got' = got
  PROVE  UnderWay'
<1>0. /\ at \in Nat /\ f \in DOMAIN fragments /\ Size(f) \in Nat /\ HeaderSize <= Size(f)
      /\ HeaderSize \in Nat \ {0} /\ LastByte(f, at + Size(f))
  BY Buffer, Found
<1>1. /\ at \in Nat /\ f \in DOMAIN fragments /\ Size(f) \in Nat /\ HeaderSize <= Size(f)
      /\ HeaderSize \in Nat \ {0} /\ LastByte(f, at + Size(f))
      /\ at + Size(f) \in Nat /\ at' \in Nat /\ at' # None
  BY <1>0 DEF SizesAssumption
<1>2. /\ \A s : (Run(s)' <=> Run(s)) /\ RecordOf(s)' = RecordOf(s)
      /\ \A g : Ends(g)' <=> Ends(g)
      /\ \A g, e : LastByte(g, e)' <=> LastByte(g, e)
  BY <1>1, SameWriter
<1>3. RecordOf(x) = fragments[f].record
  BY RunRecord
<1>4. ASSUME NEW i \in DOMAIN got PROVE RecordOf(got[i]) < RecordOf(x)
  <2>1. PICK e \in 1 .. at : LastByte(Last(got[i]), e)
    BY <1>1 DEF Returned
  <2>2. /\ Last(got[i]) \in DOMAIN fragments /\ Ends(Last(got[i]))
        /\ fragments[Last(got[i])].record = RecordOf(got[i])
    BY GotTypes, RunRecord DEF Returned
  <2>3. fragments[Last(got[i])].record < fragments[f].record
    BY <2>1, <2>2, Ahead
  <2> QED
    BY <1>3, <2>2, <2>3
<1>5. /\ at' \in 1 .. at' /\ at' < at' + HeaderSize
      /\ LastByte(f, at)'
  <2> PICK y : y = at'
    OBVIOUS
  <2>1. LastByte(f, y)'
    BY <1>1, <1>2
  <2> QED
    BY <1>1, <2>1
<1>6. Run(x)' /\ ~Ends(Last(x))'
  BY <1>2
<1>7. \A i \in DOMAIN got' : RecordOf(got[i])' < RecordOf(x)'
  BY <1>2, <1>4
<1> QED
  BY <1>5, <1>6, <1>7 DEF UnderWay
-----------------------------------------------------------------------------
(* The steps                                                               *)

LEMMA MixInit ==
  ASSUME SizesAssumption, Init PROVE MixInv
<1>0. /\ file = <<>> /\ fragments = <<>> /\ blockOffset = 0
      /\ left = None /\ begin = FALSE
      /\ added = 0 /\ complete = <<>> /\ failures = 0
      /\ at = None /\ scratch = None /\ got = <<>>
  BY DEF Init
<1>1. LogType
  <2>1. \A S : <<>> \in Seq(S)
    OBVIOUS
  <2>2. blockOffset \in 0 .. BlockSize
    BY <1>0 DEF SizesAssumption
  <2>3. file \in Seq({None} \cup (Nat \X Nat))
    BY <1>0, <2>1, Zenon
  <2>4. fragments \in Seq([record : Nat, type : Types, length : Nat])
    BY <1>0, <2>1, Zenon
  <2>5. complete \in Seq([record : Nat, end : Nat])
    BY <1>0, <2>1, Zenon
  <2>6. got \in Seq(Seq(Nat))
    BY <1>0, <2>1, Zenon
  <2>7. /\ left \in Nat \cup {None} /\ begin \in BOOLEAN
        /\ added \in Nat /\ failures \in Nat
        /\ at \in Nat \cup {None, Eof} /\ scratch \in Seq(Nat) \cup {None}
    BY <1>0
  <2> QED
    BY <1>0, <2>2, <2>3, <2>4, <2>5, <2>6, <2>7, Zenon DEF LogType
<1>2. WriterInv
  BY DEF Init, WriterInv, Emitted, BytesOK, EndsOK, GoesOn
<1>3. Returned /\ UnderWay
  BY DEF Init, Returned, UnderWay
<1> QED
  BY <1>1, <1>2, <1>3 DEF MixInv


LEMMA SkipKeeps ==
  ASSUME SizesAssumption, MixInv, SkipTrailer
  PROVE  MixInv'
<1>1. /\ LogType /\ WriterInv /\ Returned /\ UnderWay /\ Reading
      /\ UNCHANGED <<file, writer>> /\ scratch' = scratch /\ got' = got
      /\ BufferEnd - at < HeaderSize
      /\ at' = IF BufferEnd = BlockEnd THEN BlockEnd ELSE Eof
  BY DEF MixInv, SkipTrailer
<1>2. /\ at \in Nat /\ BlockEnd = End(at) /\ End(at) \in Nat /\ at < End(at)
      /\ End(End(at)) = End(at) + BlockSize
      /\ HeaderSize \in Nat /\ BlockSize \in Nat /\ HeaderSize < BlockSize
  BY <1>1, Buffer, EndsOfBlocks DEF SizesAssumption
<1>3. /\ at' = Eof \/ (at' \in Nat /\ at <= at')
      /\ at' # None
  BY <1>1, <1>2 DEF SizesAssumption
<1>4. LogType'
  <2>1. at' \in Nat \cup {None, Eof}
    BY <1>3
  <2> QED
    BY <1>1, <1>3, <2>1 DEF LogType, writer
<1>5. WriterInv'
  BY <1>1, <1>3, ReadingKeeps
<1>6. Returned'
  BY <1>1, <1>3, ReturnsNothing
<1>7. UnderWay'
  <2> SUFFICES ASSUME at' \in Nat, scratch # None
               PROVE  /\ Run(scratch)' /\ ~Ends(Last(scratch))'
                      /\ \A i \in DOMAIN got' : RecordOf(got[i])' < RecordOf(scratch)'
                      /\ \E e \in 1 .. at' :
                           /\ LastByte(Last(scratch), e)' /\ at' < e + HeaderSize
                           /\ at' = e \/ End(at)' = at' + BlockSize
    BY <1>1 DEF UnderWay
  <2>1. /\ \A s : (Run(s)' <=> Run(s)) /\ RecordOf(s)' = RecordOf(s)
        /\ \A g : Ends(g)' <=> Ends(g)
        /\ \A g, e : LastByte(g, e)' <=> LastByte(g, e)
    BY <1>1, <1>3, SameWriter
  <2>2. /\ Run(scratch) /\ ~Ends(Last(scratch))
        /\ \A i \in DOMAIN got : RecordOf(got[i]) < RecordOf(scratch)
    BY <1>1, <1>2 DEF UnderWay
  <2>3. PICK e \in 1 .. at : /\ LastByte(Last(scratch), e) /\ at < e + HeaderSize
                             /\ at = e \/ End(at) = at + BlockSize
    BY <1>1, <1>2 DEF UnderWay
  <2>4. at' = End(at) /\ BufferEnd = End(at)
    BY <1>1, <1>2 DEF SizesAssumption
  <2>5. at = e /\ at' < e + HeaderSize
    BY <1>1, <1>2, <2>3, <2>4
  <2>6. e \in 1 .. at'
    BY <1>2, <2>3, <2>4
  <2>7. End(at)' = at' + BlockSize
    <3> PICK y : y = at'
      OBVIOUS
    <3>1. End(y) = y + BlockSize
      BY <1>2, <2>4
    <3> QED
      BY <3>1 DEF End
  <2> QED
    BY <1>1, <2>1, <2>2, <2>3, <2>5, <2>6, <2>7
<1> QED
  BY <1>4, <1>5, <1>6, <1>7 DEF MixInv

LEMMA BadKeeps ==
  ASSUME SizesAssumption, MixInv, ReadPhysicalRecord, BadRecord
  PROVE  MixInv'
<1>1. /\ LogType /\ WriterInv /\ Returned /\ Reading
      /\ UNCHANGED <<file, writer>> /\ scratch' = None /\ got' = got
      /\ at' = BufferEnd /\ BufferEnd - at >= HeaderSize
  BY DEF MixInv, ReadPhysicalRecord, BadRecord
<1>2. at \in Nat /\ BufferEnd \in Nat /\ at <= BufferEnd
  BY <1>1, Buffer DEF SizesAssumption
<1>3. at' # None /\ at' \in Nat /\ at <= at'
  BY <1>1, <1>2 DEF SizesAssumption
<1>4. LogType'
  BY <1>1, <1>3 DEF LogType, writer
<1>5. WriterInv'
  BY <1>1, <1>3, ReadingKeeps
<1>6. Returned'
  BY <1>1, <1>3, ReturnsNothing
<1>7. UnderWay'
  BY <1>1 DEF UnderWay
<1> QED
  BY <1>4, <1>5, <1>6, <1>7 DEF MixInv

LEMMA FragmentKeeps ==
  ASSUME SizesAssumption, MixInv, ReadPhysicalRecord, NEW f \in Here, ReadFragment(f)
  PROVE  MixInv'
<1>0. /\ LogType /\ WriterInv /\ Returned /\ UnderWay
      /\ Reading /\ UNCHANGED <<file, writer>>
  BY DEF MixInv, ReadPhysicalRecord
<1>1. /\ LogType /\ WriterInv /\ Returned /\ UnderWay
      /\ Reading /\ UNCHANGED <<file, writer>>
      /\ at' = at + Size(f)
  <2>1. /\ at \in Nat /\ HeaderSize \in Nat /\ fragments[f].length \in Nat
    BY <1>0, Buffer, Found, FragmentTypes DEF SizesAssumption
  <2>2. at' = at + HeaderSize + fragments[f].length
    BY DEF ReadFragment
  <2> QED
    BY <1>0, <2>1, <2>2 DEF Size
<1>2. /\ at \in Nat /\ f \in DOMAIN fragments /\ f \in Nat /\ Size(f) \in Nat
      /\ fragments[f].type \in Types
  BY <1>1, Buffer, Found, FragmentTypes
<1>3. at' # None /\ at' \in Nat /\ at <= at'
  BY <1>1, <1>2 DEF SizesAssumption
<1>4. ASSUME scratch' \in Seq(Nat) \cup {None}, got' \in Seq(Seq(Nat)) PROVE LogType'
  BY <1>1, <1>3, <1>4 DEF LogType, writer
<1>5. WriterInv'
  BY <1>1, <1>3, ReadingKeeps
<1>6. got \in Seq(Seq(Nat)) /\ scratch \in Seq(Nat) \cup {None}
  BY <1>1 DEF LogType
<1>7. CASE fragments[f].type = "full"
  <2>1. got' = Append(got, <<f>>) /\ scratch' = None
    BY <1>7 DEF ReadFragment
  <2>2. Starts(f) /\ Ends(f)
    BY <1>7 DEF Starts, Ends
  <2>3. <<f>> \in Seq(Nat) /\ Run(<<f>>) /\ Last(<<f>>) = f
    BY <1>1, <1>2, <2>2, OneFragment
  <2>4. Returned'
    BY <1>1, <2>1, <2>2, <2>3, ReturnsRecord
  <2>5. UnderWay'
    BY <2>1 DEF UnderWay
  <2>6. LogType'
    BY <1>1, <1>4, <2>1, <2>3, GotTypes
  <2> QED
    BY <1>5, <2>4, <2>5, <2>6 DEF MixInv
<1>8. CASE fragments[f].type = "first"
  <2>1. got' = got /\ scratch' = <<f>>
    BY <1>8 DEF ReadFragment
  <2>2. Starts(f) /\ ~Ends(f)
    BY <1>8 DEF Starts, Ends
  <2>3. <<f>> \in Seq(Nat) /\ Run(<<f>>) /\ Last(<<f>>) = f
    BY <1>1, <1>2, <2>2, OneFragment
  <2>4. Returned'
    BY <1>1, <1>3, <2>1, ReturnsNothing
  <2>5. UnderWay'
    BY <1>1, <2>1, <2>2, <2>3, Keeps
  <2>6. LogType'
    BY <1>4, <1>6, <2>1, <2>3
  <2> QED
    BY <1>5, <2>4, <2>5, <2>6 DEF MixInv
<1>9. CASE fragments[f].type \in {"middle", "last"}
  <2>1. ~Starts(f)
    BY <1>9 DEF Starts
  <2>2. CASE scratch = None
    <3>1. got' = got /\ scratch' = None
      BY <1>9, <2>2 DEF ReadFragment
    <3>2. Returned'
      BY <1>1, <1>3, <3>1, ReturnsNothing
    <3>3. UnderWay'
      BY <3>1 DEF UnderWay
    <3>4. LogType'
      BY <1>4, <1>6, <3>1
    <3> QED
      BY <1>5, <3>2, <3>3, <3>4 DEF MixInv
  <2>3. CASE scratch # None
    <3> PICK s : s = scratch
      OBVIOUS
    <3>1. s \in Seq(Nat) /\ Run(s)
      BY <1>1, <1>2, <1>6, <2>3 DEF UnderWay
    <3>2. Last(s) \in DOMAIN fragments
      BY <1>1, <3>1, RunRecord
    <3>3. \E e \in 1 .. at : LastByte(Last(s), e) /\ at < e + HeaderSize
      BY <1>1, <1>2, <2>3 DEF UnderWay
    <3>4. f = Last(s) + 1 /\ fragments[f].record = fragments[Last(s)].record
      BY <1>1, <2>1, <3>2, <3>3, NoneBetween
    <3> PICK x : x = Append(s, f)
      OBVIOUS
    <3>5. x \in Seq(Nat) /\ Run(x) /\ Last(x) = f
      BY <1>1, <1>2, <3>1, <3>4, OneMore
    <3>6. CASE fragments[f].type = "middle"
      <4>1. got' = got /\ scratch' = x
        BY <2>3, <3>6 DEF ReadFragment
      <4>2. ~Ends(f)
        BY <3>6 DEF Ends
      <4>3. Returned'
        BY <1>1, <1>3, <4>1, ReturnsNothing
      <4>4. UnderWay'
        BY <1>1, <3>5, <4>1, <4>2, Keeps
      <4>5. LogType'
        BY <1>4, <1>6, <3>5, <4>1
      <4> QED
        BY <1>5, <4>3, <4>4, <4>5 DEF MixInv
    <3>7. CASE fragments[f].type = "last"
      <4>1. got' = Append(got, x) /\ scratch' = None
        BY <2>3, <3>7 DEF ReadFragment
      <4>2. Ends(f)
        BY <3>7 DEF Ends
      <4>3. Returned'
        BY <1>1, <3>5, <4>1, <4>2, ReturnsRecord
      <4>4. UnderWay'
        BY <4>1 DEF UnderWay
      <4>5. LogType'
        BY <1>1, <1>4, <3>5, <4>1, GotTypes
      <4> QED
        BY <1>5, <4>3, <4>4, <4>5 DEF MixInv
    <3> QED
      BY <1>9, <3>6, <3>7
  <2> QED
    BY <2>2, <2>3
<1> QED
  BY <1>2, <1>7, <1>8, <1>9 DEF Types

LEMMA MixStep ==
  ASSUME SizesAssumption, MixInv, [Next]_vars PROVE MixInv'
<1>0. LogType /\ WriterInv
  BY DEF MixInv
<1>1. ASSUME NEW size \in Sizes, AddRecord(size) PROVE MixInv'
  <2>1. LogType' /\ WriterInv'
    BY <1>0, <1>1, AddKeeps
  <2>2. (at = None)'
    BY <1>1 DEF AddRecord, reader
  <2>3. Returned' /\ UnderWay'
    <3>1. got' = <<>> /\ scratch' = None
      BY <2>1, <2>2 DEF LogType
    <3> QED
      BY <3>1 DEF Returned, UnderWay
  <2> QED
    BY <2>1, <2>3 DEF MixInv
<1>2. CASE EmitPhysicalRecord
  <2>1. LogType' /\ WriterInv'
    BY <1>0, <1>2, EmitKeeps
  <2>2. (at = None)'
    BY <1>2 DEF EmitPhysicalRecord, reader
  <2>3. Returned' /\ UnderWay'
    <3>1. got' = <<>> /\ scratch' = None
      BY <2>1, <2>2 DEF LogType
    <3> QED
      BY <3>1 DEF Returned, UnderWay
  <2> QED
    BY <2>1, <2>3 DEF MixInv
<1>3. ASSUME NEW n \in 0 .. BlockSize, EmitFails(n) PROVE MixInv'
  <2>1. LogType' /\ WriterInv'
    BY <1>0, <1>3, FailureKeeps
  <2>2. (at = None)'
    BY <1>3 DEF EmitFails, reader
  <2>3. Returned' /\ UnderWay'
    <3>1. got' = <<>> /\ scratch' = None
      BY <2>1, <2>2 DEF LogType
    <3> QED
      BY <3>1 DEF Returned, UnderWay
  <2> QED
    BY <2>1, <2>3 DEF MixInv
<1>8. ASSUME NEW m \in 0 .. HeaderSize, FillFails(m) PROVE MixInv'
  <2>1. LogType' /\ WriterInv'
    BY <1>0, <1>8, FillKeeps
  <2>2. (at = None)'
    BY <1>8 DEF FillFails, reader
  <2>3. Returned' /\ UnderWay'
    <3>1. got' = <<>> /\ scratch' = None
      BY <2>1, <2>2 DEF LogType
    <3> QED
      BY <3>1 DEF Returned, UnderWay
  <2> QED
    BY <2>1, <2>3 DEF MixInv
<1>4. ASSUME NEW bytes \in 0 .. Len(file), Crash(bytes) PROVE MixInv'
  <2>1. LogType' /\ WriterInv' /\ scratch' = None /\ got' = <<>>
    BY <1>0, <1>4, CrashKeeps
  <2>2. Returned' /\ UnderWay'
    BY <2>1 DEF Returned, UnderWay
  <2> QED
    BY <2>1, <2>2 DEF MixInv
<1>5. CASE SkipTrailer
  BY <1>5, SkipKeeps
<1>6. CASE ReadPhysicalRecord
  <2>1. ASSUME NEW f \in Here, ReadFragment(f) PROVE MixInv'
    BY <1>6, <2>1, FragmentKeeps
  <2>2. CASE BadRecord
    BY <1>6, <2>2, BadKeeps
  <2> QED
    BY <1>6, <2>1, <2>2 DEF ReadPhysicalRecord
<1>7. CASE UNCHANGED vars
  <2>1. UNCHANGED <<file, writer, reader>>
    BY <1>7 DEF vars
  <2>2. /\ file' = file /\ fragments' = fragments /\ complete' = complete
        /\ blockOffset' = blockOffset /\ failures' = failures
        /\ left' = left /\ begin' = begin /\ added' = added
        /\ at' = at /\ scratch' = scratch /\ got' = got
    BY <2>1 DEF writer, reader
  <2>3. LogType'
    BY <1>0, <2>2 DEF LogType
  <2>4. WriterInv'
    <3>1. /\ \A f : Size(f)' = Size(f) /\ (Starts(f)' <=> Starts(f)) /\ (Ends(f)' <=> Ends(f))
          /\ \A f, p : Whole(f, p)' <=> Whole(f, p)
      BY <2>2 DEF Size, Starts, Ends, Whole
    <3>2. Emitted'
      BY <1>0, <2>2, <3>1 DEF WriterInv, Emitted
    <3>3. BytesOK'
      BY <1>0, <2>2, <3>1 DEF WriterInv, BytesOK
    <3>4. EndsOK'
      BY <1>0, <2>2, <3>1 DEF WriterInv, EndsOK
    <3>5. GoesOn'
      BY <1>0, <2>2, <3>1 DEF WriterInv, GoesOn, Size, Whole
    <3> QED
      BY <3>2, <3>3, <3>4, <3>5 DEF WriterInv
  <2>5. Returned' /\ UnderWay'
    BY <2>2 DEF MixInv, Returned, UnderWay, Run, RecordOf, LastByte, Size, Starts, Ends, End, Last
  <2> QED
    BY <2>3, <2>4, <2>5 DEF MixInv
<1> QED
  BY <1>1, <1>2, <1>3, <1>4, <1>5, <1>6, <1>7, <1>8 DEF Next

LEMMA NotMixed ==
  ASSUME SizesAssumption, MixInv PROVE RecordsAreNotMixed
<1>0. LogType /\ WriterInv /\ Returned
  BY DEF MixInv
<1> SUFFICES ASSUME NEW i \in DOMAIN got
             PROVE  /\ ToSet(got[i]) = {f \in DOMAIN fragments :
                                          fragments[f].record = RecordOf(got[i])}
                    /\ IsIncreasing(got[i])
                    /\ \E j \in DOMAIN complete : complete[j].record = RecordOf(got[i])
                    /\ \A j \in 1 .. i - 1 : RecordOf(got[j]) < RecordOf(got[i])
  BY DEF RecordsAreNotMixed
<1> PICK s : s = got[i]
  OBVIOUS
<1>1. /\ s \in Seq(Nat) /\ Run(s) /\ Ends(Last(s))
      /\ \E j \in DOMAIN complete : complete[j].record = RecordOf(s)
      /\ \A j \in 1 .. i - 1 : RecordOf(got[j]) < RecordOf(s)
  <2>1. got[i] \in Seq(Nat)
    <3>1. <<>> \in Seq(Nat)
      OBVIOUS
    <3> QED
      BY <1>0, <3>1, GotTypes
  <2> QED
    BY <1>0, <2>1 DEF Returned
<1>2. /\ Len(s) \in Nat \ {0} /\ DOMAIN s = 1 .. Len(s)
      /\ Last(s) \in DOMAIN fragments /\ s[1] \in DOMAIN fragments
      /\ Last(s) = s[1] + (Len(s) - 1)
      /\ fragments[Last(s)].record = RecordOf(s) /\ fragments[s[1]].record = RecordOf(s)
      /\ Starts(s[1]) /\ s[1] \in Nat
  BY <1>0, <1>1, RunRecord, FragmentTypes DEF Run, RecordOf
<1>3. \A k \in DOMAIN s : /\ s[k] \in DOMAIN fragments /\ s[k] = s[1] + (k - 1)
                          /\ fragments[s[k]].record = RecordOf(s)
  BY <1>1 DEF Run, RecordOf
<1>4. IsIncreasing(s)
  BY <1>2, <1>3 DEF IsIncreasing
<1>5. ASSUME NEW f \in DOMAIN fragments, fragments[f].record = RecordOf(s)
      PROVE  f \in ToSet(s)
  <2>00. DOMAIN fragments = 1 .. Len(fragments) /\ Len(fragments) \in Nat
    <3> DEFINE R == [record : Nat, type : Types, length : Nat]
    <3>1. fragments \in Seq(R)
      BY <1>0 DEF LogType
    <3> HIDE DEF R
    <3> QED
      BY <3>1
  <2>0. /\ f \in Nat /\ \A g \in DOMAIN fragments : fragments[g].record \in Nat
        /\ DOMAIN fragments = 1 .. Len(fragments) /\ Len(fragments) \in Nat
    BY <1>0, <2>00, FragmentTypes
  <2>1. ~(f < s[1])
    BY <1>0, <1>2, <1>5, <2>0 DEF WriterInv, Emitted
  <2>2. ~(Last(s) < f)
    <3> SUFFICES ASSUME Last(s) < f PROVE FALSE
      OBVIOUS
    <3> PICK h : h = Last(s) + 1
      OBVIOUS
    <3>1. h \in DOMAIN fragments /\ h \in Nat /\ h <= f /\ h - 1 = Last(s) /\ Last(s) < h
      BY <1>2, <2>0
    <3>2. Starts(h)
      BY <1>0, <1>1, <3>1 DEF WriterInv, Emitted
    <3>3. RecordOf(s) < fragments[h].record
      BY <1>0, <1>2, <3>1, <3>2 DEF WriterInv, Emitted
    <3>4. fragments[h].record <= fragments[f].record
      <4>1. CASE h = f
        BY <2>0, <3>1, <4>1
      <4>2. CASE h < f
        BY <1>0, <3>1, <4>2 DEF WriterInv, Emitted
      <4> QED
        BY <2>0, <3>1, <4>1, <4>2
    <3> QED
      BY <1>5, <2>0, <3>1, <3>3, <3>4
  <2>3. f - s[1] + 1 \in DOMAIN s /\ s[1] + ((f - s[1] + 1) - 1) = f
    BY <1>2, <2>0, <2>1, <2>2
  <2>4. s[f - s[1] + 1] = f
    BY <1>3, <2>3
  <2> QED
    BY <2>3, <2>4 DEF ToSet
<1>6. ToSet(s) = {f \in DOMAIN fragments : fragments[f].record = RecordOf(s)}
  BY <1>3, <1>5 DEF ToSet
<1> QED
  BY <1>1, <1>4, <1>6

(* Whatever is cut off or half written, a record that the reader returns is*)
(* one that was completely written, with all its fragments in order, and   *)
(* none is returned twice.                                                 *)
THEOREM ReturnedAsWritten ==
  ASSUME SizesAssumption PROVE Spec => []RecordsAreNotMixed
<1>1. Init => MixInv
  BY MixInit
<1>2. MixInv /\ [Next]_vars => MixInv'
  BY MixStep
<1>3. MixInv => RecordsAreNotMixed
  BY NotMixed
<1> QED
  BY <1>1, <1>2, <1>3, PTL DEF Spec
-----------------------------------------------------------------------------
(* The writer, when nothing fails                                          *)

(* Where the next fragment lies: at s, with n bytes, after the l there are. *)
Lies(n, s, l, new) ==
  /\ n \in Nat /\ s \in Nat /\ l \in Nat /\ 1 <= n
  /\ DOMAIN file = 1 .. l
  /\ Len(file') = s + n /\ DOMAIN file' = 1 .. s + n
  /\ l <= s
  /\ \A p \in DOMAIN file : p \in DOMAIN file' /\ file'[p] = file[p]
  /\ \A p \in l + 1 .. s : file'[p] = None
  /\ \A i \in 1 .. n : file'[s + i] = <<new, i>>
  /\ IF End(l) - l < HeaderSize THEN s = End(l) ELSE s = l
  /\ s + n <= End(s)
  /\ End(s + n) = s + n + IF blockOffset' = BlockSize THEN BlockSize
                                                      ELSE BlockSize - blockOffset'

LEMMA Emission ==
  ASSUME SizesAssumption, LogType, Appending, EmitPhysicalRecord,
         NEW n, n = HeaderSize + FragmentLength, NEW s, s = Len(file) + Len(Trailer),
         NEW l, l = Len(file), NEW new, new = Len(fragments) + 1
  PROVE  Lies(n, s, l, new)
<1> PICK t : t = Len(Trailer)
  OBVIOUS
<1> PICK b : b = blockOffset
  OBVIOUS
<1>1. at = None /\ left # None /\ Emits(n)
  BY EmitIsEmits DEF EmitPhysicalRecord
<1>2. /\ HeaderSize \in Nat \ {0} /\ BlockSize \in Nat /\ HeaderSize < BlockSize
      /\ b \in 0 .. BlockSize
  BY DEF SizesAssumption, LogType
<1>3. /\ Offset \in 0 .. BlockSize - HeaderSize /\ FragmentLength \in Nat
      /\ FragmentLength <= BlockSize - Offset - HeaderSize
  <2>1. left \in Nat /\ FragmentLength \in 0 .. left
    BY <1>1, Lengths
  <2> QED
    BY <1>1, <2>1, Lengths
<1>4. n \in Nat /\ 1 <= n /\ Offset + n <= BlockSize /\ blockOffset' = Offset + n
  <2>1. blockOffset' = Offset + HeaderSize + FragmentLength
    BY DEF EmitPhysicalRecord
  <2> QED
    BY <1>2, <1>3, <2>1
<1>5. /\ t = IF BlockSize - b < HeaderSize THEN BlockSize - b ELSE 0
      /\ t \in Nat
      /\ Len(file') = l + t + n
      /\ \A p \in DOMAIN file : file'[p] = file[p]
      /\ \A p \in l + 1 .. l + t : file'[p] = None
      /\ \A i \in 1 .. n : file'[l + t + i] = <<new, i>>
  BY <1>1, NewBytes
<1>6. l \in Nat /\ DOMAIN file = 1 .. l /\ DOMAIN file' = 1 .. Len(file')
  <2> DEFINE R == {None} \cup (Nat \X Nat)
  <2>1. file \in Seq(R) /\ file' \in Seq(R)
    BY <1>1, NewBytes DEF LogType
  <2> HIDE DEF R
  <2> QED
    BY <2>1
<1>7. s = l + t /\ s \in Nat /\ Len(file') = s + n /\ l <= s
  <2>1. t \in Nat /\ l \in Nat /\ n \in Nat /\ Len(file') = l + t + n
    BY <1>4, <1>5, <1>6
  <2>2. s = l + t
    OBVIOUS
  <2> QED
    BY <2>1, <2>2
<1>8. \A p \in DOMAIN file : p \in DOMAIN file' /\ file'[p] = file[p]
  <2>1. DOMAIN file = 1 .. l /\ DOMAIN file' = 1 .. s + n /\ l \in Nat /\ s \in Nat /\ n \in Nat
    BY <1>4, <1>6, <1>7
  <2>2. 1 .. l \subseteq 1 .. s + n
    <3>1. l <= s
      BY <1>7
    <3> QED
      BY <2>1, <3>1
  <2> QED
    BY <1>5, <2>1, <2>2
<1>9. End(l) = l + IF b = BlockSize THEN BlockSize ELSE BlockSize - b
  BY <1>1 DEF Appending
<1>10. End(l) \in Nat /\ End(End(l)) = End(l) + BlockSize
  BY <1>6, EndsOfBlocks
<1>11. Offset = IF BlockSize - b < HeaderSize THEN 0 ELSE b
  BY DEF Offset
<1>12. /\ IF End(l) - l < HeaderSize THEN s = End(l) ELSE s = l
       /\ End(s) = s + (BlockSize - Offset)
  <2>1. CASE b = BlockSize
    <3>1. t = 0 /\ Offset = 0
      BY <1>2, <1>5, <1>11, <2>1
    <3>2. s = l /\ End(l) = l + BlockSize
      BY <1>6, <1>7, <1>9, <2>1, <3>1
    <3> QED
      BY <1>2, <1>6, <3>1, <3>2
  <2>2. CASE b # BlockSize /\ BlockSize - b < HeaderSize
    <3>1. s = End(l) /\ End(l) - l < HeaderSize
      BY <1>2, <1>5, <1>6, <1>7, <1>9, <2>2
    <3> QED
      BY <1>2, <1>10, <1>11, <2>2, <3>1
  <2>3. CASE ~(BlockSize - b < HeaderSize)
    <3>1. t = 0 /\ b # BlockSize /\ Offset = b
      BY <1>2, <1>5, <1>11, <2>3
    <3>2. s = l /\ End(l) = l + (BlockSize - b)
      BY <1>6, <1>7, <1>9, <3>1
    <3> QED
      BY <1>2, <1>6, <2>3, <3>1, <3>2
  <2> QED
    BY <2>1, <2>2, <2>3
<1>13. s + n <= End(s)
  BY <1>2, <1>3, <1>4, <1>7, <1>12
<1>14. End(s + n) = s + n + IF blockOffset' = BlockSize THEN BlockSize
                                                       ELSE BlockSize - blockOffset'
  <2>1. CASE Offset + n = BlockSize
    <3>1. s + n = End(s)
      BY <1>3, <1>4, <1>7, <1>12, <2>1
    <3>2. End(End(s)) = End(s) + BlockSize
      BY <1>7, EndsOfBlocks
    <3> QED
      BY <1>4, <2>1, <3>1, <3>2
  <2>2. CASE Offset + n # BlockSize
    <3>1. s + n \in Nat /\ s <= s + n /\ s + n < End(s)
      BY <1>2, <1>3, <1>4, <1>7, <1>12, <2>2
    <3>2. End(s + n) = End(s)
      BY <1>7, <3>1, EndsOfBlocks
    <3> QED
      BY <1>2, <1>3, <1>4, <1>7, <1>12, <2>2, <3>2
  <2> QED
    BY <2>1, <2>2
<1> QED
  BY <1>4, <1>5, <1>6, <1>7, <1>8, <1>12, <1>13, <1>14 DEF Lies

(* The last byte of the file is that of the last fragment.                 *)
LEMMA LastOfFile ==
  ASSUME SizesAssumption, LogType, Appending, at = None, Len(file) # 0
  PROVE  /\ Len(fragments) \in DOMAIN fragments /\ fragments # <<>>
         /\ file[Len(file)] = <<Len(fragments), Size(Len(fragments))>>
<1>1. fragments # <<>>
  BY DEF Appending
<1>2. LastByte(Len(fragments), Len(file))
  BY <1>1 DEF Appending
<1>3. Len(fragments) \in DOMAIN fragments
  <2> DEFINE R == [record : Nat, type : Types, length : Nat]
  <2>1. fragments \in Seq(R)
    BY DEF LogType
  <2> HIDE DEF R
  <2> QED
    BY <1>1, <2>1
<1> QED
  BY <1>1, <1>2, <1>3 DEF LastByte

LEMMA Beyond ==
  ASSUME NEW q \in Nat, NEW j \in Nat, NEW z \in Nat, NEW l \in Nat, 1 <= j, q <= l,
         ~(q - j + z <= l), NEW i, i = l - q + j
  PROVE  i \in 1 .. z /\ q - j + i = l /\ i # z
  OBVIOUS

LEMMA UnbrokenAfter ==
  ASSUME SizesAssumption, LogType, WriterInv, Appending, Unbroken, EmitPhysicalRecord
  PROVE  Unbroken'
<1> PICK n : n = HeaderSize + FragmentLength
  OBVIOUS
<1> PICK s : s = Len(file) + Len(Trailer)
  OBVIOUS
<1> PICK new : new = Len(fragments) + 1
  OBVIOUS
<1> PICK l : l = Len(file)
  OBVIOUS
<1>1. /\ n \in Nat /\ s \in Nat /\ l \in Nat /\ 1 <= n
      /\ DOMAIN file = 1 .. l
      /\ Len(file') = s + n /\ DOMAIN file' = 1 .. s + n
      /\ l <= s
      /\ \A p \in DOMAIN file : p \in DOMAIN file' /\ file'[p] = file[p]
      /\ \A p \in l + 1 .. s : file'[p] = None
      /\ \A i \in 1 .. n : file'[s + i] = <<new, i>>
      /\ s + n <= End(s)
  <2>1. Lies(n, s, l, new)
    BY Emission
  <2> QED
    BY <2>1 DEF Lies
<1>2. Emits(n) /\ at = None /\ BytesOK
  BY EmitIsEmits DEF EmitPhysicalRecord, WriterInv
<1>3. /\ new \in Nat /\ DOMAIN fragments' = 1 .. new /\ DOMAIN fragments = 1 .. new - 1
      /\ Size(new)' = n
      /\ \A f \in DOMAIN fragments : Size(f)' = Size(f) /\ Size(f) \in Nat
  BY <1>2, NewFragment, NewSizes
<1> SUFFICES ASSUME NEW q \in DOMAIN file', NEW f \in DOMAIN fragments',
                    NEW j \in 1 .. Size(f)', file'[q] = <<f, j>>
             PROVE  /\ j <= q /\ q - j + Size(f)' <= End(q - j)
                    /\ \A i \in 1 .. Size(f)' :
                         q - j + i \in DOMAIN file' => file'[q - j + i] = <<f, i>>
  BY DEF Unbroken, End
<1>4. f \in Nat /\ Size(f)' \in Nat /\ j \in Nat
  <2>1. f = new \/ f \in DOMAIN fragments
    BY <1>3
  <2> QED
    BY <1>1, <1>3, <2>1
<1>5. \/ q \in DOMAIN file /\ f \in DOMAIN fragments /\ file[q] = <<f, j>>
      \/ f = new /\ j \in 1 .. n /\ q = s + j
  BY <1>2, <1>4, NewPlace
<1>6. CASE q \in DOMAIN file /\ f \in DOMAIN fragments /\ file[q] = <<f, j>>
  <2>1. Size(f)' = Size(f) /\ Size(f) \in Nat /\ j \in 1 .. Size(f)
    BY <1>3, <1>6
  <2>2. /\ j <= q /\ q - j + Size(f) <= End(q - j)
        /\ \A i \in 1 .. Size(f) : q - j + i \in DOMAIN file => file[q - j + i] = <<f, i>>
    BY <1>6, <2>1 DEF Unbroken
  <2>3. q \in 1 .. l /\ l # 0
    BY <1>1, <1>6
  <2>4. file[l] = <<new - 1, Size(new - 1)>>
    <3>1. Len(fragments) = new - 1
      BY <1>3, LastOfFile
    <3> QED
      BY <1>2, <2>3, <3>1, LastOfFile
  <2>5. q - j + Size(f) <= l
    <3> PICK z : z = Size(f)
      OBVIOUS
    <3>1. j \in 1 .. z /\ q \in 1 .. l /\ z \in Nat /\ l \in Nat
      BY <1>1, <2>1, <2>3
    <3>2. j \in Nat /\ q \in Nat /\ 1 <= j /\ q <= l /\ z \in Nat /\ l \in Nat
      BY <3>1
    <3> SUFFICES ASSUME ~(q - j + z <= l) PROVE FALSE
      OBVIOUS
    <3> PICK i : i = l - q + j
      OBVIOUS
    <3>3. i \in 1 .. z /\ q - j + i = l /\ i # z
      <4>1. ~(q - j + z <= l) /\ i = l - q + j
        OBVIOUS
      <4>2. /\ q \in Nat /\ j \in Nat /\ z \in Nat /\ l \in Nat
            /\ 1 <= j /\ q <= l
        BY <3>2
      <4> QED
        BY ONLY <4>1, <4>2, Beyond
    <3>4. q - j + i \in DOMAIN file => file[q - j + i] = <<f, i>>
      BY <2>2, <3>3
    <3>5. l \in DOMAIN file
      BY <1>1, <2>3
    <3>6. file[l] = <<f, i>>
      BY <3>3, <3>4, <3>5
    <3>7. f = new - 1 /\ i = Size(new - 1)
      BY <2>4, <3>6
    <3> QED
      BY <3>3, <3>7
  <2>6. ASSUME NEW i \in 1 .. Size(f) PROVE file'[q - j + i] = <<f, i>>
    <3> PICK z : z = Size(f)
      OBVIOUS
    <3>0. /\ j \in 1 .. z /\ q \in 1 .. l /\ z \in Nat /\ i \in 1 .. z
          /\ q - j + z <= l /\ j <= q /\ l \in Nat /\ DOMAIN file = 1 .. l
      BY <1>1, <2>1, <2>2, <2>3, <2>5
    <3>00. j \in Nat /\ q \in Nat /\ i \in Nat /\ 1 <= i /\ i <= z
      BY <3>0
    <3>1. q - j + i \in DOMAIN file
      BY <3>0, <3>00
    <3> QED
      BY <1>1, <2>2, <3>1
  <2> QED
    BY <2>1, <2>2, <2>6
<1>7. CASE f = new /\ j \in 1 .. n /\ q = s + j
  <2>1. q - j = s /\ j <= q
    BY <1>1, <1>7
  <2> QED
    BY <1>1, <1>3, <1>7, <2>1
<1> QED
  BY <1>5, <1>6, <1>7

LEMMA FollowingAfter ==
  ASSUME SizesAssumption, LogType, WriterInv, Appending, Following, EmitPhysicalRecord
  PROVE  Following'
<1> PICK n : n = HeaderSize + FragmentLength
  OBVIOUS
<1> PICK s : s = Len(file) + Len(Trailer)
  OBVIOUS
<1> PICK new : new = Len(fragments) + 1
  OBVIOUS
<1> PICK l : l = Len(file)
  OBVIOUS
<1>1. /\ n \in Nat /\ s \in Nat /\ l \in Nat /\ 1 <= n
      /\ DOMAIN file = 1 .. l
      /\ Len(file') = s + n /\ DOMAIN file' = 1 .. s + n
      /\ l <= s
      /\ \A p \in DOMAIN file : p \in DOMAIN file' /\ file'[p] = file[p]
      /\ \A p \in l + 1 .. s : file'[p] = None
      /\ \A i \in 1 .. n : file'[s + i] = <<new, i>>
      /\ IF End(l) - l < HeaderSize THEN s = End(l) ELSE s = l
  <2>1. Lies(n, s, l, new)
    BY Emission
  <2> QED
    BY <2>1 DEF Lies
<1>2. Emits(n) /\ at = None /\ BytesOK
  BY EmitIsEmits DEF EmitPhysicalRecord, WriterInv
<1>3. /\ new \in Nat /\ DOMAIN fragments' = 1 .. new /\ DOMAIN fragments = 1 .. new - 1
      /\ Size(new)' = n
      /\ \A f \in DOMAIN fragments : Size(f)' = Size(f) /\ Size(f) \in Nat
  BY <1>2, NewFragment, NewSizes
<1>4. file'[s + 1] = <<new, 1>> /\ s + 1 \in DOMAIN file'
  BY <1>1
<1>5. HeaderSize \in Nat \ {0} /\ BlockSize \in Nat /\ HeaderSize < BlockSize
  BY DEF SizesAssumption
<1>6. file'[1] = <<1, 1>>
  <2>1. CASE l = 0
    <3>1. fragments = <<>> /\ blockOffset = 0
      <4>1. 0 \notin DOMAIN file
        BY <1>1
      <4> QED
        BY <1>2, <2>1, <4>1 DEF Appending, LastByte
    <3>2. new = 1
      BY <3>1
    <3>3. End(l) = l + BlockSize
      BY <1>2, <1>5, <2>1, <3>1 DEF Appending
    <3>4. s = 0
      BY <1>1, <1>5, <2>1, <3>3
    <3> QED
      BY <1>4, <3>2, <3>4
  <2>2. CASE l # 0
    <3>1. 1 \in DOMAIN file
      BY <1>1, <2>2
    <3> QED
      BY <1>1, <3>1 DEF Following
  <2> QED
    BY <2>1, <2>2
<1>7. ASSUME NEW f \in DOMAIN fragments', NEW e \in DOMAIN file', file'[e] = <<f, Size(f)'>>
      PROVE  IF End(e) - e < HeaderSize
             THEN /\ \A p \in e + 1 .. End(e) : p \in DOMAIN file' => file'[p] = None
                  /\ End(e) + 1 \in DOMAIN file' => file'[End(e) + 1] = <<f + 1, 1>>
             ELSE e + 1 \in DOMAIN file' => file'[e + 1] = <<f + 1, 1>>
  <2>1. f \in Nat /\ Size(f)' \in Nat /\ e \in Nat
    <3>1. f = new \/ f \in DOMAIN fragments
      BY <1>3
    <3>2. f \in Nat /\ e \in Nat
      <4>1. f \in 1 .. new /\ e \in 1 .. s + n
        BY <1>1, <1>3
      <4> QED
        BY <4>1
    <3>3. Size(f)' \in Nat
      BY <1>1, <1>3, <3>1
    <3> QED
      BY <3>2, <3>3
  <2>2. End(e) \in Nat /\ e < End(e)
    BY <2>1, EndsOfBlocks
  <2>3. \/ e \in DOMAIN file /\ f \in DOMAIN fragments /\ file[e] = <<f, Size(f)'>>
        \/ f = new /\ e = s + Size(f)'
    BY <1>2, <1>7, <2>1, NewPlace
  <2>4. CASE f = new /\ e = s + Size(f)'
    <3>1. e = s + n /\ e \in Nat /\ DOMAIN file' = 1 .. e
      BY <1>1, <1>3, <2>1, <2>4
    <3>2. e + 1 \notin 1 .. e /\ End(e) + 1 \notin 1 .. e
      BY <2>2, <3>1
    <3>3. \A p \in e + 1 .. End(e) : p \notin 1 .. e
      BY <2>2, <3>1
    <3> QED
      BY <3>1, <3>2, <3>3, Zenon
  <2>5. CASE e \in DOMAIN file /\ f \in DOMAIN fragments /\ file[e] = <<f, Size(f)'>>
    <3>1. file[e] = <<f, Size(f)>> /\ LastByte(f, e) /\ l # 0 /\ e <= l
      BY <1>1, <1>3, <2>5 DEF LastByte
    <3>2. /\ file[l] = <<new - 1, Size(new - 1)>> /\ l \in DOMAIN file /\ file[l] # None
      <4>1. Len(fragments) = new - 1
        BY <1>3, <3>1, LastOfFile
      <4>2. Size(new - 1) \in Nat /\ new - 1 \in Nat
        BY <1>2, <1>3, <3>1, <4>1, LastOfFile, FragmentTypes
      <4>3. file[l] = <<new - 1, Size(new - 1)>>
        BY <1>2, <3>1, <4>1, LastOfFile
      <4>4. file[l] # None
        BY <4>2, <4>3 DEF SizesAssumption
      <4>5. l \in DOMAIN file
        BY <1>1, <3>1
      <4> QED
        BY <4>3, <4>4, <4>5
    <3>3. CASE e = l
      <4>1. f + 1 = new
        BY <1>3, <3>1, <3>2, <3>3
      <4>2. CASE End(e) - e < HeaderSize
        BY <1>1, <1>4, <3>3, <4>1, <4>2
      <4>3. CASE ~(End(e) - e < HeaderSize)
        BY <1>1, <1>4, <3>3, <4>1, <4>3
      <4> QED
        BY <4>2, <4>3
    <3>4. CASE e # l
      <4>1. IF End(e) - e < HeaderSize
            THEN /\ \A p \in e + 1 .. End(e) : p \in DOMAIN file => file[p] = None
                 /\ End(e) + 1 \in DOMAIN file => file[End(e) + 1] = <<f + 1, 1>>
            ELSE e + 1 \in DOMAIN file => file[e + 1] = <<f + 1, 1>>
        BY <2>5, <3>1 DEF Following
      <4>0. /\ l \in Nat /\ e \in Nat /\ e < l /\ DOMAIN file = 1 .. l
            /\ End(e) \in Nat /\ e < End(e)
        <5>1. l \in Nat /\ DOMAIN file = 1 .. l /\ e <= l
          BY <1>1, <3>1
        <5> QED
          BY <2>1, <2>2, <3>4, <5>1
      <4>2. CASE End(e) - e < HeaderSize
        <5>1. ~(l <= End(e))
          <6> SUFFICES ASSUME l <= End(e) PROVE FALSE
            OBVIOUS
          <6>1. l \in e + 1 .. End(e)
            BY <4>0
          <6> QED
            BY <3>2, <4>1, <4>2, <6>1
        <5>2. \A p \in e + 1 .. End(e) : p \in DOMAIN file
          BY <4>0, <5>1
        <5>3. End(e) + 1 \in DOMAIN file
          BY <4>0, <5>1
        <5> QED
          BY <1>1, <4>1, <4>2, <5>2, <5>3
      <4>3. CASE ~(End(e) - e < HeaderSize)
        <5>1. e + 1 \in DOMAIN file
          BY <4>0
        <5> QED
          BY <1>1, <4>1, <4>3, <5>1
      <4> QED
        BY <4>2, <4>3
    <3> QED
      BY <3>3, <3>4
  <2> QED
    BY <2>3, <2>4, <2>5
<1> QED
  BY <1>6, <1>7 DEF Following, LastByte, End

LEMMA NumberedAfter ==
  ASSUME SizesAssumption, LogType, WriterInv, Numbered, EmitPhysicalRecord
  PROVE  Numbered'
<1> PICK n : n = HeaderSize + FragmentLength
  OBVIOUS
<1> PICK new : new = Len(fragments) + 1
  OBVIOUS
<1>1. /\ Emits(n) /\ left # None /\ begin' = FALSE /\ added' = added
      /\ left' = None <=> left = FragmentLength
  <2>1. left' = None <=> left = FragmentLength
    BY EmitIsEmits DEF SizesAssumption
  <2> QED
    BY <2>1, EmitIsEmits DEF EmitPhysicalRecord
<1>2. /\ new \in Nat /\ Len(fragments') = new /\ Len(fragments) = new - 1
      /\ DOMAIN fragments' = 1 .. new /\ DOMAIN fragments = 1 .. new - 1
      /\ \A f \in DOMAIN fragments : fragments'[f] = fragments[f]
      /\ fragments'[new].record = added
  <2>1. Len(fragments) \in Nat
    BY DEF LogType
  <2> QED
    BY <1>1, <2>1, NewFragment
<1>3. /\ \A f \in DOMAIN fragments : (Starts(f)' <=> Starts(f)) /\ (Ends(f)' <=> Ends(f))
      /\ Starts(new)' <=> begin
      /\ Ends(new)' <=> left = FragmentLength
  BY <1>1, NewSizes
<1>4. ASSUME NEW f \in DOMAIN fragments', Starts(f)'
      PROVE  \/ f = 1 /\ fragments'[f].record = 1
             \/ /\ f - 1 \in DOMAIN fragments' /\ Ends(f - 1)'
                /\ fragments'[f].record = fragments'[f - 1].record + 1
  <2>1. CASE f \in DOMAIN fragments
    <3>1. \/ f = 1 /\ fragments[f].record = 1
          \/ /\ f - 1 \in DOMAIN fragments /\ Ends(f - 1)
             /\ fragments[f].record = fragments[f - 1].record + 1
      BY <1>3, <1>4, <2>1 DEF Numbered
    <3>2. CASE f = 1 /\ fragments[f].record = 1
      BY <1>2, <2>1, <3>2
    <3>3. ASSUME f - 1 \in DOMAIN fragments, Ends(f - 1),
                 fragments[f].record = fragments[f - 1].record + 1
          PROVE  /\ f - 1 \in DOMAIN fragments' /\ Ends(f - 1)'
                 /\ fragments'[f].record = fragments'[f - 1].record + 1
      <4> PICK g : g = f - 1
        OBVIOUS
      <4>1. g \in DOMAIN fragments' /\ Ends(g)'
        BY <1>2, <1>3, <3>3
      <4>2. fragments'[f] = fragments[f] /\ fragments'[g] = fragments[g]
        BY <1>2, <2>1, <3>3
      <4> QED
        BY <3>3, <4>1, <4>2
    <3> QED
      BY <3>1, <3>2, <3>3
  <2>2. CASE f = new
    <3>1. begin
      BY <1>3, <1>4, <2>2
    <3>2. IF new - 1 = 0 THEN added - 1 = 0
          ELSE Ends(new - 1) /\ fragments[new - 1].record = added - 1
      BY <1>1, <1>2, <3>1 DEF Numbered
    <3>3. added \in Nat
      BY DEF LogType
    <3>4. CASE new = 1
      BY <1>2, <2>2, <3>2, <3>3, <3>4
    <3>5. CASE new # 1
      <4> PICK g : g = new - 1
        OBVIOUS
      <4>1. g # 0 /\ g \in DOMAIN fragments
        BY <1>2, <3>5
      <4>2. g \in DOMAIN fragments' /\ Ends(g)' /\ fragments'[g] = fragments[g]
        BY <1>2, <1>3, <3>2, <4>1
      <4> QED
        BY <1>2, <2>2, <3>2, <3>3, <4>1, <4>2
    <3> QED
      BY <3>4, <3>5
  <2> QED
    BY <1>2, <2>1, <2>2
<1>5. ASSUME left' = None
      PROVE  new # 0 /\ Ends(new)' /\ fragments'[new].record = added'
  BY <1>1, <1>2, <1>3, <1>5
<1> QED
  BY <1>1, <1>2, <1>4, <1>5 DEF Numbered

LEMMA AnsweredAfter ==
  ASSUME SizesAssumption, LogType, WriterInv, Appending, Answered, EmitPhysicalRecord
  PROVE  Answered' /\ Appending'
<1> PICK n : n = HeaderSize + FragmentLength
  OBVIOUS
<1> PICK s : s = Len(file) + Len(Trailer)
  OBVIOUS
<1> PICK new : new = Len(fragments) + 1
  OBVIOUS
<1> PICK l : l = Len(file)
  OBVIOUS
<1> PICK m : m = Len(complete)
  OBVIOUS
<1>1. /\ n \in Nat /\ s \in Nat /\ l \in Nat /\ 1 <= n
      /\ DOMAIN file = 1 .. l
      /\ Len(file') = s + n /\ DOMAIN file' = 1 .. s + n
      /\ l <= s
      /\ \A p \in DOMAIN file : p \in DOMAIN file' /\ file'[p] = file[p]
      /\ \A i \in 1 .. n : file'[s + i] = <<new, i>>
      /\ End(s + n) = s + n + IF blockOffset' = BlockSize THEN BlockSize
                                                         ELSE BlockSize - blockOffset'
  <2>1. Lies(n, s, l, new)
    BY Emission
  <2> QED
    BY <2>1 DEF Lies
<1>2. /\ Emits(n) /\ at = None /\ left # None /\ BytesOK
      /\ \/ /\ left = FragmentLength /\ left' = None
            /\ complete' = Append(complete, [record |-> added, end |-> Len(file')])
         \/ /\ left # FragmentLength /\ left' # None /\ complete' = complete
  <2>1. left' \in Nat => left' # None
    BY DEF SizesAssumption
  <2> QED
    BY <2>1, EmitIsEmits DEF EmitPhysicalRecord, WriterInv
<1>3. /\ new \in Nat /\ DOMAIN fragments' = 1 .. new /\ DOMAIN fragments = 1 .. new - 1
      /\ Len(fragments') = new
      /\ \A f \in DOMAIN fragments : fragments'[f] = fragments[f]
      /\ fragments'[new].record = added
      /\ Size(new)' = n /\ (Ends(new)' <=> left = FragmentLength)
      /\ \A f \in DOMAIN fragments :
           Size(f)' = Size(f) /\ Size(f) \in Nat /\ (Ends(f)' <=> Ends(f))
  <2>1. /\ Size(new)' = n /\ (Ends(new)' <=> left = FragmentLength)
        /\ \A f \in DOMAIN fragments :
             Size(f)' = Size(f) /\ Size(f) \in Nat /\ (Ends(f)' <=> Ends(f))
    BY <1>2, NewSizes
  <2> QED
    BY <1>2, <2>1, NewFragment
<1>4. added \in Nat /\ m \in Nat /\ DOMAIN complete = 1 .. m /\ m = added - 1
  <2> DEFINE R == [record : Nat, end : Nat]
  <2>1. complete \in Seq(R)
    BY DEF LogType
  <2> HIDE DEF R
  <2>2. m \in Nat /\ DOMAIN complete = 1 .. m
    BY <2>1
  <2> QED
    BY <1>2, <2>2 DEF Appending, LogType
<1>5. \A j \in DOMAIN complete : j \in DOMAIN complete' /\ complete'[j] = complete[j]
  <2>1. CASE complete' = complete
    BY <2>1
  <2>2. CASE complete' = Append(complete, [record |-> added, end |-> Len(file')])
    <3>1. [record |-> added, end |-> Len(file')] \in [record : Nat, end : Nat]
      BY <1>1, <1>4
    <3> PICK r : r = [record |-> added, end |-> Len(file')]
      OBVIOUS
    <3>2. /\ DOMAIN Append(complete, r) = 1 .. m + 1
          /\ \A j \in DOMAIN complete : Append(complete, r)[j] = complete[j]
      BY <3>1, CompleteTypes
    <3>3. DOMAIN complete' = 1 .. m + 1 /\ \A j \in DOMAIN complete : complete'[j] = complete[j]
      BY <2>2, <3>2
    <3> QED
      BY <1>4, <3>3
  <2> QED
    BY <1>2, <2>1, <2>2
<1>6. /\ left = FragmentLength =>
           /\ DOMAIN complete' = 1 .. added /\ Len(complete') = added
           /\ complete'[added].record = added /\ complete'[added].end = s + n
           /\ added \in DOMAIN complete'
      /\ left # FragmentLength => complete' = complete
  <2>1. CASE left = FragmentLength
    <3> PICK r : r = [record |-> added, end |-> Len(file')]
      OBVIOUS
    <3>1. r \in [record : Nat, end : Nat] /\ complete' = Append(complete, r)
      BY <1>1, <1>2, <1>4, <2>1
    <3>2. /\ complete' \in Seq([record : Nat, end : Nat])
          /\ DOMAIN complete' = 1 .. m + 1 /\ complete'[m + 1] = r
      BY <3>1, CompleteTypes
    <3>3. Len(complete') = m + 1
      <4> HIDE <3>1
      <4> DEFINE R == [record : Nat, end : Nat]
      <4>1. complete \in Seq(R) /\ r \in R /\ complete' = Append(complete, r)
        BY <3>1 DEF LogType
      <4> HIDE DEF R
      <4> QED
        BY <4>1
    <3>4. r.record = added /\ r.end = s + n
      BY <1>1
    <3>5. m + 1 = added /\ added \in 1 .. added
      BY <1>4
    <3> QED
      BY <2>1, <3>2, <3>3, <3>4, <3>5
  <2> QED
    BY <1>2, <2>1
<1>7. \A j \in DOMAIN complete' : j \in DOMAIN complete \/ (left = FragmentLength /\ j = added)
  BY <1>4, <1>6
<1>8. ASSUME NEW j \in DOMAIN complete' PROVE complete'[j].record = j
  BY <1>5, <1>6, <1>7 DEF Answered
<1>9. ASSUME NEW f \in DOMAIN fragments', NEW e \in DOMAIN file', file'[e] = <<f, Size(f)'>>, Ends(f)'
      PROVE  /\ fragments'[f].record \in DOMAIN complete'
             /\ complete'[fragments'[f].record].end = e
  <2>1. f \in Nat /\ Size(f)' \in Nat
    <3>1. f = new \/ f \in DOMAIN fragments
      BY <1>3
    <3>2. Size(f)' \in Nat
      BY <1>1, <1>3, <3>1
    <3> QED
      BY <1>3, <3>2
  <2>2. \/ e \in DOMAIN file /\ f \in DOMAIN fragments /\ file[e] = <<f, Size(f)'>>
        \/ f = new /\ e = s + Size(f)'
    BY <1>2, <1>9, <2>1, NewPlace
  <2>3. CASE e \in DOMAIN file /\ f \in DOMAIN fragments /\ file[e] = <<f, Size(f)'>>
    <3>1. LastByte(f, e) /\ Ends(f) /\ fragments'[f] = fragments[f]
      BY <1>3, <1>9, <2>3 DEF LastByte
    <3>2. fragments[f].record \in DOMAIN complete /\ complete[fragments[f].record].end = e
      BY <2>3, <3>1 DEF Answered
    <3> QED
      BY <1>5, <3>1, <3>2
  <2>4. CASE f = new /\ e = s + Size(f)'
    BY <1>3, <1>6, <1>9, <2>4
  <2> QED
    BY <2>2, <2>3, <2>4
<1>10. ASSUME NEW j \in DOMAIN complete', complete'[j].end <= Len(file')
       PROVE  \E f \in DOMAIN fragments' :
                /\ complete'[j].end \in DOMAIN file'
                /\ file'[complete'[j].end] = <<f, Size(f)'>>
                /\ Ends(f)' /\ fragments'[f].record = j
  <2>1. CASE j \in DOMAIN complete
    <3>1. complete[j].end <= Len(file)
      BY <1>2, <2>1 DEF Appending
    <3>2. PICK f \in DOMAIN fragments :
            LastByte(f, complete[j].end) /\ Ends(f) /\ fragments[f].record = j
      BY <2>1, <3>1 DEF Answered
    <3>3. complete'[j] = complete[j]
      BY <1>5, <2>1
    <3> PICK e : e = complete[j].end
      OBVIOUS
    <3>4. e \in DOMAIN file /\ file[e] = <<f, Size(f)>>
      BY <3>2 DEF LastByte
    <3>5. e \in DOMAIN file' /\ file'[e] = <<f, Size(f)'>>
      BY <1>1, <1>3, <3>4
    <3>6. f \in DOMAIN fragments' /\ Ends(f)' /\ fragments'[f].record = j
      BY <1>3, <3>2
    <3> QED
      BY <3>3, <3>5, <3>6
  <2>2. CASE left = FragmentLength /\ j = added
    <3>1. complete'[j].end = s + n /\ s + n \in DOMAIN file'
      BY <1>1, <1>6, <2>2
    <3>2. file'[s + n] = <<new, Size(new)'>>
      BY <1>1, <1>3
    <3>3. new \in DOMAIN fragments' /\ Ends(new)' /\ fragments'[new].record = j
      BY <1>3, <2>2
    <3> QED
      BY <3>1, <3>2, <3>3
  <2> QED
    BY <1>7, <2>1, <2>2
<1>11. Answered'
  BY <1>8, <1>9, <1>10 DEF Answered, LastByte
<1>12. Len(complete') = IF left' = None THEN added' ELSE added' - 1
  BY <1>2, <1>4, <1>6 DEF Emits
<1>13. ASSUME NEW j \in DOMAIN complete' PROVE complete'[j].end <= Len(file')
  <2>1. CASE j \in DOMAIN complete
    <3>1. complete[j].end <= l /\ complete'[j] = complete[j]
      BY <1>2, <1>5, <2>1 DEF Appending
    <3>2. complete[j].end \in Nat
      <4> DEFINE R == [record : Nat, end : Nat]
      <4>1. complete \in Seq(R)
        BY DEF LogType
      <4> HIDE DEF R
      <4>2. complete[j] \in R
        BY <2>1, <4>1
      <4> QED
        BY <4>2 DEF R
    <3>3. l \in Nat /\ n \in Nat /\ s \in Nat /\ l <= s /\ Len(file') = s + n
      BY <1>1
    <3> QED
      BY <3>1, <3>2, <3>3
  <2>2. CASE left = FragmentLength /\ j = added
    BY <1>1, <1>6, <2>2
  <2> QED
    BY <1>7, <2>1, <2>2
<1>14. fragments' # <<>> /\ s + n \in DOMAIN file' /\ file'[s + n] = <<new, Size(new)'>>
  <2>1. fragments' # <<>>
    BY <1>3
  <2> QED
    BY <1>1, <1>3, <2>1
<1>15. LastByte(Len(fragments), Len(file))'
  BY <1>1, <1>3, <1>14 DEF LastByte
<1>16. Appending'
  BY <1>1, <1>3, <1>12, <1>13, <1>14, <1>15 DEF Appending, LastByte, End
<1> QED
  BY <1>11, <1>16

LEMMA FirstBlock ==
  ASSUME SizesAssumption PROVE End(0) = 0 + BlockSize
<1> PICK z : z = (0 \div BlockSize) * BlockSize
  OBVIOUS
<1>1. z \in Nat /\ z <= 0 /\ End(0) = z + BlockSize
  BY Quotient
<1> QED
  BY <1>1

LEMMA OrderInit ==
  ASSUME SizesAssumption, Init PROVE NothingFailed
<1>1. /\ file = <<>> /\ fragments = <<>> /\ blockOffset = 0
      /\ left = None /\ added = 0 /\ complete = <<>>
      /\ at = None /\ scratch = None /\ got = <<>>
  BY DEF Init
<1>2. /\ DOMAIN file = {} /\ DOMAIN fragments = {} /\ DOMAIN complete = {} /\ DOMAIN got = {}
      /\ Len(file) = 0 /\ Len(fragments) = 0 /\ Len(complete) = 0
  BY <1>1
<1>3. End(0) = 0 + BlockSize /\ BlockSize # 0
  BY FirstBlock DEF SizesAssumption
<1>4. Numbered
  BY <1>1, <1>2 DEF Numbered
<1>5. Unbroken /\ Following /\ Answered
  BY <1>2 DEF Unbroken, Following, Answered
<1>6. Appending
  <2>1. Len(complete) = IF left = None THEN added ELSE added - 1
    BY <1>1, <1>2
  <2>2. End(Len(file)) =
          Len(file) + IF blockOffset = BlockSize THEN BlockSize ELSE BlockSize - blockOffset
    <3>1. BlockSize - 0 = BlockSize
      BY DEF SizesAssumption
    <3> QED
      BY <1>1, <1>2, <1>3, <3>1
  <2> QED
    BY <1>1, <1>2, <2>1, <2>2 DEF Appending
<1>7. ReadInOrder
  BY <1>1, <1>2 DEF ReadInOrder, SizesAssumption
<1> QED
  BY <1>4, <1>5, <1>6, <1>7 DEF NothingFailed

LEMMA AddInOrder ==
  ASSUME SizesAssumption, LogType, LogType', NothingFailed, NEW size \in Sizes, AddRecord(size)
  PROVE  NothingFailed'
<1> SUFFICES ASSUME failures' = 0
             PROVE  (Numbered /\ Unbroken /\ Following /\ Answered /\ Appending /\ ReadInOrder)'
  BY DEF NothingFailed
<1>1. /\ file' = file /\ fragments' = fragments /\ complete' = complete
      /\ blockOffset' = blockOffset /\ failures' = failures
      /\ at' = at /\ scratch' = scratch /\ got' = got
      /\ left = None /\ left' = size /\ begin' = TRUE /\ added' = added + 1
      /\ at = None
  BY DEF AddRecord, reader
<1>2. Numbered /\ Unbroken /\ Following /\ Answered /\ Appending
  BY <1>1 DEF NothingFailed
<1>3. added \in Nat /\ size # None /\ got' = <<>>
  BY <1>1 DEF LogType, SizesAssumption
<1>4. \A f : Size(f)' = Size(f) /\ (Starts(f)' <=> Starts(f)) /\ (Ends(f)' <=> Ends(f))
  BY <1>1 DEF Size, Starts, Ends
<1>5. \A f, e : LastByte(f, e)' <=> LastByte(f, e)
  BY <1>1, <1>4 DEF LastByte
<1>6. Numbered'
  <2>1. (added + 1) - 1 = added
    BY <1>3
  <2>2. \A f \in DOMAIN fragments : Starts(f) =>
          \/ f = 1 /\ fragments[f].record = 1
          \/ /\ f - 1 \in DOMAIN fragments /\ Ends(f - 1)
             /\ fragments[f].record = fragments[f - 1].record + 1
    BY <1>2 DEF Numbered
  <2>3. IF Len(fragments) = 0 THEN added = 0
        ELSE Ends(Len(fragments)) /\ fragments[Len(fragments)].record = added
    BY <1>1, <1>2 DEF Numbered
  <2> QED
    BY <1>1, <1>3, <1>4, <2>1, <2>2, <2>3 DEF Numbered
<1>7. Unbroken'
  BY <1>1, <1>2, <1>4 DEF Unbroken, End
<1>8. Following'
  BY <1>1, <1>2, <1>5 DEF Following, End
<1>9. Answered'
  BY <1>1, <1>2, <1>4, <1>5 DEF Answered
<1>10. Appending'
  BY <1>1, <1>2, <1>3, <1>4, <1>5 DEF Appending, End, LastByte, Size
<1>11. ReadInOrder'
  BY <1>1, <1>3 DEF ReadInOrder, SizesAssumption
<1> QED
  BY <1>6, <1>7, <1>8, <1>9, <1>10, <1>11

LEMMA EmitInOrder ==
  ASSUME SizesAssumption, LogType, LogType', WriterInv, NothingFailed, EmitPhysicalRecord
  PROVE  NothingFailed'
<1> SUFFICES ASSUME failures' = 0
             PROVE  (Numbered /\ Unbroken /\ Following /\ Answered /\ Appending /\ ReadInOrder)'
  BY DEF NothingFailed
<1>1. failures = 0 /\ at' = None
  BY DEF EmitPhysicalRecord, reader
<1>2. Numbered /\ Unbroken /\ Following /\ Answered /\ Appending
  BY <1>1 DEF NothingFailed
<1>3. ReadInOrder'
  <2>1. got' = <<>>
    BY <1>1 DEF LogType
  <2> QED
    BY <1>1, <2>1 DEF ReadInOrder, SizesAssumption
<1> QED
  BY <1>2, <1>3, NumberedAfter, UnbrokenAfter, FollowingAfter, AnsweredAfter

LEMMA CrashInOrder ==
  ASSUME SizesAssumption, LogType, NothingFailed, NEW bytes \in 0 .. Len(file), Crash(bytes)
  PROVE  NothingFailed'
<1> SUFFICES ASSUME failures' = 0
             PROVE  (Numbered /\ Unbroken /\ Following /\ Answered /\ Appending /\ ReadInOrder)'
  BY DEF NothingFailed
<1>1. /\ fragments' = fragments /\ complete' = complete /\ failures' = failures
      /\ left' = left /\ begin' = begin /\ added' = added
      /\ at = None /\ at' = 0 /\ at' # None /\ at' # Eof
      /\ scratch' = None /\ got' = <<>>
  BY DEF Crash, writer, LogType, SizesAssumption
<1>2. Numbered /\ Unbroken /\ Following /\ Answered
  BY <1>1 DEF NothingFailed
<1>3. /\ Len(file) \in Nat /\ bytes \in Nat /\ DOMAIN file = 1 .. Len(file)
      /\ Len(file') = bytes /\ DOMAIN file' = 1 .. bytes
      /\ \A p \in DOMAIN file' : p \in DOMAIN file /\ file'[p] = file[p]
  <2> DEFINE R == {None} \cup (Nat \X Nat)
  <2>1. file \in Seq(R) /\ file' = SubSeq(file, 1, bytes)
    BY DEF LogType, Crash
  <2> HIDE DEF R
  <2> QED
    BY <2>1
<1>4. \A f : Size(f)' = Size(f) /\ (Starts(f)' <=> Starts(f)) /\ (Ends(f)' <=> Ends(f))
  BY <1>1 DEF Size, Starts, Ends
<1>5. \A f, e : LastByte(f, e)' => e \in DOMAIN file' /\ LastByte(f, e)
  BY <1>3, <1>4 DEF LastByte
<1>6. Numbered'
  BY <1>1, <1>2, <1>4 DEF Numbered
<1>7. Unbroken'
  BY <1>1, <1>2, <1>3, <1>4 DEF Unbroken, End
<1>8. Following'
  <2>1. 1 \in DOMAIN file' => file'[1] = <<1, 1>>
    BY <1>2, <1>3 DEF Following
  <2>2. ASSUME NEW f \in DOMAIN fragments, NEW e \in DOMAIN file', LastByte(f, e)'
        PROVE  IF End(e) - e < HeaderSize
               THEN /\ \A p \in e + 1 .. End(e) : p \in DOMAIN file' => file'[p] = None
                    /\ End(e) + 1 \in DOMAIN file' => file'[End(e) + 1] = <<f + 1, 1>>
               ELSE e + 1 \in DOMAIN file' => file'[e + 1] = <<f + 1, 1>>
    <3>1. e \in DOMAIN file /\ LastByte(f, e)
      BY <1>5, <2>2, <1>3
    <3>2. IF End(e) - e < HeaderSize
          THEN /\ \A p \in e + 1 .. End(e) : p \in DOMAIN file => file[p] = None
               /\ End(e) + 1 \in DOMAIN file => file[End(e) + 1] = <<f + 1, 1>>
          ELSE e + 1 \in DOMAIN file => file[e + 1] = <<f + 1, 1>>
      BY <1>2, <3>1 DEF Following
    <3> QED
      BY <1>3, <3>2
  <2> QED
    BY <1>1, <2>1, <2>2 DEF Following, End
<1>9. Answered'
  <2>1. \A j \in DOMAIN complete : complete[j].record = j
    BY <1>2 DEF Answered
  <2>2. \A f \in DOMAIN fragments : \A e \in DOMAIN file' : LastByte(f, e)' /\ Ends(f) =>
          /\ fragments[f].record \in DOMAIN complete
          /\ complete[fragments[f].record].end = e
    BY <1>2, <1>3, <1>5 DEF Answered
  <2>3. ASSUME NEW j \in DOMAIN complete, complete[j].end <= Len(file')
        PROVE  \E f \in DOMAIN fragments :
                 LastByte(f, complete[j].end)' /\ Ends(f) /\ fragments[f].record = j
    <3> PICK e : e = complete[j].end
      OBVIOUS
    <3>1. e \in Nat
      <4> DEFINE R == [record : Nat, end : Nat]
      <4>1. complete \in Seq(R)
        BY DEF LogType
      <4> HIDE DEF R
      <4>2. complete[j] \in R
        BY <4>1
      <4> QED
        BY <4>2 DEF R
    <3>2. e <= Len(file)
      BY <1>3, <2>3, <3>1
    <3>3. PICK f \in DOMAIN fragments : LastByte(f, e) /\ Ends(f) /\ fragments[f].record = j
      BY <1>2, <3>2 DEF Answered
    <3>4. e \in DOMAIN file'
      BY <1>3, <2>3, <3>1, <3>3 DEF LastByte
    <3>5. LastByte(f, e)'
      BY <1>3, <1>4, <3>3, <3>4 DEF LastByte
    <3> QED
      BY <1>1, <3>3, <3>5
  <2> QED
    BY <1>1, <1>4, <2>1, <2>2, <2>3 DEF Answered
<1>10. Appending'
  BY <1>1 DEF Appending
<1>11. ReadInOrder'
  <2>1. DOMAIN got' = {} /\ Len(got') = 0
    BY <1>1
  <2>2. Len(fragments') \in Nat
    BY <1>1 DEF LogType
  <2>3. Read(0, 0)'
    BY <1>1, <2>1 DEF Read
  <2>4. 0 \in 0 .. Len(fragments') /\ 0 \in 0 .. at'
    BY <1>1, <2>2
  <2> QED
    BY <1>1, <2>1, <2>3, <2>4 DEF ReadInOrder
<1> QED
  BY <1>6, <1>7, <1>8, <1>9, <1>10, <1>11

-----------------------------------------------------------------------------
(* The reader, when nothing failed                                         *)

(* Only the reader's variables change.                                     *)
LEMMA OnlyReading ==
  ASSUME SizesAssumption, UNCHANGED <<file, writer>>, at # None, at' # None,
         NothingFailed, failures = 0, ReadInOrder'
  PROVE  NothingFailed'
<1>1. /\ file' = file /\ fragments' = fragments /\ complete' = complete
      /\ left' = left /\ begin' = begin /\ added' = added
  BY DEF writer
<1>2. \A f : Size(f)' = Size(f) /\ (Starts(f)' <=> Starts(f)) /\ (Ends(f)' <=> Ends(f))
  BY <1>1 DEF Size, Starts, Ends
<1>3. \A f, e : LastByte(f, e)' <=> LastByte(f, e)
  BY <1>1, <1>2 DEF LastByte
<1>4. Numbered /\ Unbroken /\ Following /\ Answered
  BY DEF NothingFailed
<1>5. Numbered'
  BY <1>1, <1>2, <1>4 DEF Numbered
<1>6. Unbroken'
  BY <1>1, <1>2, <1>4 DEF Unbroken, End
<1>7. Following'
  BY <1>1, <1>3, <1>4 DEF Following, End
<1>8. Answered'
  BY <1>1, <1>2, <1>3, <1>4 DEF Answered
<1>9. Appending'
  BY DEF Appending
<1> QED
  BY <1>5, <1>6, <1>7, <1>8, <1>9 DEF NothingFailed

(* What is behind the reader's place, after which g is the last fragment   *)
(* read.                                                                   *)
LEMMA ReadFacts ==
  ASSUME SizesAssumption, LogType, Reading, NEW g \in 0 .. Len(fragments), NEW e \in 0 .. at, Read(g, e)
  PROVE  /\ at \in Nat /\ e \in Nat /\ e <= at /\ g \in Nat
         /\ Len(file) \in Nat /\ DOMAIN file = 1 .. Len(file)
         /\ Len(fragments) \in Nat /\ DOMAIN fragments = 1 .. Len(fragments)
         /\ g # 0 => g \in DOMAIN fragments /\ LastByte(g, e)
         /\ g = 0 => e = 0
<1>1. at \in Nat /\ Len(file) \in Nat /\ DOMAIN file = 1 .. Len(file)
  BY Buffer
<1>2. Len(fragments) \in Nat /\ DOMAIN fragments = 1 .. Len(fragments)
  <2> DEFINE R == [record : Nat, type : Types, length : Nat]
  <2>1. fragments \in Seq(R)
    BY DEF LogType
  <2> HIDE DEF R
  <2> QED
    BY <2>1
<1> QED
  BY <1>1, <1>2 DEF Read

(* The bytes behind the reader's place, if there is room for a header, are *)
(* those of the next fragment, which ends in the same block.               *)
LEMMA NextFragment ==
  ASSUME SizesAssumption, LogType, WriterInv, Unbroken, Following, Reading,
         NEW g \in 0 .. Len(fragments), NEW e \in 0 .. at, Read(g, e),
         at + 1 \in DOMAIN file, HeaderSize <= End(at) - at
  PROVE  /\ g + 1 \in DOMAIN fragments /\ Size(g + 1) \in Nat /\ HeaderSize <= Size(g + 1)
         /\ at + Size(g + 1) <= End(at)
         /\ \A i \in 1 .. Size(g + 1) : at + i \in DOMAIN file => file[at + i] = <<g + 1, i>>
<1>1. /\ at \in Nat /\ e \in Nat /\ e <= at /\ g \in Nat
      /\ g # 0 => g \in DOMAIN fragments /\ LastByte(g, e)
      /\ g = 0 => e = 0
  BY ReadFacts
<1>2. HeaderSize \in Nat \ {0} /\ BlockSize \in Nat /\ HeaderSize < BlockSize
  BY DEF SizesAssumption
<1>3. /\ End(e) \in Nat /\ e < End(e) /\ End(at) \in Nat
  BY <1>1, EndsOfBlocks
<1>4. file[at + 1] = <<g + 1, 1>>
  <2>1. CASE at = e
    <3>1. CASE g = 0
      <4>1. at + 1 = 1 /\ g + 1 = 1
        BY <1>1, <2>1, <3>1
      <4>2. 1 \in DOMAIN file => file[1] = <<1, 1>>
        BY DEF Following
      <4> QED
        BY <4>1, <4>2
    <3>2. CASE g # 0
      <4>1. g \in DOMAIN fragments /\ e \in DOMAIN file /\ LastByte(g, e)
        BY <1>1, <3>2 DEF LastByte
      <4>2. ~(End(e) - e < HeaderSize)
        BY <1>1, <1>2, <1>3, <2>1
      <4> QED
        BY <2>1, <4>1, <4>2 DEF Following
    <3> QED
      BY <3>1, <3>2
  <2>2. CASE at = End(e) /\ at < e + HeaderSize
    <3>1. g # 0
      <4> SUFFICES ASSUME g = 0 PROVE FALSE
        OBVIOUS
      <4>1. End(e) = 0 + BlockSize
        BY <1>1, FirstBlock
      <4> QED
        BY <1>1, <1>2, <2>2, <4>1
    <3>2. g \in DOMAIN fragments /\ e \in DOMAIN file /\ LastByte(g, e)
      BY <1>1, <3>1 DEF LastByte
    <3>3. End(e) - e < HeaderSize
      BY <1>1, <1>2, <1>3, <2>2
    <3> QED
      BY <2>2, <3>2, <3>3 DEF Following
  <2> QED
    BY <2>1, <2>2 DEF Read
<1> PICK h : h = g + 1
  OBVIOUS
<1>5. h \in DOMAIN fragments
  <2>1. file[at + 1] # None
    BY <1>1, <1>4 DEF SizesAssumption
  <2>2. PICK f \in DOMAIN fragments : \E i \in 1 .. Size(f) : file[at + 1] = <<f, i>>
    BY <2>1 DEF WriterInv, BytesOK
  <2> QED
    BY <1>4, <2>2
<1>6. Size(h) \in Nat /\ HeaderSize <= Size(h) /\ 1 \in 1 .. Size(h)
  <2>1. fragments[h].length \in Nat
    BY <1>5, FragmentTypes
  <2>2. Size(h) \in Nat /\ HeaderSize <= Size(h)
    BY <1>2, <2>1 DEF Size
  <2> QED
    BY <1>2, <2>2
<1>7. /\ (at + 1) - 1 + Size(h) <= End((at + 1) - 1)
      /\ \A i \in 1 .. Size(h) :
           (at + 1) - 1 + i \in DOMAIN file => file[(at + 1) - 1 + i] = <<h, i>>
  BY <1>4, <1>5, <1>6 DEF Unbroken
<1>8. (at + 1) - 1 = at
  BY <1>1
<1> QED
  BY <1>5, <1>6, <1>7, <1>8

(* Fragments that are not read yet lie behind the reader's place.          *)
LEMMA NotYetRead ==
  ASSUME SizesAssumption, LogType, WriterInv, Unbroken, Reading,
         NEW g \in 0 .. Len(fragments), NEW e \in 0 .. at, Read(g, e),
         NEW f \in DOMAIN fragments, g < f, NEW x, LastByte(f, x)
  PROVE  at + Size(f) <= x
<1>1. /\ at \in Nat /\ e \in Nat /\ e <= at /\ g \in Nat
      /\ Len(file) \in Nat /\ DOMAIN file = 1 .. Len(file)
      /\ g # 0 => g \in DOMAIN fragments /\ LastByte(g, e)
      /\ g = 0 => e = 0
  BY ReadFacts
<1>2. f \in Nat /\ Size(f) \in Nat /\ 1 <= Size(f)
  <2>1. f \in Nat /\ fragments[f].length \in Nat
    BY FragmentTypes
  <2> QED
    BY <2>1 DEF Size, SizesAssumption
<1>3. x \in DOMAIN file /\ file[x] = <<f, Size(f)>>
  BY DEF LastByte
<1> PICK z : z = Size(f)
  OBVIOUS
<1> PICK p : p = x - z + 1
  OBVIOUS
<1>4. z \in Nat /\ 1 \in 1 .. z /\ z \in 1 .. z /\ x \in Nat /\ x <= Len(file)
  BY <1>1, <1>2, <1>3
<1>5. /\ z <= x
      /\ x - z + 1 \in DOMAIN file => file[x - z + 1] = <<f, 1>>
  BY <1>3, <1>4 DEF Unbroken
<1>6. p \in Nat /\ 1 <= p /\ p \in DOMAIN file
  BY <1>1, <1>4, <1>5
<1>7. file[p] = <<f, 1>> /\ file[p] # None
  BY <1>2, <1>5, <1>6 DEF SizesAssumption
<1>8. ~(p <= at)
  <2> SUFFICES ASSUME p <= at PROVE FALSE
    OBVIOUS
  <2>1. ~(e < p)
    <3>1. p \in e + 1 .. at \/ ~(e < p)
      BY <1>1, <1>6
    <3> QED
      BY <1>6, <1>7, <3>1 DEF Read
  <2>2. g # 0 /\ g \in DOMAIN fragments /\ LastByte(g, e)
    BY <1>1, <1>6, <2>1
  <2>3. e \in DOMAIN file /\ file[e] = <<g, Size(g)>> /\ Size(g) \in Nat
    <3>1. fragments[g].length \in Nat
      BY <2>2, FragmentTypes
    <3> QED
      BY <2>2, <3>1 DEF LastByte, Size, SizesAssumption
  <2>4. CASE p = e
    BY <1>1, <1>2, <1>7, <2>3, <2>4
  <2>5. CASE p < e
    <3>1. f < g \/ f = g
      BY <1>6, <1>7, <2>2, <2>3, <2>5 DEF WriterInv, BytesOK
    <3> QED
      BY <1>1, <1>2, <3>1
  <2> QED
    BY <1>1, <1>6, <2>1, <2>4, <2>5
<1> QED
  BY <1>1, <1>4, <1>6, <1>8

(* An ended fragment is of an earlier record than those after it.          *)
LEMMA EndedBefore ==
  ASSUME LogType, Emitted, NEW f \in DOMAIN fragments, NEW g \in DOMAIN fragments, f < g, Ends(f)
  PROVE  fragments[f].record < fragments[g].record
<1>1. /\ f \in Nat /\ g \in Nat
      /\ fragments[f].record \in Nat /\ fragments[g].record \in Nat
  BY FragmentTypes
<1> PICK h : h = f + 1
  OBVIOUS
<1>2. h \in DOMAIN fragments /\ h \in Nat /\ f < h /\ h <= g /\ h - 1 = f
  <2>1. DOMAIN fragments = 1 .. Len(fragments) /\ Len(fragments) \in Nat
    BY DEF LogType
  <2> QED
    BY <1>1, <2>1
<1>3. Starts(h)
  BY <1>2 DEF Emitted
<1>4. fragments[f].record < fragments[h].record
  BY <1>2, <1>3 DEF Emitted
<1>5. fragments[h].record \in Nat /\ fragments[h].record <= fragments[g].record
  <2>1. CASE h = g
    BY <1>1, <2>1
  <2>2. CASE h < g
    BY <1>1, <1>2, <2>2, FragmentTypes DEF Emitted
  <2> QED
    BY <1>1, <1>2, <2>1, <2>2
<1> QED
  BY <1>1, <1>4, <1>5

(* If no fragment behind the last one that was read is wholly in the file, *)
(* no record is.                                                           *)
LEMMA NoMore ==
  ASSUME SizesAssumption, LogType, WriterInv, Answered, Reading,
         NEW g \in 0 .. Len(fragments), NEW e \in 0 .. at, Read(g, e),
         \A f \in DOMAIN fragments : g < f => \A x : ~LastByte(f, x)
  PROVE  AllRead
<1>1. g \in Nat /\ (g # 0 => g \in DOMAIN fragments)
  BY ReadFacts
<1> SUFFICES ASSUME NEW j \in DOMAIN complete, j > Len(got), ~(complete[j].end > Len(file))
             PROVE  FALSE
  BY DEF AllRead
<1>2. complete[j].end \in Nat /\ Len(file) \in Nat /\ Len(got) \in Nat
  <2> DEFINE R == [record : Nat, end : Nat]
  <2>1. complete \in Seq(R)
    BY DEF LogType
  <2> HIDE DEF R
  <2>2. complete[j] \in R
    BY <2>1
  <2>3. complete[j].end \in Nat
    BY <2>2 DEF R
  <2>4. Len(file) \in Nat
    BY Buffer
  <2>5. Len(got) \in Nat
    <3>1. <<>> \in Seq(Nat)
      OBVIOUS
    <3> QED
      BY <3>1, GotTypes
  <2> QED
    BY <2>3, <2>4, <2>5
<1>3. PICK f \in DOMAIN fragments :
        LastByte(f, complete[j].end) /\ Ends(f) /\ fragments[f].record = j
  BY <1>2 DEF Answered
<1>4. ~(g < f)
  BY <1>3
<1>5. /\ f \in Nat \ {0} /\ f <= g /\ g # 0 /\ g \in DOMAIN fragments
      /\ fragments[f].record \in Nat /\ fragments[g].record \in Nat
  BY <1>1, <1>4, FragmentTypes
<1>6. f = g \/ fragments[f].record < fragments[g].record
  <2>1. f = g \/ f < g
    BY <1>5
  <2> QED
    BY <1>3, <1>5, <2>1, EndedBefore DEF WriterInv
<1>7. Len(got) = IF Ends(g) THEN fragments[g].record ELSE fragments[g].record - 1
  BY <1>5 DEF Read
<1> QED
  BY <1>2, <1>3, <1>5, <1>6, <1>7

(* The place in the records of the fragment after g.                       *)
LEMMA NextRecord ==
  ASSUME LogType, Emitted, Numbered, NEW g \in Nat, g + 1 \in DOMAIN fragments
  PROVE  LET r == fragments[g + 1].record
         IN  /\ Starts(g + 1) => IF g = 0 THEN r = 1 ELSE Ends(g) /\ r = fragments[g].record + 1
             /\ ~Starts(g + 1) => g # 0 /\ ~Ends(g) /\ r = fragments[g].record
<1> PICK h : h = g + 1
  OBVIOUS
<1>1. h \in DOMAIN fragments /\ h - 1 = g /\ (g = 0 <=> h = 1)
  OBVIOUS
<1>2. ASSUME Starts(h)
      PROVE  IF g = 0 THEN fragments[h].record = 1
             ELSE Ends(g) /\ fragments[h].record = fragments[g].record + 1
  <2>1. \/ h = 1 /\ fragments[h].record = 1
        \/ /\ h - 1 \in DOMAIN fragments /\ Ends(h - 1)
           /\ fragments[h].record = fragments[h - 1].record + 1
    BY <1>1, <1>2 DEF Numbered
  <2>2. g \in DOMAIN fragments => g # 0
    BY FragmentTypes
  <2> QED
    BY <1>1, <2>1, <2>2
<1>3. ASSUME ~Starts(h)
      PROVE  g # 0 /\ ~Ends(g) /\ fragments[h].record = fragments[g].record
  <2>1. h - 1 \in DOMAIN fragments /\ ~Ends(h - 1) /\ fragments[h - 1].record = fragments[h].record
    BY <1>1, <1>3 DEF Emitted
  <2>2. g \in DOMAIN fragments => g # 0
    BY FragmentTypes
  <2> QED
    BY <1>1, <2>1, <2>2
<1> QED
  BY <1>2, <1>3

LEMMA SkipInOrder ==
  ASSUME SizesAssumption, MixInv, NothingFailed, SkipTrailer
  PROVE  NothingFailed'
<1>1. /\ LogType /\ WriterInv /\ Reading
      /\ UNCHANGED <<file, writer>> /\ scratch' = scratch /\ got' = got
      /\ BufferEnd - at < HeaderSize
      /\ at' = IF BufferEnd = BlockEnd THEN BlockEnd ELSE Eof
  BY DEF MixInv, SkipTrailer
<1>2. /\ fragments' = fragments /\ complete' = complete /\ failures' = failures /\ file' = file
  BY <1>1 DEF writer
<1> SUFFICES ASSUME failures = 0 PROVE NothingFailed'
  BY <1>2 DEF NothingFailed
<1>3. Numbered /\ Unbroken /\ Following /\ Answered /\ ReadInOrder
  BY DEF NothingFailed
<1>4. /\ at \in Nat /\ BlockEnd = End(at) /\ End(at) \in Nat /\ at < End(at)
      /\ BufferEnd = IF End(at) <= Len(file) THEN End(at) ELSE Len(file)
      /\ Len(file) \in Nat /\ DOMAIN file = 1 .. Len(file)
      /\ End(End(at)) = End(at) + BlockSize
      /\ HeaderSize \in Nat \ {0} /\ BlockSize \in Nat /\ HeaderSize < BlockSize
  BY <1>1, Buffer, EndsOfBlocks DEF SizesAssumption
<1>5. at # None /\ at' # None /\ (at' \in Nat => at' # Eof)
  BY <1>1, <1>4 DEF SizesAssumption
<1>6. /\ \A s : RecordOf(s)' = RecordOf(s)
      /\ \A f : (Ends(f)' <=> Ends(f))
      /\ \A f, e : LastByte(f, e)' <=> LastByte(f, e)
  BY <1>1, <1>5, SameWriter
<1>7. \A j \in DOMAIN got : /\ RecordOf(got[j]) = j
                            /\ j \in DOMAIN complete /\ complete[j].end <= Len(file)
  BY <1>3 DEF ReadInOrder
<1>8. ASSUME AllRead PROVE AllRead'
  BY <1>1, <1>2, <1>8 DEF AllRead
<1>9. CASE at = Len(file) /\ AllRead
  <2>1. at' = Eof
    BY <1>1, <1>4, <1>9
  <2>2. at' \notin Nat
    BY <2>1 DEF SizesAssumption
  <2>3. ReadInOrder'
    BY <1>1, <1>2, <1>6, <1>7, <1>8, <1>9, <2>2 DEF ReadInOrder, RecordOf
  <2> QED
    BY <1>1, <1>5, <2>3, OnlyReading
<1>10. ASSUME NEW g \in 0 .. Len(fragments), NEW e \in 0 .. at, Read(g, e) PROVE NothingFailed'
  <2>1. /\ e \in Nat /\ e <= at /\ g \in Nat
        /\ Len(fragments) \in Nat /\ DOMAIN fragments = 1 .. Len(fragments)
        /\ g # 0 => g \in DOMAIN fragments /\ LastByte(g, e)
        /\ g = 0 => e = 0
    BY <1>1, <1>10, ReadFacts
  <2>2. CASE BufferEnd = BlockEnd
    <3>1. at' = End(at) /\ End(at) - at < HeaderSize /\ End(at) <= Len(file)
      BY <1>1, <1>4, <2>2
    <3>2. at = e
      <4>1. at = End(e) => End(at) = at + BlockSize
        BY <2>1, EndsOfBlocks
      <4> QED
        BY <1>4, <1>10, <3>1, <4>1 DEF Read
    <3>3. g # 0
      <4> SUFFICES ASSUME g = 0 PROVE FALSE
        OBVIOUS
      <4>1. at = 0
        BY <2>1, <3>2
      <4>2. End(at) = 0 + BlockSize
        BY <4>1, FirstBlock
      <4> QED
        BY <1>4, <3>1, <4>1, <4>2
    <3>4. g \in DOMAIN fragments /\ LastByte(g, e) /\ e \in DOMAIN file
      BY <2>1, <3>3 DEF LastByte
    <3>5. \A p \in e + 1 .. End(e) : p \in DOMAIN file => file[p] = None
      BY <1>3, <3>1, <3>2, <3>4 DEF Following
    <3>6. /\ scratch = None <=> g = 0 \/ Ends(g)
          /\ Len(got) = IF g = 0 THEN 0
                ELSE IF Ends(g) THEN fragments[g].record ELSE fragments[g].record - 1
      BY <1>10 DEF Read
    <3>7. at' = End(e) /\ at' < e + HeaderSize
      BY <1>4, <2>1, <3>1, <3>2
    <3>8. Read(g, e)'
      <4>1. LastByte(g, e)'
        BY <1>6, <3>4
      <4>2. End(e)' = End(e)
        BY DEF End
      <4> QED
        BY <1>1, <1>2, <1>6, <3>3, <3>5, <3>6, <3>7, <4>1, <4>2 DEF Read
    <3>9. g \in 0 .. Len(fragments') /\ e \in 0 .. at' /\ at' \in Nat
      BY <1>2, <1>4, <2>1, <3>1, <3>2
    <3>10. ReadInOrder'
      BY <1>1, <1>2, <1>5, <1>6, <1>7, <3>8, <3>9 DEF ReadInOrder, RecordOf
    <3> QED
      BY <1>1, <1>5, <3>10, OnlyReading
  <2>3. CASE BufferEnd # BlockEnd
    <3>1. at' = Eof /\ Len(file) < at + HeaderSize
      BY <1>1, <1>4, <2>3
    <3>2. at' \notin Nat
      BY <3>1 DEF SizesAssumption
    <3>3. ASSUME NEW f \in DOMAIN fragments, g < f, NEW x, LastByte(f, x) PROVE FALSE
      <4>1. at + Size(f) <= x
        BY <1>1, <1>3, <1>10, <3>3, NotYetRead
      <4>2. HeaderSize <= Size(f) /\ Size(f) \in Nat
        <5>1. fragments[f].length \in Nat
          BY <1>1, FragmentTypes
        <5> QED
          BY <1>4, <5>1 DEF Size
      <4>3. x \in Nat /\ x <= Len(file)
        BY <1>4, <3>3 DEF LastByte
      <4> QED
        BY <1>4, <3>1, <4>1, <4>2, <4>3
    <3>4. AllRead
      BY <1>1, <1>3, <1>10, <3>3, NoMore
    <3>5. ReadInOrder'
      BY <1>1, <1>2, <1>6, <1>7, <1>8, <3>2, <3>4 DEF ReadInOrder, RecordOf
    <3> QED
      BY <1>1, <1>5, <3>5, OnlyReading
  <2> QED
    BY <2>2, <2>3
<1> QED
  BY <1>3, <1>4, <1>9, <1>10 DEF ReadInOrder

LEMMA BadInOrder ==
  ASSUME SizesAssumption, MixInv, NothingFailed, ReadPhysicalRecord, Here = {}, BadRecord
  PROVE  NothingFailed'
<1>1. /\ LogType /\ WriterInv /\ Reading
      /\ UNCHANGED <<file, writer>> /\ scratch' = None /\ got' = got
      /\ BufferEnd - at >= HeaderSize
      /\ at' = BufferEnd
  BY DEF MixInv, ReadPhysicalRecord, BadRecord
<1>2. /\ fragments' = fragments /\ complete' = complete /\ failures' = failures /\ file' = file
  BY <1>1 DEF writer
<1> SUFFICES ASSUME failures = 0 PROVE NothingFailed'
  BY <1>2 DEF NothingFailed
<1>3. Numbered /\ Unbroken /\ Following /\ Answered /\ ReadInOrder
  BY DEF NothingFailed
<1>4. /\ at \in Nat /\ End(at) \in Nat
      /\ BufferEnd = IF End(at) <= Len(file) THEN End(at) ELSE Len(file)
      /\ Len(file) \in Nat /\ DOMAIN file = 1 .. Len(file)
      /\ HeaderSize \in Nat \ {0}
  BY <1>1, Buffer DEF SizesAssumption
<1>5. at # None /\ at' # None /\ at' # Eof
  BY <1>1, <1>4 DEF SizesAssumption
<1>6. \A s : RecordOf(s)' = RecordOf(s)
  BY <1>1, <1>5, SameWriter
<1>7. \A j \in DOMAIN got : /\ RecordOf(got[j]) = j
                            /\ j \in DOMAIN complete /\ complete[j].end <= Len(file)
  BY <1>3 DEF ReadInOrder
<1>8. ~(at = Len(file))
  <2>1. BufferEnd \in Nat /\ BufferEnd <= Len(file)
    BY <1>4
  <2> PICK b : b = BufferEnd
    OBVIOUS
  <2>2. /\ b \in Nat /\ b <= Len(file) /\ b - at >= HeaderSize
        /\ at \in Nat /\ Len(file) \in Nat /\ HeaderSize \in Nat \ {0}
    BY <1>1, <1>4, <2>1
  <2> QED
    BY <2>2
<1>9. PICK g \in 0 .. Len(fragments), e \in 0 .. at : Read(g, e)
  BY <1>3, <1>4, <1>8 DEF ReadInOrder
<1>10. at + 1 \in DOMAIN file /\ HeaderSize <= End(at) - at
  BY <1>1, <1>4
<1> PICK h : h = g + 1
  OBVIOUS
<1>11. /\ h \in DOMAIN fragments /\ Size(h) \in Nat
       /\ at + Size(h) <= End(at)
       /\ \A i \in 1 .. Size(h) : at + i \in DOMAIN file => file[at + i] = <<h, i>>
  BY <1>1, <1>3, <1>9, <1>10, NextFragment
<1>12. ~(at + Size(h) <= BufferEnd)
  <2> SUFFICES ASSUME at + Size(h) <= BufferEnd PROVE FALSE
    OBVIOUS
  <2>1. at + Size(h) <= Len(file)
    BY <1>4, <1>11
  <2>2. \A i \in 1 .. Size(h) : at + i \in DOMAIN file
    BY <1>4, <1>11, <2>1
  <2>3. \A i \in 1 .. Size(h) : file[at + i] = <<h, i>>
    BY <1>11, <2>2
  <2>4. h \in Here
    BY <1>11, <2>3 DEF Here, Size
  <2> QED
    BY <2>4
<1>13. BufferEnd = Len(file) /\ Len(file) < at + Size(h)
  BY <1>4, <1>11, <1>12
<1>14. ASSUME NEW f \in DOMAIN fragments, g < f, NEW x, LastByte(f, x) PROVE FALSE
  <2>1. at + Size(f) <= x
    BY <1>1, <1>3, <1>9, <1>14, NotYetRead
  <2>2. /\ f \in Nat /\ Size(f) \in Nat /\ 1 <= Size(f)
    <3>1. f \in Nat /\ fragments[f].length \in Nat
      BY <1>1, FragmentTypes
    <3> QED
      BY <1>4, <3>1 DEF Size
  <2>3. x \in DOMAIN file /\ file[x] = <<f, Size(f)>> /\ x \in Nat /\ x <= Len(file)
    BY <1>4, <1>14 DEF LastByte
  <2> PICK i : i = x - at
    OBVIOUS
  <2> PICK z, y : z = Size(h) /\ y = Size(f)
    OBVIOUS
  <2>30. /\ at \in Nat /\ x \in Nat /\ z \in Nat /\ y \in Nat /\ 1 <= y
         /\ at + y <= x /\ x < at + z
    <3>1. Len(file) \in Nat /\ Len(file) < at + z
      BY <1>4, <1>13
    <3> QED
      BY <1>4, <1>11, <2>1, <2>2, <2>3, <3>1
  <2>31. i \in 1 .. z /\ at + i = x /\ i # z /\ y <= i
    BY <2>30
  <2>4. i \in 1 .. Size(h) /\ at + i = x /\ i # Size(h) /\ Size(f) <= i
    BY <2>31
  <2>5. file[x] = <<h, i>>
    BY <1>11, <2>3, <2>4
  <2>6. f = h /\ i = Size(f)
    BY <2>3, <2>5
  <2> QED
    BY <2>4, <2>6
<1>15. AllRead
  BY <1>1, <1>3, <1>9, <1>14, NoMore
<1>16. at' = Len(file') /\ AllRead'
  BY <1>1, <1>2, <1>13, <1>15 DEF AllRead
<1>17. ReadInOrder'
  BY <1>1, <1>2, <1>5, <1>6, <1>7, <1>16 DEF ReadInOrder, RecordOf
<1> QED
  BY <1>1, <1>5, <1>17, OnlyReading

(* A fragment is counted, and a record that ends with it returned.         *)
LEMMA OneReturned ==
  ASSUME SizesAssumption, LogType, WriterInv, NothingFailed, failures = 0, Reading,
         UNCHANGED <<file, writer>>, NEW f \in Here, at' = at + Size(f), Ends(f),
         NEW x \in Seq(Nat), RecordOf(x) = fragments[f].record, got' = Append(got, x),
         Len(got) = fragments[f].record - 1
  PROVE  /\ Len(got') = fragments[f].record
         /\ \A j \in DOMAIN got' : /\ RecordOf(got[j])' = j
                                   /\ j \in DOMAIN complete /\ complete[j].end <= Len(file)
<1>1. /\ at \in Nat /\ f \in DOMAIN fragments /\ Size(f) \in Nat
      /\ LastByte(f, at + Size(f))
      /\ Len(file) \in Nat /\ DOMAIN file = 1 .. Len(file)
      /\ fragments[f].record \in Nat
  BY Found, Buffer, FragmentTypes
<1>2. at # None /\ at' # None
  BY <1>1 DEF SizesAssumption
<1>3. /\ DOMAIN got = 1 .. Len(got) /\ Len(got) \in Nat
      /\ DOMAIN got' = 1 .. Len(got) + 1
      /\ \A j \in DOMAIN got : got'[j] = got[j]
      /\ got'[Len(got) + 1] = x
  BY GotTypes
<1>4. \A s : RecordOf(s)' = RecordOf(s)
  BY <1>2, SameWriter
<1>5. Len(got) + 1 = fragments[f].record /\ Len(got') = fragments[f].record
  <2>1. Len(got') = Len(got) + 1
    <3> DEFINE R == Seq(Nat)
    <3>1. got \in Seq(R) /\ x \in R
      BY DEF LogType
    <3> HIDE DEF R
    <3> QED
      BY <3>1
  <2> QED
    BY <1>1, <1>3, <2>1
<1>6. ASSUME NEW j \in DOMAIN got'
      PROVE  /\ RecordOf(got[j])' = j
             /\ j \in DOMAIN complete /\ complete[j].end <= Len(file)
  <2>1. CASE j \in DOMAIN got
    <3>1. /\ RecordOf(got[j]) = j
          /\ j \in DOMAIN complete /\ complete[j].end <= Len(file)
      BY <2>1 DEF NothingFailed, ReadInOrder
    <3>2. got'[j] = got[j]
      BY <1>3, <2>1
    <3> PICK y : y = got[j]
      OBVIOUS
    <3>3. RecordOf(y)' = j
      BY <1>4, <3>1
    <3> QED
      BY <3>1, <3>2, <3>3 DEF RecordOf
  <2>2. CASE j = Len(got) + 1
    <3>1. got'[j] = x /\ j = fragments[f].record
      BY <1>3, <1>5, <2>2
    <3>2. RecordOf(x)' = j
      BY <1>4, <3>1
    <3>3. RecordOf(got[j])' = j
      BY <3>1, <3>2 DEF RecordOf
    <3> PICK e : e = at + Size(f)
      OBVIOUS
    <3>4. e \in DOMAIN file /\ LastByte(f, e) /\ e <= Len(file)
      BY <1>1 DEF LastByte
    <3>5. j \in DOMAIN complete /\ complete[j].end = e
      BY <1>1, <3>1, <3>4 DEF NothingFailed, Answered
    <3> QED
      BY <3>3, <3>4, <3>5
  <2> QED
    BY <1>3, <2>1, <2>2
<1> QED
  BY <1>5, <1>6

LEMMA FragmentInOrder ==
  ASSUME SizesAssumption, MixInv, NothingFailed, ReadPhysicalRecord, NEW f \in Here, ReadFragment(f)
  PROVE  NothingFailed'
<1>0. /\ LogType /\ WriterInv /\ UnderWay /\ Emitted
      /\ Reading /\ UNCHANGED <<file, writer>>
      /\ BufferEnd - at >= HeaderSize
  BY DEF MixInv, WriterInv, ReadPhysicalRecord
<1>1. /\ at \in Nat /\ f \in DOMAIN fragments /\ f \in Nat \ {0} /\ Size(f) \in Nat
      /\ HeaderSize <= Size(f) /\ HeaderSize \in Nat \ {0}
      /\ at + Size(f) <= BufferEnd
      /\ at + 1 \in DOMAIN file /\ file[at + 1] = <<f, 1>>
      /\ LastByte(f, at + Size(f))
      /\ fragments[f].type \in Types /\ fragments[f].record \in Nat
  BY <1>0, Buffer, Found, FragmentTypes
<1>2. at' = at + Size(f)
  <2>1. fragments[f].length \in Nat
    BY <1>0, <1>1, FragmentTypes
  <2>2. at' = at + HeaderSize + fragments[f].length
    BY DEF ReadFragment
  <2> QED
    BY <1>1, <2>1, <2>2 DEF Size
<1>3. at' \in Nat /\ at # None /\ at' # None /\ at' # Eof
  BY <1>1, <1>2 DEF SizesAssumption
<1>4. /\ fragments' = fragments /\ complete' = complete /\ failures' = failures /\ file' = file
  BY <1>0 DEF writer
<1> SUFFICES ASSUME failures = 0 PROVE NothingFailed'
  BY <1>4 DEF NothingFailed
<1>5. Numbered /\ Unbroken /\ Following /\ Answered /\ ReadInOrder
  BY DEF NothingFailed
<1>6. /\ \A s : RecordOf(s)' = RecordOf(s)
      /\ \A h : (Ends(h)' <=> Ends(h))
      /\ \A h, e : LastByte(h, e)' <=> LastByte(h, e)
  BY <1>0, <1>3, SameWriter
<1>7. /\ Len(file) \in Nat /\ End(at) \in Nat
      /\ BufferEnd \in Nat /\ BufferEnd <= Len(file) /\ BufferEnd <= End(at)
  <2>1. BufferEnd = IF End(at) <= Len(file) THEN End(at) ELSE Len(file)
    BY <1>0, Buffer
  <2>2. Len(file) \in Nat /\ End(at) \in Nat
    BY <1>0, Buffer
  <2> QED
    BY <2>1, <2>2
<1>8. PICK g \in 0 .. Len(fragments), e \in 0 .. at : Read(g, e)
  <2>1. ~(at = Len(file))
    BY <1>1, <1>7
  <2> QED
    BY <1>1, <1>5, <2>1 DEF ReadInOrder
<1>9. /\ g \in Nat /\ (g # 0 => g \in DOMAIN fragments)
      /\ Len(fragments) \in Nat /\ DOMAIN fragments = 1 .. Len(fragments)
  BY <1>0, <1>8, ReadFacts
<1>10. f = g + 1
  <2>1. HeaderSize <= End(at) - at
    BY <1>0, <1>1, <1>7
  <2> PICK h : h = g + 1
    OBVIOUS
  <2>2. /\ Size(h) \in Nat /\ HeaderSize <= Size(h)
        /\ \A i \in 1 .. Size(h) : at + i \in DOMAIN file => file[at + i] = <<h, i>>
    BY <1>0, <1>1, <1>5, <1>8, <2>1, NextFragment
  <2>3. 1 \in 1 .. Size(h)
    BY <1>1, <2>2
  <2>4. file[at + 1] = <<h, 1>>
    BY <1>1, <2>2, <2>3
  <2> QED
    BY <1>1, <2>4
<1>11. /\ Starts(f) => IF g = 0 THEN fragments[f].record = 1
                       ELSE Ends(g) /\ fragments[f].record = fragments[g].record + 1
       /\ ~Starts(f) => g # 0 /\ ~Ends(g) /\ fragments[f].record = fragments[g].record
  BY <1>0, <1>1, <1>5, <1>9, <1>10, NextRecord
<1>12. /\ scratch = None <=> g = 0 \/ Ends(g)
       /\ Len(got) = IF g = 0 THEN 0
                     ELSE IF Ends(g) THEN fragments[g].record ELSE fragments[g].record - 1
  BY <1>8 DEF Read
<1>13. Len(got) = fragments[f].record - 1
  <2>1. g # 0 => fragments[g].record \in Nat
    BY <1>0, <1>9, FragmentTypes
  <2>2. CASE Starts(f)
    <3>1. CASE g = 0
      BY <1>11, <1>12, <2>2, <3>1
    <3>2. CASE g # 0
      <4>1. /\ Ends(g) /\ fragments[f].record = fragments[g].record + 1
            /\ Len(got) = fragments[g].record
        BY <1>11, <1>12, <2>2, <3>2
      <4> QED
        BY <2>1, <3>2, <4>1
    <3> QED
      BY <3>1, <3>2
  <2>3. CASE ~Starts(f)
    BY <1>11, <1>12, <2>3
  <2> QED
    BY <2>2, <2>3
<1>14. ASSUME scratch' = None <=> Ends(f),
              Len(got') = IF Ends(f) THEN fragments[f].record ELSE fragments[f].record - 1,
              \A j \in DOMAIN got' : /\ RecordOf(got[j])' = j
                                     /\ j \in DOMAIN complete /\ complete[j].end <= Len(file)
       PROVE  NothingFailed'
  <2> PICK x : x = at'
    OBVIOUS
  <2>1. x \in Nat /\ x \in 0 .. x /\ at' = x /\ LastByte(f, x) /\ f # 0
    BY <1>1, <1>2, <1>3
  <2>2. \A p \in x + 1 .. x : p \in DOMAIN file => file[p] = None
    BY <2>1
  <2>3. Read(f, x)'
    <3>1. LastByte(f, x)' /\ (Ends(f)' <=> Ends(f))
      BY <1>6, <2>1
    <3> QED
      BY <1>4, <1>14, <2>1, <2>2, <3>1 DEF Read
  <2>4. f \in 0 .. Len(fragments') /\ x \in 0 .. at'
    BY <1>1, <1>4, <1>9, <2>1
  <2>5. ReadInOrder'
    BY <1>3, <1>4, <1>14, <2>3, <2>4 DEF ReadInOrder
  <2> QED
    BY <1>0, <1>3, <2>5, OnlyReading
<1>15. ASSUME got' = got
       PROVE  \A j \in DOMAIN got' : /\ RecordOf(got[j])' = j
                                     /\ j \in DOMAIN complete /\ complete[j].end <= Len(file)
  <2>1. ASSUME NEW j \in DOMAIN got' PROVE RecordOf(got[j])' = RecordOf(got[j])
    BY <1>4, <1>15 DEF RecordOf
  <2> QED
    BY <1>5, <1>15, <2>1 DEF ReadInOrder
<1>16. None \notin Seq(Nat)
  BY DEF SizesAssumption
<1>17. CASE fragments[f].type = "full"
  <2>1. got' = Append(got, <<f>>) /\ scratch' = None
    BY <1>17 DEF ReadFragment
  <2>2. Ends(f) /\ Starts(f)
    BY <1>17 DEF Ends, Starts
  <2>3. <<f>> \in Seq(Nat) /\ RecordOf(<<f>>) = fragments[f].record
    BY <1>1 DEF RecordOf
  <2>4. /\ Len(got') = fragments[f].record
        /\ \A j \in DOMAIN got' : /\ RecordOf(got[j])' = j
                                  /\ j \in DOMAIN complete /\ complete[j].end <= Len(file)
    BY <1>0, <1>2, <1>13, <2>1, <2>2, <2>3, OneReturned
  <2> QED
    BY <1>14, <2>1, <2>2, <2>4
<1>18. CASE fragments[f].type = "first"
  <2>1. got' = got /\ scratch' = <<f>>
    BY <1>18 DEF ReadFragment
  <2>2. ~Ends(f)
    BY <1>18 DEF Ends
  <2>3. scratch' # None
    <3>1. <<f>> \in Seq(Nat)
      BY <1>1
    <3> QED
      BY <1>16, <2>1, <3>1
  <2>4. Len(got') = fragments[f].record - 1
    BY <1>13, <2>1
  <2> QED
    BY <1>14, <1>15, <2>1, <2>2, <2>3, <2>4
<1>19. CASE fragments[f].type \in {"middle", "last"}
  <2>1. ~Starts(f)
    BY <1>19 DEF Starts
  <2>2. scratch # None
    BY <1>11, <1>12, <2>1
  <2> PICK s : s = scratch
    OBVIOUS
  <2>3. s \in Seq(Nat) /\ Run(s)
    BY <1>0, <1>1, <2>2 DEF LogType, UnderWay
  <2>4. Last(s) \in DOMAIN fragments /\ fragments[Last(s)].record = RecordOf(s)
    BY <1>0, <2>3, RunRecord
  <2>5. \E c \in 1 .. at : LastByte(Last(s), c) /\ at < c + HeaderSize
    BY <1>0, <1>1, <2>2 DEF UnderWay
  <2>6. f = Last(s) + 1 /\ fragments[f].record = fragments[Last(s)].record
    BY <1>0, <2>1, <2>4, <2>5, NoneBetween
  <2> PICK x : x = Append(s, f)
    OBVIOUS
  <2>7. x \in Seq(Nat) /\ RecordOf(x) = fragments[f].record
    BY <1>0, <1>1, <2>3, <2>4, <2>6, OneMore
  <2>8. CASE fragments[f].type = "middle"
    <3>1. got' = got /\ scratch' = x
      BY <2>2, <2>8 DEF ReadFragment
    <3>2. ~Ends(f)
      BY <2>8 DEF Ends
    <3>3. scratch' # None
      BY <1>16, <2>7, <3>1
    <3>4. Len(got') = fragments[f].record - 1
      BY <1>13, <3>1
    <3> QED
      BY <1>14, <1>15, <3>1, <3>2, <3>3, <3>4
  <2>9. CASE fragments[f].type = "last"
    <3>1. got' = Append(got, x) /\ scratch' = None
      BY <2>2, <2>9 DEF ReadFragment
    <3>2. Ends(f)
      BY <2>9 DEF Ends
    <3>3. /\ Len(got') = fragments[f].record
          /\ \A j \in DOMAIN got' : /\ RecordOf(got[j])' = j
                                    /\ j \in DOMAIN complete /\ complete[j].end <= Len(file)
      BY <1>0, <1>2, <1>13, <2>7, <3>1, <3>2, OneReturned
    <3> QED
      BY <1>14, <3>1, <3>2, <3>3
  <2> QED
    BY <1>19, <2>8, <2>9
<1> QED
  BY <1>1, <1>17, <1>18, <1>19 DEF Types

LEMMA OrderStep ==
  ASSUME SizesAssumption, MixInv, MixInv', NothingFailed, [Next]_vars PROVE NothingFailed'
<1>0. LogType /\ WriterInv /\ LogType'
  BY DEF MixInv
<1>1. ASSUME NEW size \in Sizes, AddRecord(size) PROVE NothingFailed'
  BY <1>0, <1>1, AddInOrder
<1>2. CASE EmitPhysicalRecord
  BY <1>0, <1>2, EmitInOrder
<1>3. ASSUME NEW n \in 0 .. BlockSize, EmitFails(n) PROVE NothingFailed'
  <2>1. failures' = failures + 1 /\ failures \in Nat
    BY <1>0, <1>3 DEF EmitFails, LogType
  <2>2. failures' # 0
    BY <2>1
  <2> QED
    BY <2>2 DEF NothingFailed
<1>8. ASSUME NEW m \in 0 .. HeaderSize, FillFails(m) PROVE NothingFailed'
  <2>1. failures' = failures + 1 /\ failures \in Nat
    BY <1>0, <1>8 DEF FillFails, LogType
  <2>2. failures' # 0
    BY <2>1
  <2> QED
    BY <2>2 DEF NothingFailed
<1>4. ASSUME NEW bytes \in 0 .. Len(file), Crash(bytes) PROVE NothingFailed'
  BY <1>0, <1>4, CrashInOrder
<1>5. CASE SkipTrailer
  BY <1>5, SkipInOrder
<1>6. CASE ReadPhysicalRecord
  <2>1. ASSUME NEW f \in Here, ReadFragment(f) PROVE NothingFailed'
    BY <1>6, <2>1, FragmentInOrder
  <2>2. CASE Here = {} /\ BadRecord
    BY <1>6, <2>2, BadInOrder
  <2> QED
    BY <1>6, <2>1, <2>2 DEF ReadPhysicalRecord
<1>7. CASE UNCHANGED vars
  <2>1. /\ file' = file /\ fragments' = fragments /\ complete' = complete
        /\ blockOffset' = blockOffset /\ failures' = failures
        /\ left' = left /\ begin' = begin /\ added' = added
        /\ at' = at /\ scratch' = scratch /\ got' = got
    BY <1>7 DEF vars, writer, reader
  <2> SUFFICES ASSUME failures = 0 PROVE NothingFailed'
    BY <2>1 DEF NothingFailed
  <2>2. Numbered /\ Unbroken /\ Following /\ Answered /\ Appending /\ ReadInOrder
    BY DEF NothingFailed
  <2>3. /\ \A f : Size(f)' = Size(f) /\ (Starts(f)' <=> Starts(f)) /\ (Ends(f)' <=> Ends(f))
        /\ \A s : RecordOf(s)' = RecordOf(s)
    BY <2>1 DEF Size, Starts, Ends, RecordOf
  <2>4. \A f, e : LastByte(f, e)' <=> LastByte(f, e)
    BY <2>1, <2>3 DEF LastByte
  <2>5. Numbered'
    BY <2>1, <2>2, <2>3 DEF Numbered, Ends
  <2>6. Unbroken'
    BY <2>1, <2>2, <2>3 DEF Unbroken, End
  <2>7. Following'
    BY <2>1, <2>2, <2>4 DEF Following, End
  <2>8. Answered'
    BY <2>1, <2>2, <2>3, <2>4 DEF Answered
  <2>9. Appending'
    BY <2>1, <2>2 DEF Appending, End, LastByte, Size
  <2>10. AllRead' <=> AllRead
    BY <2>1 DEF AllRead
  <2>11. \A g, e : Read(g, e) => Read(g, e)'
    BY <2>1, <2>3, <2>4 DEF Read, End
  <2>12. ReadInOrder'
    BY <2>1, <2>2, <2>10, <2>11 DEF ReadInOrder, RecordOf
  <2> QED
    BY <2>5, <2>6, <2>7, <2>8, <2>9, <2>12 DEF NothingFailed
<1> QED
  BY <1>1, <1>2, <1>3, <1>4, <1>5, <1>6, <1>7, <1>8 DEF Next

LEMMA EachIsRead ==
  ASSUME SizesAssumption, MixInv, NothingFailed PROVE CompleteRecordsAreRead
<1> SUFFICES ASSUME at = Eof, failures = 0
             PROVE  /\ DOMAIN got = {j \in DOMAIN complete : complete[j].end <= Len(file)}
                    /\ \A j \in DOMAIN got : RecordOf(got[j]) = complete[j].record
  BY DEF CompleteRecordsAreRead
<1>1. /\ \A j \in DOMAIN got : /\ RecordOf(got[j]) = j
                               /\ j \in DOMAIN complete /\ complete[j].end <= Len(file)
      /\ AllRead
      /\ \A j \in DOMAIN complete : complete[j].record = j
  BY DEF NothingFailed, ReadInOrder, Answered
<1>2. /\ Len(got) \in Nat /\ DOMAIN got = 1 .. Len(got)
      /\ Len(complete) \in Nat /\ DOMAIN complete = 1 .. Len(complete)
  BY DEF MixInv, LogType
<1>3. ASSUME NEW j \in DOMAIN complete, complete[j].end <= Len(file) PROVE j \in DOMAIN got
  <2>1. complete[j].end \in Nat /\ Len(file) \in Nat
    <3> DEFINE R == [record : Nat, end : Nat]
    <3>1. complete \in Seq(R) /\ Len(file) \in Nat
      BY DEF MixInv, LogType
    <3> HIDE DEF R
    <3>2. complete[j] \in R
      BY <3>1
    <3> QED
      BY <3>1, <3>2 DEF R
  <2>2. ~(j > Len(got))
    BY <1>1, <1>3, <2>1 DEF AllRead
  <2> QED
    BY <1>2, <2>2
<1> QED
  BY <1>1, <1>3

(* If no append failed, a reader that has come to the end of what a crash  *)
(* left of the file returned exactly the records whose last byte is there. *)
THEOREM NoneIsMissed ==
  ASSUME SizesAssumption PROVE Spec => []CompleteRecordsAreRead
<1>1. Init => MixInv /\ NothingFailed
  BY MixInit, OrderInit
<1>2. MixInv /\ [Next]_vars => MixInv'
  BY MixStep
<1>3. MixInv /\ MixInv' /\ NothingFailed /\ [Next]_vars => NothingFailed'
  BY OrderStep
<1>4. MixInv /\ NothingFailed => CompleteRecordsAreRead
  BY EachIsRead
<1> QED
  BY <1>1, <1>2, <1>3, <1>4, PTL DEF Spec
=============================================================================
