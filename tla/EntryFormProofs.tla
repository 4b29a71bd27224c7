-------------------------- MODULE EntryFormProofs --------------------------
(* The entry forms, for any devices, documents, texts and numbers of forms *)
(* and changes: what is stored is what one user confirmed on one form, with*)
(* the grade of its mark.                                                  *)
EXTENDS EntryForm, FlattenProofs

(* One of some forms was confirmed with these values for document k.       *)
Seen(k, entry, forms) ==
  \E c \in forms : c.doc = k /\ \A f \in Fields(k) : Says(c.text, f, entry[f])

(* A write of a mark holds both its numbers and their grade.               *)
WholeMark(w) ==
  w.doc \in Assignments =>
    {"credit", "totalcredit", "grade"} \subseteq DOMAIN w.fields /\ OwnGrade(w.fields)

(* Of GradeOfItsMark: the server's entries, or those a device shows.       *)
Marks(db) ==
  /\ DOMAIN db = Docs
  /\ \A k \in Assignments : db[k] # None => OwnGrade(db[k])

(* A write holds all fields of its document, as some user confirmed them.  *)
Faithful(w, forms) ==
  /\ w.doc \in Docs
  /\ Fields(w.doc) \subseteq DOMAIN w.fields
  /\ w.fields["name"] # Empty
  /\ Seen(w.doc, w.fields, forms)
  /\ WholeMark(w)

IsSeq(q) == \E S : q \in Seq(S)

Queues ==
  /\ DOMAIN queue = Devices
  /\ \A d \in Devices :
       IsSeq(queue[d]) /\ \A i \in 1 .. Len(queue[d]) : Faithful(queue[d][i], confirmed)

(* A record with the fields of a form.                                     *)
IsForm(f) ==
  DOMAIN f = {"doc", "mode", "holder", "text", "isEnabled", "typed"}

Rows == DOMAIN row = Devices /\ \A d \in Devices : Marks(row[d])

(* An enabled form has no empty field.                                     *)
Forms ==
  /\ DOMAIN form = Devices
  /\ \A d \in Devices : form[d] # None =>
       /\ IsForm(form[d])
       /\ form[d].doc \in Docs
       /\ DOMAIN form[d].text = Fields(form[d].doc)
       /\ form[d].isEnabled => ~textFieldsAreEmpty(form[d].text)

IInv ==
  /\ Marks(server)
  /\ Rows
  /\ Queues
  /\ Forms
  /\ NoMixture
  /\ NothingEmpty

LEMMA EmptyIsSeq == IsSeq(<<>>) /\ Len(<<>>) = 0
<1>1. <<>> \in Seq({})
  OBVIOUS
<1> QED
  BY <1>1 DEF IsSeq

LEMMA AppendIsSeq ==
  ASSUME NEW q, IsSeq(q), NEW w
  PROVE  /\ IsSeq(Append(q, w)) /\ Len(q) \in Nat /\ Len(Append(q, w)) = Len(q) + 1
         /\ \A i \in 1 .. Len(q) + 1 :
              Append(q, w)[i] = IF i = Len(q) + 1 THEN w ELSE q[i]
<1>1. PICK S : q \in Seq(S)
  BY DEF IsSeq
<1>2. q \in Seq(S \cup {w}) /\ w \in S \cup {w}
  BY <1>1
<1>3. Append(q, w) \in Seq(S \cup {w})
  BY <1>2
<1>4. IsSeq(Append(q, w))
  BY <1>3 DEF IsSeq
<1> QED
  BY <1>2, <1>4, AppendProperties

LEMMA TailIsSeq ==
  ASSUME NEW q, IsSeq(q), q # <<>>
  PROVE  /\ IsSeq(Tail(q)) /\ Len(Tail(q)) = Len(q) - 1 /\ Len(q) \in Nat
         /\ 1 \in 1 .. Len(q) /\ Head(q) = q[1]
         /\ \A i \in 1 .. Len(q) - 1 : Tail(q)[i] = q[i + 1]
<1>1. PICK S : q \in Seq(S)
  BY DEF IsSeq
<1>2. Tail(q) \in Seq(S)
  BY <1>1
<1> QED
  BY <1>1, <1>2 DEF IsSeq

LEMMA InitIInv == Init => IInv
<1> SUFFICES ASSUME Init PROVE IInv
  OBVIOUS
<1>1. \A d \in Devices : queue[d] = <<>> /\ form[d] = None
  BY DEF Init
<1>2. \A k \in Docs : server[k] = None
  BY DEF Init
<1>3. Queues /\ Forms
  BY <1>1, EmptyIsSeq DEF Init, Queues, Forms
<1>4. NoMixture /\ NothingEmpty
  BY <1>2 DEF Init, NoMixture, NothingEmpty
<1>5. Marks(server) /\ Rows
  BY DEF Init, Marks, Rows, Docs
<1> QED
  BY <1>3, <1>4, <1>5 DEF IInv

(* A write replaces a mark and its grade together.                         *)
LEMMA WrittenKeepsMarks ==
  ASSUME NEW db, Marks(db), NEW w, w.doc \in Docs, WholeMark(w)
  PROVE  Marks(Written(db, w))
<1> DEFINE k == w.doc
           after == Written(db, w)
<1>1. DOMAIN after = Docs /\ \A j \in Docs \ {k} : after[j] = db[j]
  BY DEF Written, Marks
<1>2. ASSUME k \in Assignments, after[k] # None PROVE OwnGrade(after[k])
  <2>1. {"credit", "totalcredit", "grade"} \subseteq DOMAIN w.fields /\ OwnGrade(w.fields)
    BY <1>2 DEF WholeMark
  <2>2. CASE w.set
    BY <2>1, <2>2 DEF Written, Marks
  <2>3. CASE ~w.set /\ db[k] = None
    BY <1>2, <2>3 DEF Written
  <2>4. CASE ~w.set /\ db[k] # None
    <3>1. after[k] = Over(w.fields, db[k])
      BY <2>4 DEF Written, Marks
    <3>2. \A f \in DOMAIN w.fields : Over(w.fields, db[k])[f] = w.fields[f]
      BY DEF Over
    <3> HIDE DEF after
    <3> QED
      BY <2>1, <3>1, <3>2 DEF OwnGrade
  <2> QED
    BY <2>2, <2>3, <2>4
<1> QED
  BY <1>1, <1>2 DEF Marks, Docs

(* The recursion by which FoldLeft goes through the writes under way, from *)
(* the last of those to do.                                                *)
Fold(g, all, db, q) ==
  g = [s \in all |->
         IF s = {} THEN db ELSE Written(g[s \ {Max(s)}], q[Max(s)])]

LEMMA RefreshIsFold ==
  ASSUME NEW db, NEW q
  PROVE  FoldLeft(Written, db, q) =
           (CHOOSE g : Fold(g, SUBSET DOMAIN q, db, q))[DOMAIN q]
BY DEF FoldLeft, MapThenFoldSet, Fold

LEMMA WithoutGreatest ==
  ASSUME NEW k \in Nat, NEW s \in SUBSET (1 .. k + 1), s # {}
  PROVE  Max(s) \in 1 .. k + 1 /\ s \ {Max(s)} \in SUBSET (1 .. k)
<1>1. k + 1 \in Nat
  OBVIOUS
<1>2. Max(s) \in s /\ \A y \in s : Max(s) >= y
  BY <1>1, GreatestIs
<1>3. ASSUME NEW y \in s \ {Max(s)} PROVE y \in 1 .. k
  <2>1. Max(s) \in 1 .. k + 1 /\ y \in 1 .. k + 1 /\ Max(s) >= y /\ Max(s) # y
    BY <1>2, <1>3
  <2> QED
    BY <2>1
<1> QED
  BY <1>2, <1>3

(* The recursion has a solution.                                           *)
LEMMA FoldExists ==
  ASSUME NEW db, NEW q, NEW n \in Nat
  PROVE  \E g : Fold(g, SUBSET (1 .. n), db, q)
<1> DEFINE After(g, s) == IF s = {} THEN db ELSE Written(g[s \ {Max(s)}], q[Max(s)])
           T == {k \in Nat : \E g : Fold(g, SUBSET (1 .. k), db, q)}
<1>1. 0 \in T
  <2> DEFINE g == [s \in SUBSET (1 .. 0) |-> db]
  <2>1. SUBSET (1 .. 0) = {{}}
    OBVIOUS
  <2>2. Fold(g, SUBSET (1 .. 0), db, q)
    BY <2>1 DEF Fold
  <2> QED
    BY <2>2
<1>2. ASSUME NEW k \in Nat, k \in T PROVE k + 1 \in T
  <2>1. PICK g : Fold(g, SUBSET (1 .. k), db, q)
    BY <1>2
  <2> DEFINE h == [s \in SUBSET (1 .. k + 1) |-> After(g, s)]
  <2>2. \A s \in SUBSET (1 .. k) : h[s] = g[s]
    <3> TAKE s \in SUBSET (1 .. k)
    <3>1. s \in SUBSET (1 .. k + 1)
      OBVIOUS
    <3>2. h[s] = After(g, s)
      BY <3>1
    <3>3. g[s] = After(g, s)
      BY <2>1 DEF Fold
    <3> QED
      BY <3>2, <3>3
  <2>3. \A s \in SUBSET (1 .. k + 1) : After(g, s) = After(h, s)
    <3> HIDE DEF h, T
    <3> QED
      BY <2>2, WithoutGreatest
  <2>4. h = [s \in SUBSET (1 .. k + 1) |-> After(h, s)]
    BY <2>3
  <2>5. Fold(h, SUBSET (1 .. k + 1), db, q)
    <3> HIDE DEF h
    <3> QED
      BY <2>4 DEF Fold
  <2> HIDE DEF h
  <2> QED
    BY <2>5
<1> QED
  <2> HIDE DEF T
  <2>1. n \in T
    BY <1>1, <1>2, SetInduction
  <2> QED
    BY <2>1 DEF T

(* The entries a device shows: the server's, with any number of writes.    *)
LEMMA FoldKeepsMarks ==
  ASSUME NEW db, Marks(db), NEW q, IsSeq(q),
         \A i \in 1 .. Len(q) : q[i].doc \in Docs /\ WholeMark(q[i])
  PROVE  Marks(FoldLeft(Written, db, q))
<1> DEFINE n == Len(q)
           f == CHOOSE g : Fold(g, SUBSET (1 .. n), db, q)
           T == {k \in Nat : k <= n => \A s \in SUBSET (1 .. k) : Marks(f[s])}
<1>1. n \in Nat /\ DOMAIN q = 1 .. n
  BY DEF IsSeq
<1>2. Fold(f, SUBSET (1 .. n), db, q)
  BY <1>1, FoldExists
<1>3. FoldLeft(Written, db, q) = f[1 .. n]
  <2>1. FoldLeft(Written, db, q) = (CHOOSE g : Fold(g, SUBSET DOMAIN q, db, q))[DOMAIN q]
    BY RefreshIsFold
  <2> QED
    BY <1>1, <2>1, Zenon
<1>4. \A i \in 1 .. n : q[i].doc \in Docs /\ WholeMark(q[i])
  OBVIOUS
<1> HIDE DEF f, n
<1>5. \A s \in SUBSET (1 .. n) :
        f[s] = IF s = {} THEN db ELSE Written(f[s \ {Max(s)}], q[Max(s)])
  BY <1>2 DEF Fold
<1>6. 0 \in T
  <2>1. SUBSET (1 .. 0) = {{}} /\ {} \in SUBSET (1 .. n)
    OBVIOUS
  <2> QED
    BY <1>5, <2>1
<1>7. ASSUME NEW k \in Nat, k \in T PROVE k + 1 \in T
  <2> SUFFICES ASSUME k + 1 <= n PROVE \A s \in SUBSET (1 .. k + 1) : Marks(f[s])
    <3>1. k + 1 \in Nat
      OBVIOUS
    <3> QED
      BY <3>1, Zenon
  <2> TAKE s \in SUBSET (1 .. k + 1)
  <2>1. s \in SUBSET (1 .. n) /\ k <= n
    BY <1>1
  <2>2. CASE s = {}
    BY <1>5, <2>1, <2>2
  <2>3. CASE s # {}
    <3> DEFINE m == Max(s)
    <3>1. m \in 1 .. k + 1 /\ s \ {m} \in SUBSET (1 .. k)
      <4> HIDE DEF T
      <4> QED
        BY <2>3, WithoutGreatest
    <3> HIDE DEF m
    <3>2. Marks(f[s \ {m}])
      BY <1>7, <2>1, <3>1
    <3>3. m \in 1 .. n /\ q[m].doc \in Docs /\ WholeMark(q[m])
      BY <1>1, <1>4, <3>1
    <3>4. f[s] = Written(f[s \ {m}], q[m])
      BY <1>5, <2>1, <2>3 DEF m
    <3> QED
      BY <3>2, <3>3, <3>4, WrittenKeepsMarks
  <2> QED
    BY <2>2, <2>3
<1>8. n \in T
  <2> HIDE DEF T
  <2> QED
    BY <1>1, <1>6, <1>7, SetInduction
<1> QED
  BY <1>1, <1>3, <1>8

(* What was confirmed stays confirmed.                                     *)
LEMMA FaithfulStays ==
  ASSUME NEW forms, NEW more, forms \subseteq more, NEW w, Faithful(w, forms)
  PROVE  Faithful(w, more)
BY DEF Faithful, Seen

(* Steps that leave the entries alone, but for the form of one device.     *)
LEMMA FormStep ==
  ASSUME IInv, NEW d \in Devices, NEW f,
         form' = [form EXCEPT ![d] = f],
         f # None => /\ IsForm(f) /\ f.doc \in Docs
                     /\ DOMAIN f.text = Fields(f.doc)
                     /\ f.isEnabled => ~textFieldsAreEmpty(f.text),
         UNCHANGED <<server, queue, row, confirmed>>
  PROVE  IInv'
<1>1. Forms'
  BY DEF IInv, Forms
<1>2. Queues'
  BY DEF IInv, Queues
<1>3. NoMixture' /\ NothingEmpty' /\ Marks(server') /\ Rows'
  BY DEF IInv, NoMixture, NothingEmpty, Rows
<1> QED
  BY <1>1, <1>2, <1>3 DEF IInv

(* The server keeps its entry, or has that of a write, all of its fields.  *)
LEMMA CommitKeeps ==
  ASSUME IInv, NEW d \in Devices, Commit(d) PROVE IInv'
<1> DEFINE w == Head(queue[d])
           k == w.doc
<1>1. /\ queue[d] # <<>> /\ server' = Written(server, w)
      /\ queue' = [queue EXCEPT ![d] = Tail(@)] /\ UNCHANGED <<row, form, confirmed>>
  BY DEF Commit
<1>2. /\ IsSeq(queue[d]) /\ \A i \in 1 .. Len(queue[d]) : Faithful(queue[d][i], confirmed)
      /\ DOMAIN queue = Devices
  BY DEF IInv, Queues
<1>3. Faithful(w, confirmed)
  BY <1>1, <1>2, TailIsSeq
<1> HIDE DEF w
<1>4. /\ k \in Docs /\ Fields(k) \subseteq DOMAIN w.fields /\ "name" \in Fields(k)
      /\ w.fields["name"] # Empty /\ Seen(k, w.fields, confirmed) /\ WholeMark(w)
  BY <1>3 DEF Faithful, Fields
<1>5. DOMAIN server' = Docs /\ \A j \in Docs \ {k} : server'[j] = server[j]
  BY <1>1, <1>4 DEF IInv, Marks, Written
<1>6. \/ server'[k] = server[k]
      \/ \A f \in Fields(k) : server'[k][f] = w.fields[f]
  <2>1. CASE w.set
    BY <2>1, <1>1, <1>4 DEF IInv, Marks, Written
  <2>2. CASE ~w.set /\ server[k] = None
    BY <2>2, <1>1 DEF Written
  <2>3. CASE ~w.set /\ server[k] # None
    <3>1. server'[k] = Over(w.fields, server[k])
      BY <2>3, <1>1, <1>4 DEF IInv, Marks, Written
    <3>2. \A f \in Fields(k) : Over(w.fields, server[k])[f] = w.fields[f]
      BY <1>4 DEF Over
    <3> QED
      BY <3>1, <3>2
  <2> QED
    BY <2>1, <2>2, <2>3
<1>7. NoMixture'
  <2> SUFFICES ASSUME NEW j \in Docs, server'[j] # None PROVE Seen(j, server'[j], confirmed)
    BY <1>1 DEF NoMixture, Seen
  <2>1. CASE server'[j] = server[j]
    BY <2>1 DEF IInv, NoMixture, Seen
  <2>2. CASE j = k /\ \A f \in Fields(k) : server'[k][f] = w.fields[f]
    BY <2>2, <1>4 DEF Seen
  <2> QED
    BY <2>1, <2>2, <1>5, <1>6
<1>8. NothingEmpty'
  BY <1>1, <1>4, <1>5, <1>6 DEF IInv, NothingEmpty
<1>9. Queues'
  <2>1. \A e \in Devices : IsSeq(queue'[e]) /\ \A i \in 1 .. Len(queue'[e]) : Faithful(queue'[e][i], confirmed)
    <3>1. \A e \in Devices \ {d} : queue'[e] = queue[e]
      BY <1>1, <1>2
    <3>2. queue'[d] = Tail(queue[d])
      BY <1>1, <1>2
    <3>3. IsSeq(queue'[d]) /\ \A i \in 1 .. Len(queue'[d]) : Faithful(queue'[d][i], confirmed)
      BY <3>2, <1>1, <1>2, TailIsSeq
    <3> QED
      BY <3>1, <3>3 DEF IInv, Queues
  <2>2. DOMAIN queue' = Devices
    BY <1>1, <1>2
  <2> QED
    BY <2>1, <2>2, <1>1 DEF Queues
<1>10. Forms' /\ Rows'
  BY <1>1 DEF IInv, Forms, Rows
<1>11. Marks(server')
  BY <1>1, <1>4, WrittenKeepsMarks DEF IInv
<1> QED
  BY <1>11, <1>7, <1>8, <1>9, <1>10 DEF IInv

(* The write of a confirmed form joins the writes under way.               *)
LEMMA StoreKeeps ==
  ASSUME IInv, NEW d \in Devices, NEW fields, Store(d, fields),
         form[d] # None, form[d].isEnabled,
         Fields(form[d].doc) \subseteq DOMAIN fields,
         \A f \in Fields(form[d].doc) : Says(form[d].text, f, fields[f]),
         form[d].doc \in Assignments =>
           {"credit", "totalcredit", "grade"} \subseteq DOMAIN fields /\ OwnGrade(fields)
  PROVE  IInv'
<1> DEFINE k == form[d].doc
           text == form[d].text
           w == [doc |-> k, fields |-> fields, set |-> form[d].mode = "new"]
           c == [doc |-> k, text |-> text]
<1>1. /\ queue' = [queue EXCEPT ![d] = Append(@, w)]
      /\ form' = [form EXCEPT ![d] = None]
      /\ confirmed' = confirmed \cup {c} /\ server' = server
      /\ row' = [row EXCEPT ![d] = Written(@, w)]
  BY DEF Store
<1>2. /\ k \in Docs /\ DOMAIN text = Fields(k) /\ "name" \in Fields(k)
      /\ ~textFieldsAreEmpty(text)
  BY DEF IInv, Forms, Fields
<1>3. text["name"] # Empty /\ fields["name"] # Empty
  BY <1>2 DEF textFieldsAreEmpty, Says
<1>4. Faithful(w, confirmed')
  <2>1. Seen(k, fields, confirmed')
    <3>1. c \in confirmed' /\ c.doc = k /\ c.text = text
      BY <1>1
    <3>2. \A f \in Fields(k) : Says(c.text, f, fields[f])
      BY <3>1
    <3> QED
      BY <3>1, <3>2 DEF Seen
  <2> QED
    BY <2>1, <1>2, <1>3 DEF Faithful, WholeMark
<1> HIDE DEF w
<1>5. Queues'
  <2>1. /\ DOMAIN queue' = Devices /\ queue'[d] = Append(queue[d], w)
        /\ \A e \in Devices \ {d} : queue'[e] = queue[e]
    BY <1>1 DEF IInv, Queues
  <2>2. \A e \in Devices \ {d} : \A i \in 1 .. Len(queue[e]) : Faithful(queue[e][i], confirmed')
    BY <1>1, FaithfulStays DEF IInv, Queues
  <2>3. /\ IsSeq(queue'[d])
        /\ \A i \in 1 .. Len(queue'[d]) : Faithful(queue'[d][i], confirmed')
    <3>1. IsSeq(queue[d]) /\ \A i \in 1 .. Len(queue[d]) : Faithful(queue[d][i], confirmed')
      BY <1>1, FaithfulStays DEF IInv, Queues
    <3>2. /\ IsSeq(queue'[d]) /\ Len(queue[d]) \in Nat /\ Len(queue'[d]) = Len(queue[d]) + 1
          /\ \A i \in 1 .. Len(queue[d]) + 1 :
               queue'[d][i] = IF i = Len(queue[d]) + 1 THEN w ELSE queue[d][i]
      BY <3>1, <2>1, AppendIsSeq
    <3> QED
      BY <3>1, <3>2, <1>4
  <2> QED
    BY <2>1, <2>2, <2>3 DEF IInv, Queues
<1>6. Forms'
  BY <1>1 DEF IInv, Forms
<1>7. NoMixture'
  BY <1>1 DEF IInv, NoMixture
<1>8. NothingEmpty' /\ Marks(server')
  BY <1>1, <1>2 DEF IInv, NothingEmpty
<1>9. Rows'
  <2>1. Marks(row[d]) /\ Marks(Written(row[d], w))
    BY <1>4, WrittenKeepsMarks DEF IInv, Rows, Faithful
  <2> QED
    BY <2>1, <1>1 DEF IInv, Rows
<1> QED
  BY <1>5, <1>6, <1>7, <1>8, <1>9 DEF IInv

(* A text is typed: the form is as good as its confirm button says.        *)
LEMMA TypeKeeps ==
  ASSUME IInv, NEW d \in Devices, NEW field, NEW t, Type(d, field, t) PROVE IInv'
<1> DEFINE g == form[d]
           text == [g.text EXCEPT ![field] = t]
           b == editDidBegin(g, text)
           n == g.typed + 1
           f == [g EXCEPT !.text = text, !.isEnabled = b, !.typed = n]
<1>1. /\ form[d] # None /\ UNCHANGED <<server, queue, row, confirmed>>
      /\ form' = [form EXCEPT ![d] = f]
  BY DEF Type
<1>2. IsForm(g) /\ g.doc \in Docs /\ DOMAIN g.text = Fields(g.doc) /\ DOMAIN form = Devices
  BY <1>1 DEF IInv, Forms
<1>3. DOMAIN text = Fields(g.doc)
  BY <1>2
<1>4. b => ~textFieldsAreEmpty(text)
  BY DEF editDidBegin
<1> HIDE DEF g, text, b, n
<1>5. /\ f.doc = g.doc /\ f.mode = g.mode /\ f.holder = g.holder
      /\ f.text = text /\ f.typed = n
  BY <1>2 DEF IsForm
<1>6. f.isEnabled = b
  BY <1>2, Zenon DEF IsForm
<1>7. IsForm(f)
  BY <1>2 DEF IsForm
<1> HIDE DEF f
<1> QED
  BY <1>1, <1>2, <1>3, <1>4, <1>5, <1>6, <1>7, FormStep
-----------------------------------------------------------------------------
LEMMA StepKeepsIInv ==
  ASSUME DocsAssumption, IInv, [Next]_vars PROVE IInv'
<1>1. ASSUME NEW d \in Devices, NEW k \in Docs, NewForm(d, k) PROVE IInv'
  <2> DEFINE f == [doc |-> k, mode |-> "new", holder |-> [x \in Fields(k) |-> Empty],
                   text |-> [x \in Fields(k) |-> Empty], isEnabled |-> FALSE, typed |-> 0]
  <2>1. form' = [form EXCEPT ![d] = f] /\ UNCHANGED <<server, queue, row, confirmed>>
    BY <1>1 DEF NewForm
  <2>2. IsForm(f) /\ f.doc = k /\ DOMAIN f.text = Fields(k) /\ ~f.isEnabled
    BY DEF IsForm
  <2> HIDE DEF f
  <2> QED
    BY <2>1, <2>2, FormStep
<1>2. ASSUME NEW d \in Devices, NEW k \in Docs, EditForm(d, k) PROVE IInv'
  <2> DEFINE h == Holders(k, row[d][k])
             f == [doc |-> k, mode |-> "edit", holder |-> h, text |-> h,
                   isEnabled |-> FALSE, typed |-> 0]
  <2>1. form' = [form EXCEPT ![d] = f] /\ UNCHANGED <<server, queue, row, confirmed>>
    BY <1>2 DEF EditForm
  <2>2. DOMAIN h = Fields(k)
    BY DEF Holders
  <2> HIDE DEF h
  <2>3. IsForm(f) /\ f.doc = k /\ DOMAIN f.text = Fields(k) /\ ~f.isEnabled
    BY <2>2 DEF IsForm
  <2> HIDE DEF f
  <2> QED
    BY <2>1, <2>3, FormStep
<1>3. ASSUME NEW d \in Devices, NEW field, NEW t, Type(d, field, t) PROVE IInv'
  BY <1>3, TypeKeeps
<1>4. ASSUME NEW d \in Devices, form' = [form EXCEPT ![d] = None],
             UNCHANGED <<server, queue, row, confirmed>>
      PROVE  IInv'
  BY <1>4, FormStep
<1>5. ASSUME NEW d \in Devices, closeView(d) \/ ConfirmAssignmentFails(d) PROVE IInv'
  BY <1>4, <1>5 DEF closeView, ConfirmAssignmentFails
<1>6. ASSUME NEW d \in Devices, ConfirmCategory(d) PROVE IInv'
  <2> DEFINE text == form[d].text
             fields == [name   |-> text["name"],
                        weight |-> Default(Double[text["weight"]], 0)]
  <2>1. /\ form[d] # None /\ form[d].doc \in Categories /\ form[d].isEnabled
        /\ Store(d, fields)
    BY <1>6 DEF ConfirmCategory
  <2>2. /\ Fields(form[d].doc) = {"name", "weight"} /\ DOMAIN fields = {"name", "weight"}
        /\ form[d].doc \notin Assignments
    BY <2>1 DEF Fields, Numeric, DocsAssumption
  <2>3. Says(text, "name", fields["name"]) /\ Says(text, "weight", fields["weight"])
    BY DEF Says, Default
  <2> HIDE DEF fields
  <2>4. \A f \in Fields(form[d].doc) : Says(form[d].text, f, fields[f])
    BY <2>2, <2>3
  <2> QED
    BY <2>1, <2>2, <2>4, StoreKeeps
<1>7. ASSUME NEW d \in Devices, ConfirmAssignment(d) PROVE IInv'
  <2> DEFINE text == form[d].text
             marked == Marked(text)
             fields == Graded(marked)
  <2>1. /\ form[d] # None /\ form[d].doc \in Assignments /\ form[d].isEnabled
        /\ nil \notin {Double[text["credit"]], Double[text["totalcredit"]]}
        /\ Store(d, fields)
    BY <1>7 DEF ConfirmAssignment
  <2>2. Fields(form[d].doc) = {"name", "credit", "totalcredit"}
    BY <2>1 DEF Fields, Numeric, DocsAssumption
  <2>3. /\ DOMAIN marked = {"name", "credit", "totalcredit"}
        /\ marked["name"] = text["name"]
        /\ marked["credit"] = Double[text["credit"]]
        /\ marked["totalcredit"] = Double[text["totalcredit"]]
    BY <2>1 DEF Marked, Default
  <2> HIDE DEF marked
  <2>4. /\ {"name", "credit", "totalcredit"} \subseteq DOMAIN fields
        /\ fields["name"] = marked["name"] /\ fields["credit"] = marked["credit"]
        /\ fields["totalcredit"] = marked["totalcredit"]
    BY <2>3 DEF Graded, Over
  <2>6. "grade" \in DOMAIN fields /\ OwnGrade(fields)
    <3>1. /\ "grade" \in DOMAIN fields
          /\ fields["grade"] = AssignmentGrade([credit |-> marked["credit"],
                                                total  |-> marked["totalcredit"]])
      BY <2>3 DEF Graded, Over
    <3> HIDE DEF fields
    <3> QED
      BY <3>1, <2>4 DEF OwnGrade
  <2> HIDE DEF fields
  <2>5. \A f \in Fields(form[d].doc) : Says(form[d].text, f, fields[f])
    BY <2>2, <2>3, <2>4 DEF Says
  <2> QED
    BY <2>1, <2>2, <2>4, <2>5, <2>6, StoreKeeps
<1>8. ASSUME NEW d \in Devices, Commit(d) PROVE IInv'
  BY <1>8, CommitKeeps
<1>9. ASSUME UNCHANGED <<server, queue, form, confirmed>>, Rows' PROVE IInv'
  BY <1>9 DEF IInv, Queues, Forms, NoMixture, NothingEmpty
<1>10. ASSUME NEW d \in Devices, Refresh(d) PROVE IInv'
  <2>1. /\ row' = [row EXCEPT ![d] = FoldLeft(Written, server, queue[d])]
        /\ UNCHANGED <<server, queue, form, confirmed>>
    BY <1>10 DEF Refresh
  <2>2. Marks(FoldLeft(Written, server, queue[d]))
    <3>1. /\ Marks(server) /\ IsSeq(queue[d])
          /\ \A i \in 1 .. Len(queue[d]) :
               queue[d][i].doc \in Docs /\ WholeMark(queue[d][i])
      BY DEF IInv, Queues, Faithful
    <3> QED
      BY <3>1, FoldKeepsMarks
  <2>3. Rows'
    BY <2>1, <2>2 DEF IInv, Rows
  <2> QED
    BY <2>1, <2>3, <1>9
<1>11. CASE UNCHANGED vars
  BY <1>9, <1>11 DEF vars, IInv, Rows
<1> QED
  BY <1>1, <1>2, <1>3, <1>5, <1>6, <1>7, <1>8, <1>10, <1>11 DEF Next

LEMMA Invariance == ASSUME DocsAssumption PROVE Spec => []IInv
<1>1. IInv /\ [Next]_vars => IInv'
  BY StepKeepsIInv
<1> QED
  BY <1>1, InitIInv, PTL DEF Spec

(* Whatever devices edit at once, an entry is what one user confirmed on   *)
(* one form.                                                               *)
THEOREM OneUsersEntry == ASSUME DocsAssumption PROVE Spec => []NoMixture
<1>1. IInv => NoMixture
  BY DEF IInv
<1> QED
  BY <1>1, Invariance, PTL

(* No form with an empty field is confirmed, and no stored name is empty.  *)
THEOREM NamesAreNotEmpty == ASSUME DocsAssumption PROVE Spec => []NothingEmpty
<1>1. IInv => NothingEmpty
  BY DEF IInv
<1> QED
  BY <1>1, Invariance, PTL

(* The assgrade stored with a mark, and shown in any device's row, is that *)
(* of the mark.                                                            *)
THEOREM GradesAreOfTheirMarks == ASSUME DocsAssumption PROVE Spec => []GradeOfItsMark
<1>1. IInv => GradeOfItsMark
  BY DEF IInv, Rows, Marks, GradeOfItsMark
<1> QED
  BY <1>1, Invariance, PTL
=============================================================================
