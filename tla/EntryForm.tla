----------------------------- MODULE EntryForm -----------------------------
(***************************************************************************)
(* The forms for a category and for an assignment, from the text fields to *)
(* what is stored.  A form has a name field and numeric fields: the weight *)
(* of a category, the credit and totalcredit of an assignment.  In mode    *)
(* "new" it stores a document, in mode "edit" it writes all its fields over*)
(* the document of the row it was opened on.  That row, and so the text the*)
(* form starts from, may be out of date: other devices edit the same       *)
(* document, and every device's writes reach the server later, in order.   *)
(***************************************************************************)
EXTENDS Grades, SequencesExt

CONSTANTS
  Devices,
  Categories, Assignments,  \* the documents
  Names,       \* texts for the name field, one of them Empty
  Amounts,     \* texts for a numeric field, one of them Empty
  Empty,
  Double,       \* what Double(text) is for an amount: a natural, or nil
  nil,
  Text,        \* what String(number) is: its text
  None,        \* no document; no form
  MaxForms,    \* bound: forms opened
  MaxTyped     \* bound: texts typed into a form

Docs == Categories \cup Assignments

DocsAssumption == Categories \cap Assignments = {}

TextsAssumption ==
  /\ Empty \in Names \cap Amounts
  /\ Amounts \subseteq DOMAIN Double /\ \A t \in Amounts : Double[t] \in Nat \cup {nil}
  /\ Double[Empty] = nil
  /\ \A n \in DOMAIN Text : Text[n] \in Amounts /\ Double[Text[n]] = n

(* The numeric fields of the form for document k.                          *)
Numeric(k) == IF k \in Categories THEN {"weight"} ELSE {"credit", "totalcredit"}

Fields(k) == {"name"} \cup Numeric(k)

Accepts(field) == IF field = "name" THEN Names ELSE Amounts

VARIABLES
  server,     \* the stored entry of each document, a function of its fields
  queue,      \* queue[d]: the writes of d under way, <<document, fields, set>>
  row,        \* row[d]: the entries as the table of d shows them
  form,       \* form[d]: the form on the screen of d, or None
  confirmed,  \* history: what a form held when it was confirmed
  opened

vars == <<server, queue, row, form, confirmed, opened>>

(* The entry with the fields of update written over it.                    *)
Over(update, entry) ==
  [f \in DOMAIN entry \cup DOMAIN update |->
     IF f \in DOMAIN update THEN update[f] ELSE entry[f]]

Written(db, write) ==
  LET k == write.doc
  IN  IF write.set THEN [db EXCEPT ![k] = write.fields]
      ELSE IF db[k] = None THEN db
      ELSE [db EXCEPT ![k] = Over(write.fields, @)]
-----------------------------------------------------------------------------
(* The texts an edit form starts from: the holders set by the segue.       *)
Holders(k, entry) ==
  [f \in Fields(k) |-> IF f = "name" THEN entry[f] ELSE Text[entry[f]]]

NewForm(d, k) ==
  /\ form[d] = None
  /\ opened < MaxForms
  /\ row[d][k] = None /\ server[k] = None
  /\ \A e \in Devices : form[e] # None => form[e].doc # k
  /\ \A e \in Devices : \A i \in DOMAIN queue[e] : queue[e][i].doc # k
  /\ form' = [form EXCEPT ![d] =
       [doc |-> k, mode |-> "new", holder |-> [f \in Fields(k) |-> Empty],
        text |-> [f \in Fields(k) |-> Empty], isEnabled |-> FALSE, typed |-> 0]]
  /\ opened' = opened + 1
  /\ UNCHANGED <<server, queue, row, confirmed>>

EditForm(d, k) ==
  /\ form[d] = None
  /\ opened < MaxForms
  /\ row[d][k] # None
  /\ form' = [form EXCEPT ![d] =
       [doc |-> k, mode |-> "edit", holder |-> Holders(k, row[d][k]),
        text |-> Holders(k, row[d][k]), isEnabled |-> FALSE, typed |-> 0]]
  /\ opened' = opened + 1
  /\ UNCHANGED <<server, queue, row, confirmed>>

textFieldsAreNew(text, holder) == text # holder

textFieldsAreEmpty(text) == \E f \in DOMAIN text : text[f] = Empty

(* MUTANT of editDidBegin: an edit form may be confirmed with empty fields.*)
editDidBeginNewOnly(f, text) ==
  IF f.mode = "edit" THEN textFieldsAreNew(text, f.holder)
                     ELSE ~textFieldsAreEmpty(text)

(* Every change of a field decides again whether confirm is enabled.       *)
editDidBegin(f, text) ==
  /\ ~textFieldsAreEmpty(text)
  /\ f.mode = "edit" => textFieldsAreNew(text, f.holder)

Type(d, field, t) ==
  /\ form[d] # None
  /\ form[d].typed < MaxTyped
  /\ field \in Fields(form[d].doc)
  /\ t \in Accepts(field) \ {form[d].text[field]}
  /\ LET text == [form[d].text EXCEPT ![field] = t]
     IN  form' = [form EXCEPT ![d] =
                    [@ EXCEPT !.text = text, !.isEnabled = editDidBegin(form[d], text),
                              !.typed = form[d].typed + 1]]
  /\ UNCHANGED <<server, queue, row, confirmed, opened>>

closeView(d) ==
  /\ form[d] # None
  /\ form' = [form EXCEPT ![d] = None]
  /\ UNCHANGED <<server, queue, row, confirmed, opened>>

(* MUTANT of Store: an edit writes only the fields that were changed.      *)
StoreChanged(d, fields) ==
  LET f == form[d]
      unchanged == {x \in DOMAIN f.text :
                      f.mode = "edit" /\ f.text[x] = f.holder[x]}
      w == [doc |-> f.doc, fields |-> Restrict(fields, DOMAIN fields \ unchanged),
            set |-> f.mode = "new"]
  IN  /\ queue' = [queue EXCEPT ![d] = Append(@, w)]
      /\ row' = [row EXCEPT ![d] = Written(@, w)]
      /\ form' = [form EXCEPT ![d] = None]
      /\ confirmed' = confirmed \cup {[doc |-> f.doc, text |-> f.text]}
      /\ UNCHANGED <<server, opened>>

(* The form of d writes fields, and is dismissed.                          *)
Store(d, fields) ==
  LET f == form[d]
      w == [doc |-> f.doc, fields |-> fields, set |-> f.mode = "new"]
  IN  /\ queue' = [queue EXCEPT ![d] = Append(@, w)]
      /\ row' = [row EXCEPT ![d] = Written(@, w)]
      /\ form' = [form EXCEPT ![d] = None]
      /\ confirmed' = confirmed \cup {[doc |-> f.doc, text |-> f.text]}
      /\ UNCHANGED <<server, opened>>

Default(amount, default) == IF amount = nil THEN default ELSE amount

(* A weight that is not a number is stored as 0.                           *)
ConfirmCategory(d) ==
  /\ form[d] # None /\ form[d].doc \in Categories /\ form[d].isEnabled
  /\ LET text == form[d].text
     IN  Store(d, [name   |-> text["name"],
                   weight |-> Default(Double[text["weight"]], 0)])

Marked(text) ==
  [name |-> text["name"],
   credit |-> Default(Double[text["credit"]], 0),
   totalcredit |-> Default(Double[text["totalcredit"]], 1)]

Graded(entry) ==
  Over([grade |-> AssignmentGrade([credit |-> entry.credit,
                                   total  |-> entry.totalcredit])], entry)

(* The assgrade unwraps credit and totalcredit by force: when one is nil   *)
(* the process ends before it has written anything.                        *)
ConfirmAssignment(d) ==
  /\ form[d] # None /\ form[d].doc \in Assignments /\ form[d].isEnabled
  /\ LET text == form[d].text
     IN  /\ nil \notin {Double[text["credit"]], Double[text["totalcredit"]]}
         /\ Store(d, Graded(Marked(text)))

ConfirmAssignmentFails(d) ==
  /\ form[d] # None /\ form[d].doc \in Assignments /\ form[d].isEnabled
  /\ nil \in {Double[form[d].text["credit"]], Double[form[d].text["totalcredit"]]}
  /\ form' = [form EXCEPT ![d] = None]
  /\ UNCHANGED <<server, queue, row, confirmed, opened>>
-----------------------------------------------------------------------------
(* The server applies the oldest write of d.                               *)
Commit(d) ==
  /\ queue[d] # <<>>
  /\ server' = Written(server, Head(queue[d]))
  /\ queue' = [queue EXCEPT ![d] = Tail(@)]
  /\ UNCHANGED <<row, form, confirmed, opened>>

(* The listener of d shows the server's entries under its own writes.  An  *)
(* open form keeps the texts it has.                                       *)
Refresh(d) ==
  /\ row' = [row EXCEPT ![d] = FoldLeft(Written, server, queue[d])]
  /\ row' # row
  /\ UNCHANGED <<server, queue, form, confirmed, opened>>

Init ==
  /\ server = [k \in Docs |-> None]
  /\ queue = [d \in Devices |-> <<>>]
  /\ row = [d \in Devices |-> [k \in Docs |-> None]]
  /\ form = [d \in Devices |-> None]
  /\ confirmed = {}
  /\ opened = 0

Next ==
  \E d \in Devices :
    \/ \E k \in Docs : NewForm(d, k) \/ EditForm(d, k)
    \/ \E field \in {"name", "weight", "credit", "totalcredit"} :
         \E t \in Names \cup Amounts : Type(d, field, t)
    \/ ConfirmCategory(d) \/ ConfirmAssignment(d) \/ ConfirmAssignmentFails(d)
    \/ closeView(d) \/ Commit(d) \/ Refresh(d)

Spec == Init /\ [][Next]_vars
-----------------------------------------------------------------------------
(* What text says of the fields of an entry, and a weight of 0 for one     *)
(* that is not a number.                                                   *)
Says(text, f, value) ==
  IF f = "name" THEN value = text[f]
  ELSE \/ value = Double[text[f]]
       \/ f = "weight" /\ value = 0 /\ Double[text[f]] = nil

(* However the edits of several devices cross, what is stored under a      *)
(* document is what one user saw on one form and confirmed: the name of one*)
(* edit is never combined with the weight or the mark of another.          *)
(* A default for a credit or totalcredit that is no number, which nobody   *)
(* typed, is never stored.                                                 *)
NoMixture ==
  \A k \in Docs :
    server[k] # None =>
      \E c \in confirmed :
        c.doc = k /\ \A f \in Fields(k) : Says(c.text, f, server[k][f])

(* Nobody confirms a form with an empty field, and no name is ever empty.  *)
NothingEmpty ==
  /\ \A c \in confirmed : ~textFieldsAreEmpty(c.text)
  /\ \A k \in Docs : server[k] # None => server[k]["name"] # Empty

OwnGrade(entry) ==
  entry.grade = AssignmentGrade([credit |-> entry.credit, total |-> entry.totalcredit])

(* The assgrade is stored beside the mark it was computed from, and never  *)
(* computed again.  It stays the grade of the credit and totalcredit next  *)
(* to it, on the server and in the rows of every device, though edits from *)
(* rows that are out of date cross and are laid over each other.           *)
GradeOfItsMark ==
  \A k \in Assignments :
    \A entry \in {server[k]} \cup {row[d][k] : d \in Devices} :
      entry # None => OwnGrade(entry)
=============================================================================
