----------------------------- MODULE Gradebook -----------------------------
(***************************************************************************)
(* What an account promises its users about the data they typed in: a      *)
(* gradebook of entries.  A user puts an entry in under a name that was    *)
(* never used before, changes it, or takes it out for good.  Derived       *)
(* grades, snapshots, queues and restarts do not exist at this level, so   *)
(* nothing the app does by itself may touch an entry.                      *)
(***************************************************************************)
CONSTANTS Docs,       \* names of entries
          Entry(_),   \* what the entry of a name may say
          Missing     \* no entry

VARIABLES book,       \* book[k]: the entry under the name k
          retired     \* names whose entry was taken out

TypeOK ==
  /\ DOMAIN book = Docs
  /\ \A k \in Docs : book[k] \in Entry(k) \cup {Missing}
  /\ retired \subseteq {k \in Docs : book[k] = Missing}

PutIn(k) ==
  /\ book[k] = Missing
  /\ k \notin retired
  /\ \E e \in Entry(k) : book' = [book EXCEPT ![k] = e]
  /\ UNCHANGED retired

Change(k) ==
  /\ book[k] # Missing
  /\ \E e \in Entry(k) : book' = [book EXCEPT ![k] = e]
  /\ UNCHANGED retired

TakeOut(k) ==
  /\ book[k] # Missing
  /\ book' = [book EXCEPT ![k] = Missing]
  /\ retired' = retired \cup {k}

(* Some names may have been retired before.                                *)
Init == TypeOK

Next == \E k \in Docs : PutIn(k) \/ Change(k) \/ TakeOut(k)

Spec == Init /\ [][Next]_<<book, retired>>
=============================================================================
