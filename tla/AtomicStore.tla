---------------------------- MODULE AtomicStore ----------------------------
(***************************************************************************)
(* What a database promises the threads that write to it at the same time: *)
(* every write is in some order, takes effect as a whole between its       *)
(* invocation and its answer, and is answered ok exactly if it did.        *)
(***************************************************************************)
EXTENDS Naturals, Sequences

CONSTANT Writes

VARIABLES pending,   \* the writes invoked and not answered
          applied,   \* the writes that took effect, in their order
          answered   \* the <<write, ok>> pairs given out

Applied(w) == \E i \in DOMAIN applied : applied[i] = w

Invoke(w) ==
  /\ w \notin pending
  /\ ~Applied(w)
  /\ \A a \in answered : a[1] # w
  /\ pending' = pending \cup {w}
  /\ UNCHANGED <<applied, answered>>

(* Some pending writes take effect at once, one after the other.           *)
Take ==
  /\ SubSeq(applied', 1, Len(applied)) = applied
  /\ \A i \in DOMAIN applied' : \A j \in DOMAIN applied' :
       applied'[i] = applied'[j] => i = j
  /\ \A i \in (Len(applied) + 1) .. Len(applied') : applied'[i] \in pending
  /\ UNCHANGED <<pending, answered>>

Answer(w) ==
  /\ w \in pending
  /\ pending' = pending \ {w}
  /\ answered' = answered \cup {<<w, Applied(w)>>}
  /\ UNCHANGED applied

Init == pending = {} /\ applied = <<>> /\ answered = {}

Next == Take \/ \E w \in Writes : Invoke(w) \/ Answer(w)

vars == <<pending, applied, answered>>

Spec == Init /\ [][Next]_vars
-----------------------------------------------------------------------------
(* A step of the store, or one that does not concern it.                   *)
Step == [Next]_vars
=============================================================================
