------------------------------- MODULE BlockPool -------------------------------
(***************************************************************************)
(* What a size-class pool promises the heap: a block that is handed out is *)
(* in nobody's hands, and a sweep takes back every block that was not      *)
(* marked, and no other.                                                   *)
(***************************************************************************)
CONSTANT Block    \* every block the pool may ever hand out
VARIABLE lent     \* the blocks handed out and not swept

Init == lent = {}

Allocate(b) ==
  /\ b \notin lent
  /\ lent' = lent \cup {b}

Sweep(marked) ==
  /\ marked \subseteq lent
  /\ lent' = marked

Next ==
  \/ \E b \in Block : Allocate(b)
  \/ \E marked \in SUBSET lent : Sweep(marked)

PSpec == Init /\ [][Next]_lent
================================================================================
