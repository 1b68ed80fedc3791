----------------------------- MODULE RequestSpec -----------------------------
(***************************************************************************)
(* What the request lifecycle promises: a request is decided once, and     *)
(* only a fulfilled one is ever opened again.                              *)
(***************************************************************************)
CONSTANTS Request

VARIABLES status

Init == status = [r \in Request |-> "absent"]

Moves(r, from, to) ==
  status[r] \in from /\ \E s \in to : status' = [status EXCEPT ![r] = s]

Submit(r) == Moves(r, {"absent"}, {"pending"})
Decide(r) == Moves(r, {"pending"}, {"cancelled", "rejected", "fulfilled"})
Reopen(r) == Moves(r, {"fulfilled"}, {"pending"})

Next == \E r \in Request : Submit(r) \/ Decide(r) \/ Reopen(r)

Spec == Init /\ [][Next]_status
=============================================================================
