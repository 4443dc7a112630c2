------------------------------ MODULE MCOutbox ------------------------------
(* Small instances of OutboxDelivery for TLC. *)
EXTENDS OutboxDelivery, TLC

Symmetry == Permutations(Worker)
\* As many poison events as a batch holds, all older than the healthy one.
PoisonFirst == {1, 2}
=============================================================================
