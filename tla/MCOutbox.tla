------------------------------ MODULE MCOutbox ------------------------------
(***************************************************************************)
(* Two events, two consumers whose calls may be late, and enough time for  *)
(* a lease to expire twice and a retry delay to pass.                      *)
(***************************************************************************)
EXTENDS Outbox, TLC

CONSTANTS c1, c2

MCEvents    == {1, 2}
MCConsumers == {c1, c2}
Symmetric   == Permutations(MCConsumers)
=============================================================================
