-------------------------- MODULE MCEgressReceipts --------------------------
(* TLC instances of EgressReceipts. *)
EXTENDS EgressReceipts

Symmetric == Permutations(Procs) \cup Permutations(Receipts)
=============================================================================
