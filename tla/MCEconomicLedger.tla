-------------------------- MODULE MCEconomicLedger --------------------------
(* TLC instances of EconomicLedger. *)
EXTENDS EconomicLedger

InTurn == {[start |-> 0, end |-> 1], [start |-> 1, end |-> 2]}
Single == {[start |-> 0, end |-> 1]}
=============================================================================
