-------------------------- MODULE MCEconomicCharges --------------------------
(* TLC instances of EconomicCharges. *)
EXTENDS EconomicCharges

FewOfEach ==
    [k \in Kinds |-> IF k \in {"charge_estimated", "price_corrected", "credit_applied",
                               "fx_translated", "allocation_reversed"} THEN 2 ELSE 1]
=============================================================================
