--------------------------- MODULE MCBudgetControl ---------------------------
(* TLC instances of BudgetControl: policies of one id, or of two. *)
EXTENDS BudgetControl, TLC

CONSTANTS c1, c2, e1, e2

Policy(id, version, baseline, max) ==
    [id |-> id, version |-> version, baseline |-> baseline, min |-> 1, max |-> max, step |-> 1]

OnePolicy == {Policy("daily", 1, 2, 2)}
TwoVersions == {Policy("daily", 1, 2, 2), Policy("daily", 2, 2, 3)}
TwoVersionsTwoIds == TwoVersions \cup {Policy("other", 1, 2, 2)}
TwoIds == {Policy("daily", 1, 2, 2), Policy("other", 1, 2, 2)}
=============================================================================
