-------------------------- MODULE MCRuntimeSnapshots --------------------------
(* TLC instances of RuntimeSnapshots: two package roots, the second one a copy. *)
EXTENDS RuntimeSnapshots, TLC

CONSTANTS r1, r2, b1, b2, l1, l2, l3

Rooted == [p \in Procs |-> IF p \in {l3} THEN r2 ELSE r1]
TwoAtCopy == [p \in Procs |-> IF p \in {l1} THEN r1 ELSE r2]
SameBuild == [r \in Roots |-> 0]
CopyBehind == [r \in Roots |-> IF r = r2 THEN 0 ELSE 1]
\* The builders work for the same root.
Symmetry == Permutations({b1, b2})
=============================================================================
