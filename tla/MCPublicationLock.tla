-------------------------- MODULE MCPublicationLock --------------------------
(* TLC instances of PublicationLock. *)
EXTENDS PublicationLock, TLC

CONSTANTS p1, p2, p3, p4

Alike == Permutations(Procs)
=============================================================================
