---------------------------- MODULE MCEgressFetch ----------------------------
(* TLC instances of EgressFetch: two processes that share the receipt lock. *)
EXTENDS EgressFetch

CONSTANTS p1, p2, q1, q2

FetchReceipts == Requests \X Events

\* One fetch in the first process; the second process only verifies.
OneFetch == q1 :> p1
=============================================================================
