--------------------------- MODULE ReceiptHistory ---------------------------
(***************************************************************************)
(* What an egress receipt history promises, free of locks, files and       *)
(* processes (src/egress/receipts.ts).  Receipts are queued, recorded      *)
(* at the end of one chain, and their promises are settled; a promise is   *)
(* resolved only for a receipt that was recorded first, and a whole group  *)
(* of callers is answered the same way.  EgressReceipts implements it.     *)
(***************************************************************************)
EXTENDS SequencesExt

CONSTANTS Receipts

VARIABLES chain,     \* the receipts of the history at its path, oldest first
          recorded,  \* every receipt that ever reached a history at that path
          promise    \* what the caller that queued the receipt was told

vars == <<chain, recorded, promise>>

Answer(S, a) == [e \in Receipts |-> IF e \in S THEN a ELSE promise[e]]

Init == /\ chain = <<>>
        /\ recorded = {}
        /\ promise = [e \in Receipts |-> "none"]

Queue(e) == /\ promise[e] = "none"
            /\ promise' = Answer({e}, "queued")
            /\ UNCHANGED <<chain, recorded>>

Pending == {e \in Receipts : promise[e] = "queued"}

\* The chain only ever grows at its end, each new receipt once and while its caller waits.
Record(S) == /\ S # {}
             /\ S \subseteq Pending \ recorded
             /\ \E s \in SetToSeqs(S) : chain' = chain \o s
             /\ recorded' = recorded \cup S
             /\ UNCHANGED promise

Settle(S) == /\ S # {}
             /\ S \subseteq Pending
             /\ \/ S \subseteq recorded /\ promise' = Answer(S, "resolved")
                \/ promise' = Answer(S, "rejected")
             /\ UNCHANGED <<chain, recorded>>

\* The process that queued them is gone; nobody will be told anything.
Lose(S) == /\ S \subseteq Pending
           /\ promise' = Answer(S, "lost")
           /\ UNCHANGED <<chain, recorded>>

\* The operator took the history away from its path.
TakeAway == chain' = <<>> /\ UNCHANGED <<recorded, promise>>

Next == \/ \E e \in Receipts : Queue(e)
        \/ \E S \in SUBSET Pending : Record(S) \/ Settle(S) \/ Lose(S)
        \/ TakeAway

Spec == Init /\ [][Next]_vars
=============================================================================
