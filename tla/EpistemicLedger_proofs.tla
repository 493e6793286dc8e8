----------------------- MODULE EpistemicLedger_proofs -----------------------
(***************************************************************************)
(* What holds of EpistemicLedger for every catalogue of records: the       *)
(* tables stay closed, the revocation table and the envelopes agree, a     *)
(* claim of money is witnessed by its commit, and later records leave the  *)
(* replay of the past as it was.  Of the dependency graph: it has an edge  *)
(* for every name a record gives and no cycle, so a revocation reaches     *)
(* all that rests on it and stays, causal claims have a ground, chains of  *)
(* derivations keep within what they license, and a claim has one current  *)
(* revision.  The recursions behind these are two: a closure, which is the *)
(* least closed set, and a bound, which a rank of the claims defines;      *)
(* FiniteInduction has both arguments.                                     *)
(***************************************************************************)
EXTENDS EpistemicLedger, FiniteInduction

(* A table set with one more node and edges between its nodes is again one. *)
LEMMA NodeAdded ==
    ASSUME NEW s \in State, Closed(s), NEW i \in Ids, NEW E \in SUBSET Edges,
           \A e \in E : e.from \in s.nodes \cup {i} /\ e.to \in s.nodes \cup {i},
           NEW u, u = [s EXCEPT !.nodes = @ \cup {i}, !.edges = @ \cup E]
    PROVE  u \in State /\ Closed(u)
<1>1. /\ u.nodes = s.nodes \cup {i} /\ u.edges = s.edges \cup E
      /\ u.revocations = s.revocations
  BY DEF State
<1>2. u \in State
  BY DEF State
<1>3. Closed(u)
  BY <1>1 DEF Closed
<1> QED BY <1>2, <1>3

(* An edge between two ids. *)
LEMMA EdgeTyped ==
    ASSUME NEW a \in Ids, NEW b \in Ids, NEW r \in Relations
    PROVE  Edge(a, b, r) \in Edges /\ Edge(a, b, r).from = a /\ Edge(a, b, r).to = b
  BY DEF Edge, Edges

(* The edges of a derivation run between the records it names. *)
LEMMA DerivationEdgesTyped ==
    ASSUME NEW d, NEW N \in SUBSET Ids,
           {d.output} \cup d.evidence \cup d.claims \cup d.witnesses \subseteq N
    PROVE  \A e \in DerivationEdges(d) : e \in Edges /\ e.from \in N /\ e.to \in N
<1>1. /\ "depends_on" \in Relations /\ "derives" \in Relations /\ "witnesses" \in Relations
  BY DEF Relations
<1>2. ASSUME NEW a \in N, NEW r \in Relations
      PROVE  Edge(a, d.output, r) \in Edges /\ Edge(a, d.output, r).from \in N /\ Edge(a, d.output, r).to \in N
  <2>1. a \in Ids /\ d.output \in Ids /\ d.output \in N
    OBVIOUS
  <2> QED BY <2>1, EdgeTyped
<1>3. \A e \in {Edge(x, d.output, "depends_on") : x \in d.evidence} : e \in Edges /\ e.from \in N /\ e.to \in N
  BY <1>1, <1>2
<1>4. \A e \in {Edge(x, d.output, "derives") : x \in d.claims} : e \in Edges /\ e.from \in N /\ e.to \in N
  BY <1>1, <1>2
<1>5. \A e \in {Edge(x, d.output, "witnesses") : x \in d.witnesses} : e \in Edges /\ e.from \in N /\ e.to \in N
  BY <1>1, <1>2
<1> QED BY <1>3, <1>4, <1>5 DEF DerivationEdges

-----------------------------------------------------------------------------
(* Type correctness: every table stays well formed and closed, and nothing *)
(* is left of a transaction after it.                                      *)

LEMMA InitType == Init => TypeOK
<1> SUFFICES ASSUME Init PROVE TypeOK
  OBVIOUS
<1>1. Empty \in State /\ Closed(Empty)
  BY DEF Empty, State, Closed
<1>2. EmptyFrame \in [pending : SUBSET Claims, legalized : SUBSET Claims,
                      monetaryPending : SUBSET Claims, monetaryLegalized : SUBSET Claims]
  BY DEF EmptyFrame
<1> QED BY <1>1, <1>2 DEF Init, TypeOK

Frames == [pending : SUBSET Claims, legalized : SUBSET Claims,
           monetaryPending : SUBSET Claims, monetaryLegalized : SUBSET Claims]

LEMMA StepType == ASSUME TypeOK, [Next]_vars PROVE TypeOK'
<1>0. /\ db \in State /\ Closed(db) /\ work \in State /\ Closed(work) /\ frame \in Frames
      /\ inTransaction \in BOOLEAN
      /\ ~inTransaction => work = db /\ frame = EmptyFrame
  BY DEF TypeOK, Frames
<1> DEFINE Typed == /\ db \in State /\ Closed(db) /\ work \in State /\ Closed(work)
                    /\ frame \in Frames /\ inTransaction \in BOOLEAN
                    /\ ~inTransaction => work = db /\ frame = EmptyFrame
<1> SUFFICES Typed'
  BY DEF TypeOK, Frames
<1>e. EmptyFrame \in Frames
  BY DEF EmptyFrame, Frames
<1>n. /\ db.nodes \subseteq Ids /\ work.nodes \subseteq Ids
      /\ db.derivations \subseteq Derivations /\ work.derivations \subseteq Derivations
  BY <1>0 DEF State
<1>k. ASSUME NEW kind PROVE OfKind(kind) \subseteq Ids
  BY DEF OfKind
<1>r. "supports" \in Relations /\ "assumes" \in Relations /\ "derives" \in Relations
      /\ "depends_on" \in Relations /\ "witnesses" \in Relations /\ "supersedes" \in Relations
  BY DEF Relations
<1>1. CASE Begin
  BY <1>0, <1>1 DEF Begin, State, Closed
<1>2. CASE Commit
  BY <1>0, <1>e, <1>2 DEF Commit
<1>3. CASE Rollback
  BY <1>0, <1>e, <1>3 DEF Rollback
<1>4. ASSUME NEW i \in OfKind("evidence"), appendEvidence(i) PROVE Typed'
  <2>1. work' = [work EXCEPT !.nodes = @ \cup {i}, !.edges = @ \cup {}]
        /\ inTransaction /\ UNCHANGED <<db, frame, inTransaction>>
    BY <1>4 DEF appendEvidence, InsertNode
  <2>2. i \in Ids
    BY <1>k
  <2>3. work' \in State /\ Closed(work')
    BY <2>1, <2>2, <1>0, NodeAdded
  <2> QED BY <2>1, <2>3, <1>0
<1>5. ASSUME NEW i \in OfKind("witness"), appendWitness(i) PROVE Typed'
  <2> DEFINE E == {Edge(e, i, "supports") : e \in Item[i].cites}
  <2>1. work' = [work EXCEPT !.nodes = @ \cup {i}, !.edges = @ \cup E]
        /\ inTransaction /\ UNCHANGED <<db, frame, inTransaction>> /\ Item[i].cites \subseteq work.nodes
    BY <1>5 DEF appendWitness, InsertNode
  <2>2. i \in Ids
    BY <1>k
  <2>3. \A e \in E : e \in Edges /\ e.from \in work.nodes /\ e.to = i
    BY <2>1, <2>2, <1>n, <1>r, EdgeTyped
  <2>4. E \in SUBSET Edges /\ \A e \in E : e.from \in work.nodes \cup {i} /\ e.to \in work.nodes \cup {i}
    BY <2>3
  <2> HIDE DEF E
  <2>5. work' \in State /\ Closed(work')
    BY <2>1, <2>2, <2>4, <1>0, NodeAdded
  <2> QED BY <2>1, <2>5, <1>0
<1>6. ASSUME NEW i \in Claims, appendClaim(i) PROVE Typed'
  <2> DEFINE E1 == {Edge(i, s, "supersedes") : s \in Item[i].supersedes}
             E2 == {Edge(e, i, "supports") : e \in Item[i].cites}
             E3 == {Edge(a, i, "assumes") : a \in Item[i].assumes}
             E == E1 \cup E2 \cup E3
  <2>1. /\ work' = [work EXCEPT !.nodes = @ \cup {i}, !.edges = @ \cup E]
        /\ inTransaction /\ UNCHANGED <<db, inTransaction>>
        /\ (Item[i].cites \cup Item[i].assumes) \subseteq work.nodes
        /\ \A s \in Item[i].supersedes : s \in work.nodes
    BY <1>6 DEF appendClaim, InsertNode, assertClaimSupersession
  <2>2. i \in Ids
    BY <1>k DEF Claims
  <2>3. \A e \in E1 : e \in Edges /\ e.from = i /\ e.to \in work.nodes
    BY <2>1, <2>2, <1>n, <1>r, EdgeTyped
  <2>4. \A e \in E2 : e \in Edges /\ e.from \in work.nodes /\ e.to = i
    BY <2>1, <2>2, <1>n, <1>r, EdgeTyped
  <2>5. \A e \in E3 : e \in Edges /\ e.from \in work.nodes /\ e.to = i
    BY <2>1, <2>2, <1>n, <1>r, EdgeTyped
  <2>6. E \in SUBSET Edges /\ \A e \in E : e.from \in work.nodes \cup {i} /\ e.to \in work.nodes \cup {i}
    BY <2>3, <2>4, <2>5
  <2>7. frame' \in Frames
    BY <1>0, <1>6 DEF appendClaim, Frames
  <2> HIDE DEF E
  <2>8. work' \in State /\ Closed(work')
    BY <2>1, <2>2, <2>6, <1>0, NodeAdded
  <2> QED BY <2>1, <2>7, <2>8, <1>0
<1>7. ASSUME NEW d \in Derivations, appendDerivation(d) PROVE Typed'
  <2>1. /\ inTransaction /\ UNCHANGED <<db, inTransaction>> /\ StoreDerivation(d)
        /\ {d.output} \cup d.evidence \cup d.claims \cup d.witnesses \subseteq work.nodes
    BY <1>7 DEF appendDerivation, Derivable
  <2>2. d.output \in Claims
    BY CatalogueAssumption
  <2>3. \A e \in DerivationEdges(d) : e \in Edges /\ e.from \in work.nodes /\ e.to \in work.nodes
    BY <2>1, <1>n, DerivationEdgesTyped
  <2>4. work' \in State
    BY <2>1, <2>2, <2>3, <1>0 DEF StoreDerivation, State
  <2>5. work'.nodes = work.nodes /\ work'.edges = work.edges \cup DerivationEdges(d)
        /\ work'.revocations = work.revocations
    BY <2>1, <1>0 DEF StoreDerivation, State
  <2>6. Closed(work')
    BY <2>3, <2>5, <1>0 DEF Closed
  <2>7. frame' \in Frames
    BY <2>2, <1>0, <1>7 DEF appendDerivation, Frames
  <2> QED BY <2>1, <2>4, <2>6, <2>7, <1>0
<1>8. ASSUME NEW i \in OfKind("assumption"), appendAssumption(i) PROVE Typed'
  <2> DEFINE E == {Edge(e, i, "supports") : e \in Item[i].cites}
             u == [db EXCEPT !.nodes = @ \cup {i}, !.edges = @ \cup E]
  <2>1. ~inTransaction /\ db' = u /\ work' = u /\ UNCHANGED <<frame, inTransaction>>
        /\ Item[i].cites \subseteq db.nodes
    BY <1>8 DEF appendAssumption, Alone
  <2>2. i \in Ids
    BY <1>k
  <2>3. \A e \in E : e \in Edges /\ e.from \in db.nodes /\ e.to = i
    BY <2>1, <2>2, <1>n, <1>r, EdgeTyped
  <2>4. E \in SUBSET Edges /\ \A e \in E : e.from \in db.nodes \cup {i} /\ e.to \in db.nodes \cup {i}
    BY <2>3
  <2> HIDE DEF E
  <2>5. u \in State /\ Closed(u)
    BY <2>2, <2>4, <1>0, NodeAdded
  <2> HIDE DEF u
  <2> QED BY <2>1, <2>5, <1>0
<1>9. ASSUME NEW i \in OfKind("decision") \cup OfKind("witness"), appendNode(i) PROVE Typed'
  <2> DEFINE u == [db EXCEPT !.nodes = @ \cup {i}, !.bare = @ \cup ({i} \cap OfKind("witness"))]
  <2>1. ~inTransaction /\ db' = u /\ work' = u /\ UNCHANGED <<frame, inTransaction>>
    BY <1>9 DEF appendNode, Alone
  <2>2. i \in Ids
    BY <1>k
  <2>3. u \in State /\ u.nodes = db.nodes \cup {i} /\ u.edges = db.edges /\ u.revocations = db.revocations
    BY <2>2, <1>0 DEF State
  <2> HIDE DEF u
  <2>4. Closed(u)
    BY <2>3, <1>0 DEF Closed
  <2> QED BY <2>1, <2>3, <2>4, <1>0
<1>10. ASSUME NEW e \in Dependencies, appendDependency(e) PROVE Typed'
  <2> DEFINE u == [db EXCEPT !.edges = @ \cup {e}]
  <2>1. ~inTransaction /\ db' = u /\ work' = u /\ UNCHANGED <<frame, inTransaction>>
        /\ {e.from, e.to} \subseteq db.nodes
    BY <1>10 DEF appendDependency, Alone, ValidEdges
  <2>2. e \in Edges
    BY CatalogueAssumption
  <2>3. u \in State /\ u.nodes = db.nodes /\ u.edges = db.edges \cup {e} /\ u.revocations = db.revocations
    BY <2>2, <1>0 DEF State
  <2> HIDE DEF u
  <2>4. Closed(u)
    BY <2>1, <2>3, <1>0 DEF Closed
  <2> QED BY <2>1, <2>3, <2>4, <1>0
<1>11. ASSUME NEW event \in Events, NEW target \in Revocable, NEW at \in Times,
              appendRevocation(event, target, at)
       PROVE  Typed'
  <2> DEFINE r == [event |-> event, target |-> target, recordedAt |-> at]
             u == [db EXCEPT !.revocations = @ \cup {r}]
  <2>1. ~inTransaction /\ db' = u /\ work' = u /\ UNCHANGED <<frame, inTransaction>> /\ target \in db.nodes
    BY <1>11 DEF appendRevocation, Alone
  <2>2. r \in [event : Events, target : Ids, recordedAt : Times] /\ r.target \in db.nodes
    BY <2>1, <1>n
  <2> HIDE DEF r
  <2>3. u \in State /\ u.nodes = db.nodes /\ u.edges = db.edges /\ u.revocations = db.revocations \cup {r}
    BY <2>2, <1>0 DEF State
  <2> HIDE DEF u
  <2>4. Closed(u)
    BY <2>2, <2>3, <1>0 DEF Closed
  <2> QED BY <2>1, <2>3, <2>4, <1>0
<1>12. CASE UNCHANGED vars
  BY <1>0, <1>12 DEF vars, State, Closed
<1> QED
  BY <1>1, <1>2, <1>3, <1>4, <1>5, <1>6, <1>7, <1>8, <1>9, <1>10, <1>11, <1>12 DEF Next

(* The tables are well formed and closed in every reachable state, for any *)
(* catalogue of records, derivations and revocations.                      *)
THEOREM TypeCorrect == Spec => []TypeOK
<1>1. Init => TypeOK
  BY InitType
<1>2. TypeOK /\ [Next]_vars => TypeOK'
  BY StepType
<1> QED BY <1>1, <1>2, PTL DEF Spec

-----------------------------------------------------------------------------
(* The table of revocations and the envelopes agree.                       *)

OneTarget(s) ==
    \A r \in s.revocations : \A v \in envelopeRevocations(s) : v.event = r.event => v.target = r.target

(* What a record declares, it declares of itself. *)
LEMMA Declared ==
    ASSUME NEW v \in Declarations
    PROVE  /\ v.target \in OfKind("evidence") \cup Claims
           /\ v.recordedAt = Item[v.target].at
           /\ \E x \in Item[v.target].envelope : v.event = x.event
<1>1. PICK i \in OfKind("evidence") \cup Claims :
         v \in {[event |-> x.event, target |-> i, recordedAt |-> Item[i].at, effectiveAt |-> x.effectiveAt] :
                   x \in Item[i].envelope}
  BY DEF Declarations
<1>2. PICK x \in Item[i].envelope :
         v = [event |-> x.event, target |-> i, recordedAt |-> Item[i].at, effectiveAt |-> x.effectiveAt]
  BY <1>1
<1> QED BY <1>2

(* A record whose envelope names no event recorded for another node, or that *)
(* has no envelope, keeps the events of the tables unambiguous.              *)
LEMMA OneTargetNode ==
    ASSUME NEW s, NEW u, NEW i, OneTarget(s), u.nodes = s.nodes \cup {i}, u.revocations = s.revocations,
           i \in OfKind("evidence") \cup Claims =>
               \A x \in Item[i].envelope : \A r \in s.revocations : r.event = x.event => r.target = i
    PROVE  OneTarget(u)
<1> SUFFICES ASSUME NEW r \in s.revocations, NEW v \in Declarations, v.target \in s.nodes \cup {i}, v.event = r.event
             PROVE  v.target = r.target
  BY DEF OneTarget, envelopeRevocations
<1>1. CASE v.target \in s.nodes
  BY <1>1 DEF OneTarget, envelopeRevocations
<1>2. CASE v.target = i
  BY <1>2, Declared
<1> QED BY <1>1, <1>2

(* Tables with the same nodes and revocations have the same events. *)
LEMMA OneTargetSame ==
    ASSUME NEW s, NEW u, OneTarget(s), u.nodes = s.nodes, u.revocations = s.revocations
    PROVE  OneTarget(u)
  BY DEF OneTarget, envelopeRevocations

(* A record has one kind. *)
LEMMA OneKind ==
    ASSUME NEW i, i \in OfKind("witness") \cup OfKind("assumption") \cup OfKind("decision")
    PROVE  i \notin OfKind("evidence") \cup Claims
  BY DEF OfKind, Claims

TargetInv == OneTarget(db) /\ OneTarget(work)

LEMMA InitTarget == Init => TargetInv
  BY DEF Init, Empty, TargetInv, OneTarget

LEMMA StepTarget == ASSUME TypeOK, TargetInv, [Next]_vars PROVE TargetInv'
<1>0. db \in State /\ work \in State /\ OneTarget(db) /\ OneTarget(work)
  BY DEF TypeOK, TargetInv
<1> DEFINE Same(s, u) == u.nodes = s.nodes /\ u.revocations = s.revocations
<1> SUFFICES OneTarget(db') /\ OneTarget(work')
  BY DEF TargetInv, OneTarget, envelopeRevocations
<1>1. CASE Begin \/ Commit \/ Rollback \/ UNCHANGED vars
  <2>1. db' \in {db, work} /\ work' \in {db, work}
    BY <1>1 DEF Begin, Commit, Rollback, vars
  <2> QED BY <2>1, <1>0
<1>2. ASSUME NEW i \in OfKind("evidence"), appendEvidence(i) PROVE OneTarget(db') /\ OneTarget(work')
  <2>1. /\ db' = db /\ work'.nodes = work.nodes \cup {i} /\ work'.revocations = work.revocations
        /\ assertRevocationEnvelopeLinksConsistently(i)
    BY <1>2, <1>0 DEF appendEvidence, InsertNode, State
  <2> QED BY <2>1, <1>0, OneTargetNode DEF assertRevocationEnvelopeLinksConsistently
<1>3. ASSUME NEW i \in OfKind("witness"), appendWitness(i) PROVE OneTarget(db') /\ OneTarget(work')
  <2>1. db' = db /\ work'.nodes = work.nodes \cup {i} /\ work'.revocations = work.revocations
    BY <1>3, <1>0 DEF appendWitness, InsertNode, State
  <2> QED BY <2>1, <1>0, OneKind, OneTargetNode
<1>4. ASSUME NEW i \in Claims, appendClaim(i) PROVE OneTarget(db') /\ OneTarget(work')
  <2>1. /\ db' = db /\ work'.nodes = work.nodes \cup {i} /\ work'.revocations = work.revocations
        /\ assertRevocationEnvelopeLinksConsistently(i)
    BY <1>4, <1>0 DEF appendClaim, InsertNode, State
  <2> QED BY <2>1, <1>0, OneTargetNode DEF assertRevocationEnvelopeLinksConsistently
<1>5. ASSUME NEW d \in Derivations, appendDerivation(d) PROVE OneTarget(db') /\ OneTarget(work')
  <2>1. db' = db /\ Same(work, work')
    BY <1>5, <1>0 DEF appendDerivation, StoreDerivation, State
  <2> QED BY <2>1, <1>0, OneTargetSame
<1>6. ASSUME NEW i \in OfKind("assumption"), appendAssumption(i) PROVE OneTarget(db') /\ OneTarget(work')
  <2>1. work' = db' /\ db'.nodes = db.nodes \cup {i} /\ db'.revocations = db.revocations
    BY <1>6, <1>0 DEF appendAssumption, Alone, State
  <2> QED BY <2>1, <1>0, OneKind, OneTargetNode
<1>7. ASSUME NEW i \in OfKind("decision") \cup OfKind("witness"), appendNode(i) PROVE OneTarget(db') /\ OneTarget(work')
  <2>1. work' = db' /\ db'.nodes = db.nodes \cup {i} /\ db'.revocations = db.revocations
    BY <1>7, <1>0 DEF appendNode, Alone, State
  <2> QED BY <2>1, <1>0, OneKind, OneTargetNode
<1>8. ASSUME NEW e \in Dependencies, appendDependency(e) PROVE OneTarget(db') /\ OneTarget(work')
  <2>1. work' = db' /\ Same(db, db')
    BY <1>8, <1>0 DEF appendDependency, Alone, State
  <2> QED BY <2>1, <1>0, OneTargetSame
<1>9. ASSUME NEW event \in Events, NEW target \in Revocable, NEW at \in Times,
             appendRevocation(event, target, at)
      PROVE  OneTarget(db') /\ OneTarget(work')
  <2> DEFINE r == [event |-> event, target |-> target, recordedAt |-> at]
  <2>1. /\ work' = db' /\ db'.nodes = db.nodes /\ db'.revocations = db.revocations \cup {r}
        /\ \A v \in envelopeRevocations(db) : v.event = event => v.target = target
    BY <1>9, <1>0 DEF appendRevocation, Alone, State
  <2>2. r.event = event /\ r.target = target
    OBVIOUS
  <2> HIDE DEF r
  <2>3. OneTarget(db')
    BY <2>1, <2>2, <1>0 DEF OneTarget, envelopeRevocations
  <2> QED BY <2>1, <2>3
<1> QED BY <1>1, <1>2, <1>3, <1>4, <1>5, <1>6, <1>7, <1>8, <1>9 DEF Next

(* An event on record in the table is declared by no envelope of a node    *)
(* other than its target, whichever of the two came first, for any records *)
(* and envelopes (assertRevocationEnvelopeLinksConsistently,               *)
(* appendRevocation).  Of two envelopes it says nothing: they are never    *)
(* compared, and EventIsOneRevocation fails.                               *)
THEOREM RecordedEventsAgree == Spec => []EventNamesOneTarget
<1>1. Init => TypeOK /\ TargetInv
  BY InitType, InitTarget
<1>2. TypeOK /\ TargetInv /\ [Next]_vars => (TypeOK /\ TargetInv)'
  BY StepType, StepTarget
<1>3. TypeOK /\ TargetInv => EventNamesOneTarget
  BY DEF TargetInv, OneTarget, EventNamesOneTarget
<1> QED BY <1>1, <1>2, <1>3, PTL DEF Spec

-----------------------------------------------------------------------------
(* The debts of a transaction are settled by the time it commits.          *)

Rebased(s, c) ==
    \E d \in s.derivations :
        /\ d.output = c
        /\ <<directClaimMonetarySource(c), Item[c].basis>> \in declaredRebasings(d)

Licensed(s, c) ==
    \E d \in s.derivations :
        /\ d.output = c /\ d.claims # {}
        /\ Identified(d) \/ \A x \in d.claims : Item[x].causal

OwesMoney(c) == directClaimMonetarySource(c) # "none"

\* What the tables s hold is settled, or pending in f; what f calls legalized is settled.
MoneyInv(s, f) ==
    /\ \A c \in Claims \cap s.nodes : OwesMoney(c) => Rebased(s, c) \/ c \in f.monetaryPending
    /\ \A c \in f.monetaryLegalized : Rebased(s, c)
CausalInv(s, f) ==
    /\ \A c \in Claims \cap s.nodes : Item[c].causal => Licensed(s, c) \/ c \in f.pending
    /\ \A c \in f.legalized \cap Claims : Item[c].causal => Licensed(s, c)

DebtInv ==
    /\ MoneyInv(work, frame) /\ MoneyInv(db, EmptyFrame)
    /\ CausalInv(work, frame) /\ CausalInv(db, EmptyFrame)

(* A derivation MonetaryDischarged accepts carries the rebasing its output owes. *)
LEMMA DischargedRebases ==
    ASSUME NEW d, NEW revoked, MonetaryDischarged(d, revoked)
    PROVE  <<directClaimMonetarySource(d.output), Item[d.output].basis>> \in declaredRebasings(d)
<1>1. PICK x \in d.claims : \E w \in Discharging(d, x, revoked) :
         /\ Item[w].proves = "monetary_rebasing"
         /\ Item[w].change = <<directClaimMonetarySource(d.output), Item[d.output].basis>>
  BY DEF MonetaryDischarged
<1>2. PICK w \in Discharging(d, x, revoked) :
         /\ Item[w].proves = "monetary_rebasing"
         /\ Item[w].change = <<directClaimMonetarySource(d.output), Item[d.output].basis>>
  BY <1>1
<1>3. w \in d.witnesses /\ Item[w].supported
  BY DEF Discharging
<1> QED BY <1>2, <1>3 DEF declaredRebasings

(* A legal derivation of a causal claim is identified, or has causal inputs only. *)
LEMMA LegalLicenses ==
    ASSUME NEW d, NEW revoked, Legal(d, revoked), Item[d.output].causal, NEW x \in d.claims, ~Item[x].causal
    PROVE  Identified(d)
<1>1. "causal_identification" \in RequiredWitnesses(x, d.output)
  BY DEF RequiredWitnesses
<1>2. PICK w \in Discharging(d, x, revoked) : Item[w].proves = "causal_identification"
  BY <1>1 DEF Legal
<1>3. w \in d.witnesses /\ Item[w].supported /\ assessWitnessObligation(w, x, d.output)
  BY DEF Discharging
<1>4. Item[w].cites \cap Item[d.output].cites # {}
  BY <1>2, <1>3 DEF assessWitnessObligation
<1> QED BY <1>2, <1>3, <1>4 DEF Identified

(* More nodes that are no claims, edges or revocations change no debt. *)
LEMMA DebtSame ==
    ASSUME NEW s, NEW u, NEW f, MoneyInv(s, f), CausalInv(s, f),
           u.derivations = s.derivations, Claims \cap u.nodes = Claims \cap s.nodes
    PROVE  MoneyInv(u, f) /\ CausalInv(u, f)
  BY DEF MoneyInv, CausalInv, Rebased, Licensed

LEMMA InitDebt == Init => DebtInv
<1> SUFFICES ASSUME Init PROVE DebtInv
  OBVIOUS
<1>1. Empty.nodes = {} /\ EmptyFrame.monetaryLegalized = {} /\ EmptyFrame.legalized = {}
  BY DEF Empty, EmptyFrame
<1> QED BY <1>1 DEF Init, DebtInv, MoneyInv, CausalInv

LEMMA StepDebt == ASSUME TypeOK, DebtInv, [Next]_vars PROVE DebtInv'
<1>0. /\ db \in State /\ work \in State /\ frame \in Frames /\ (~inTransaction => work = db /\ frame = EmptyFrame)
  BY DEF TypeOK, Frames
<1>d. /\ MoneyInv(work, frame) /\ MoneyInv(db, EmptyFrame)
      /\ CausalInv(work, frame) /\ CausalInv(db, EmptyFrame)
  BY DEF DebtInv
<1> DEFINE Goal == /\ MoneyInv(work', frame') /\ MoneyInv(db', EmptyFrame)
                   /\ CausalInv(work', frame') /\ CausalInv(db', EmptyFrame)
<1> SUFFICES Goal
  BY DEF DebtInv, MoneyInv, CausalInv, Rebased, Licensed
<1>e. EmptyFrame.pending = {} /\ EmptyFrame.legalized = {}
      /\ EmptyFrame.monetaryPending = {} /\ EmptyFrame.monetaryLegalized = {}
  BY DEF EmptyFrame
<1>1. CASE Begin \/ UNCHANGED vars
  <2>1. db' = db /\ work' = work /\ frame' = frame
    BY <1>1 DEF Begin, vars
  <2> QED BY <2>1, <1>d
<1>2. CASE Commit
  <2>1. /\ frame.pending \subseteq frame.legalized /\ frame.monetaryPending \subseteq frame.monetaryLegalized
        /\ db' = work /\ work' = work /\ frame' = EmptyFrame
    BY <1>2 DEF Commit
  <2>2. MoneyInv(work, EmptyFrame)
    BY <2>1, <1>d, <1>e DEF MoneyInv
  <2>3. CausalInv(work, EmptyFrame)
    BY <2>1, <1>d, <1>e DEF CausalInv
  <2> QED BY <2>1, <2>2, <2>3
<1>3. CASE Rollback
  <2>1. db' = db /\ work' = db /\ frame' = EmptyFrame
    BY <1>3 DEF Rollback
  <2> QED BY <2>1, <1>d
<1>4. ASSUME NEW i, i \in OfKind("evidence") \cup OfKind("witness"), appendEvidence(i) \/ appendWitness(i) PROVE Goal
  <2>1. db' = db /\ frame' = frame /\ work'.nodes = work.nodes \cup {i} /\ work'.derivations = work.derivations
    BY <1>4, <1>0 DEF appendEvidence, appendWitness, InsertNode, State
  <2>2. i \notin Claims
    BY <1>4 DEF OfKind, Claims
  <2>3. Claims \cap work'.nodes = Claims \cap work.nodes
    BY <2>1, <2>2
  <2> QED BY <2>1, <2>3, <1>d, DebtSame
<1>5. ASSUME NEW i \in Claims, appendClaim(i) PROVE Goal
  <2>1. /\ db' = db /\ work'.nodes = work.nodes \cup {i} /\ work'.derivations = work.derivations
    BY <1>5, <1>0 DEF appendClaim, InsertNode, State
  <2>2. /\ frame'.pending = IF Item[i].causal THEN frame.pending \cup {i} ELSE frame.pending
        /\ frame'.legalized = frame.legalized
        /\ frame'.monetaryLegalized = frame.monetaryLegalized
    BY <1>5, <1>0 DEF appendClaim, Frames
  <2>3. frame'.monetaryPending = IF OwesMoney(i) THEN frame.monetaryPending \cup {i} ELSE frame.monetaryPending
    BY <1>5, <1>0 DEF appendClaim, Frames, OwesMoney
  <2>4. MoneyInv(work', frame')
    BY <2>1, <2>2, <2>3, <1>d DEF MoneyInv, Rebased
  <2>5. CausalInv(work', frame')
    BY <2>1, <2>2, <1>d DEF CausalInv, Licensed
  <2> QED BY <2>1, <2>4, <2>5, <1>d
<1>6. ASSUME NEW d \in Derivations, appendDerivation(d) PROVE Goal
  <2> DEFINE revoked == replayAsOf(work, Item[d.output].at).revocation.revoked
  <2>1. /\ db' = db /\ work'.nodes = work.nodes /\ work'.derivations = work.derivations \cup {d}
    BY <1>6, <1>0 DEF appendDerivation, StoreDerivation, State
  <2>2. /\ frame'.pending = frame.pending /\ frame'.monetaryPending = frame.monetaryPending
        /\ frame'.legalized = IF d.claims # {} THEN frame.legalized \cup {d.output} ELSE frame.legalized
    BY <1>6, <1>0 DEF appendDerivation, Frames
  <2>3. frame'.monetaryLegalized = frame.monetaryLegalized
        \/ /\ frame'.monetaryLegalized = frame.monetaryLegalized \cup {d.output}
           /\ MonetaryDischarged(d, revoked)
    BY <1>6, <1>0 DEF appendDerivation, Frames
  <2>4. Legal(d, revoked)
    BY <1>6 DEF appendDerivation, Derivable
  <2> HIDE DEF revoked
  <2>5. ASSUME NEW c PROVE Rebased(work, c) => Rebased(work', c)
    BY <2>1 DEF Rebased
  <2>6. ASSUME NEW c PROVE Licensed(work, c) => Licensed(work', c)
    BY <2>1 DEF Licensed
  <2>7. MonetaryDischarged(d, revoked) => Rebased(work', d.output)
    BY <2>1, DischargedRebases DEF Rebased
  <2>8. Item[d.output].causal /\ d.claims # {} => Licensed(work', d.output)
    BY <2>1, <2>4, LegalLicenses DEF Licensed
  <2>9. MoneyInv(work', frame')
    BY <2>1, <2>2, <2>3, <2>5, <2>7, <1>d DEF MoneyInv
  <2>10. CausalInv(work', frame')
    BY <2>1, <2>2, <2>6, <2>8, <1>d DEF CausalInv
  <2> QED BY <2>1, <2>9, <2>10, <1>d
<1>7. ASSUME NEW i, i \in OfKind("assumption") \cup OfKind("decision") \cup OfKind("witness"),
             appendAssumption(i) \/ appendNode(i) PROVE Goal
  <2>1. /\ ~inTransaction /\ work' = db' /\ frame' = frame
        /\ db'.nodes = db.nodes \cup {i} /\ db'.derivations = db.derivations
    BY <1>7, <1>0 DEF appendAssumption, appendNode, Alone, State
  <2>2. i \notin Claims
    BY <1>7 DEF OfKind, Claims
  <2>3. Claims \cap db'.nodes = Claims \cap db.nodes
    BY <2>1, <2>2
  <2>4. MoneyInv(db', EmptyFrame) /\ CausalInv(db', EmptyFrame)
    BY <2>1, <2>3, <1>d, DebtSame
  <2> QED BY <2>1, <2>4, <1>0
<1>8. ASSUME NEW u, Alone(u), u.nodes = db.nodes, u.derivations = db.derivations PROVE Goal
  <2>1. ~inTransaction /\ work' = u /\ db' = u /\ frame' = frame
    BY <1>8 DEF Alone
  <2>2. MoneyInv(u, EmptyFrame) /\ CausalInv(u, EmptyFrame)
    BY <1>8, <1>d, DebtSame
  <2> QED BY <2>1, <2>2, <1>0
<1>9. ASSUME NEW e \in Dependencies, appendDependency(e) PROVE Goal
  BY <1>0, <1>8, <1>9 DEF appendDependency, State
<1>10. ASSUME NEW event \in Events, NEW target \in Revocable, NEW at \in Times,
              appendRevocation(event, target, at)
       PROVE  Goal
  BY <1>0, <1>8, <1>10 DEF appendRevocation, State
<1> QED
  BY <1>1, <1>2, <1>3, <1>4, <1>5, <1>6, <1>7, <1>9, <1>10 DEF Next

(* A committed claim of a billed or allocated amount whose evidence says   *)
(* otherwise is the output of a derivation with a supported rebasing of    *)
(* exactly that evidence's basis, for any records and any transactions     *)
(* (directClaimMonetaryObligation, the debt settled at COMMIT).            *)
THEOREM MoneyIsWitnessed == Spec => []MoneyWitnessed
<1>1. Init => TypeOK /\ DebtInv
  BY InitType, InitDebt
<1>2. TypeOK /\ DebtInv /\ [Next]_vars => (TypeOK /\ DebtInv)'
  BY StepType, StepDebt
<1>3. DebtInv => MoneyWitnessed
  BY DEF DebtInv, MoneyInv, Rebased, OwesMoney, EmptyFrame, MoneyWitnessed, StoredClaims
<1> QED BY <1>1, <1>2, <1>3, PTL DEF Spec

\* Every committed causal claim has a producer that rests on claims and is
\* identified or starts from causal claims only.
CausalLicensed == \A c \in StoredClaims : Item[c].causal => Licensed(db, c)

(* No causal claim is committed on its own word (directClaimObligation,    *)
(* legality of a derivation, the debt settled at COMMIT); that such claims *)
(* do not support each other in a circle is CausesAreGrounded.             *)
THEOREM CausalIsLicensed == Spec => []CausalLicensed
<1>1. Init => TypeOK /\ DebtInv
  BY InitType, InitDebt
<1>2. TypeOK /\ DebtInv /\ [Next]_vars => (TypeOK /\ DebtInv)'
  BY StepType, StepDebt
<1>3. DebtInv => CausalLicensed
  BY DEF DebtInv, CausalInv, EmptyFrame, CausalLicensed, StoredClaims
<1> QED BY <1>1, <1>2, <1>3, PTL DEF Spec

-----------------------------------------------------------------------------
(* The tables only grow, and the replay of t reads nothing dated after t.  *)

Grown(s, u) ==
    s.nodes \subseteq u.nodes /\ s.edges \subseteq u.edges /\ s.revocations \subseteq u.revocations

LEMMA StepGrown == ASSUME TypeOK, Grown(db, work), [Next]_vars PROVE Grown(db', work') /\ Grown(db, db')
<1>0. db \in State /\ work \in State /\ Grown(db, work)
  BY DEF TypeOK
<1>s. \A u : Grown(u, u)
  BY DEF Grown
<1>1. CASE Begin \/ Commit \/ Rollback \/ UNCHANGED vars
  <2>1. \/ db' = db /\ work' \in {db, work}
        \/ db' = work /\ work' = work
    BY <1>1 DEF Begin, Commit, Rollback, vars
  <2> QED BY <2>1, <1>0, <1>s
<1>2. ASSUME db' = db, Grown(work, work') PROVE Grown(db', work') /\ Grown(db, db')
  BY <1>0, <1>s, <1>2 DEF Grown
<1>3. ASSUME work' = db', Grown(db, db') PROVE Grown(db', work') /\ Grown(db, db')
  BY <1>s, <1>3
<1>4. ASSUME NEW i \in OfKind("evidence"), appendEvidence(i) PROVE Grown(db', work') /\ Grown(db, db')
  BY <1>0, <1>2, <1>4 DEF appendEvidence, InsertNode, State, Grown
<1>5. ASSUME NEW i \in OfKind("witness"), appendWitness(i) PROVE Grown(db', work') /\ Grown(db, db')
  BY <1>0, <1>2, <1>5 DEF appendWitness, InsertNode, State, Grown
<1>6. ASSUME NEW i \in Claims, appendClaim(i) PROVE Grown(db', work') /\ Grown(db, db')
  BY <1>0, <1>2, <1>6 DEF appendClaim, InsertNode, State, Grown
<1>7. ASSUME NEW d \in Derivations, appendDerivation(d) PROVE Grown(db', work') /\ Grown(db, db')
  BY <1>0, <1>2, <1>7 DEF appendDerivation, StoreDerivation, State, Grown
<1>8. ASSUME NEW i \in OfKind("assumption"), appendAssumption(i) PROVE Grown(db', work') /\ Grown(db, db')
  BY <1>0, <1>3, <1>8 DEF appendAssumption, Alone, State, Grown
<1>9. ASSUME NEW i \in OfKind("decision") \cup OfKind("witness"), appendNode(i) PROVE Grown(db', work') /\ Grown(db, db')
  BY <1>0, <1>3, <1>9 DEF appendNode, Alone, State, Grown
<1>10. ASSUME NEW e \in Dependencies, appendDependency(e) PROVE Grown(db', work') /\ Grown(db, db')
  BY <1>0, <1>3, <1>10 DEF appendDependency, Alone, State, Grown
<1>11. ASSUME NEW event \in Events, NEW target \in Revocable, NEW at \in Times,
              appendRevocation(event, target, at)
       PROVE  Grown(db', work') /\ Grown(db, db')
  BY <1>0, <1>3, <1>11 DEF appendRevocation, Alone, State, Grown
<1> QED
  BY <1>1, <1>4, <1>5, <1>6, <1>7, <1>8, <1>9, <1>10, <1>11 DEF Next

(* Tables that differ only in records dated after t, and in edges at such  *)
(* records, have the same graph, the same known events and the same latest *)
(* claims at t.                                                            *)
LEMMA SameReplay ==
    ASSUME NEW s \in State, NEW u \in State, Grown(s, u), NEW t \in Times,
           \A i \in u.nodes \ s.nodes : Item[i].at > t,
           \A r \in u.revocations \ s.revocations : r.recordedAt > t,
           \A e \in u.edges \ s.edges : Item[e.from].at > t \/ Item[e.to].at > t
    PROVE  replayAsOf(u, t) = replayAsOf(s, t) /\ latestClaims(u, t) = latestClaims(s, t)
<1>0. /\ s.nodes \subseteq u.nodes /\ s.edges \subseteq u.edges /\ s.revocations \subseteq u.revocations
      /\ u.nodes \subseteq Ids /\ u.edges \subseteq Edges /\ t \in Nat
      /\ \A i \in Ids : Item[i].at \in Nat
      /\ \A r \in u.revocations : r.recordedAt \in Nat
  BY CatalogueAssumption DEF Grown, State
<1>1. \A i \in u.nodes : Item[i].at <= t => i \in s.nodes
  BY <1>0
<1>2. \A r \in u.revocations : r.recordedAt <= t => r \in s.revocations
  BY <1>0
<1>3. \A e \in u.edges : Item[e.from].at <= t /\ Item[e.to].at <= t => e \in s.edges
  <2> SUFFICES ASSUME NEW e \in u.edges, Item[e.from].at <= t, Item[e.to].at <= t, e \notin s.edges PROVE FALSE
    OBVIOUS
  <2>1. e.from \in Ids /\ e.to \in Ids
    BY <1>0 DEF Edges
  <2> QED BY <2>1, <1>0
<1> DEFINE Available(x) == {i \in x.nodes : Item[i].at <= t}
           Between(x) == {e \in x.edges : e.from \in Available(x) /\ e.to \in Available(x)}
           KnownEvents(x) == {e \in revocationEvents(x) : e.recordedAt <= t /\ e.target \in Available(x)}
           AsEvent(r) == [event |-> r.event, target |-> r.target, recordedAt |-> r.recordedAt, effectiveAt |-> r.recordedAt]
<1>4. Available(u) = Available(s)
  BY <1>0, <1>1
<1>5. Between(u) = Between(s)
  BY <1>0, <1>3, <1>4
<1>6. \A e : e \in KnownEvents(u) <=> e \in KnownEvents(s)
  <2> TAKE e
  <2>1. CASE \E r \in u.revocations : e = AsEvent(r)
    <3>1. PICK r \in u.revocations : e = AsEvent(r)
      BY <2>1
    <3>2. e.recordedAt = r.recordedAt
      BY <3>1
    <3>3. e.recordedAt <= t => r \in s.revocations
      BY <3>2, <1>2
    <3>4. e.recordedAt <= t => e \in revocationEvents(s)
      BY <3>1, <3>3 DEF revocationEvents
    <3>5. e \in revocationEvents(u)
      BY <3>1 DEF revocationEvents
    <3> QED BY <3>4, <3>5, <1>4
  <2>2. CASE ~\E r \in u.revocations : e = AsEvent(r)
    <3>1. e \in revocationEvents(u) <=> e \in envelopeRevocations(u)
      BY <2>2 DEF revocationEvents
    <3>2. e \in revocationEvents(s) <=> e \in envelopeRevocations(s)
      BY <2>2, <1>0 DEF revocationEvents
    <3>3. e.target \in Available(s) => (e \in envelopeRevocations(u) <=> e \in envelopeRevocations(s))
      BY <1>0 DEF envelopeRevocations
    <3> QED BY <3>1, <3>2, <3>3, <1>4
  <2> QED BY <2>1, <2>2
<1>7. KnownEvents(u) = KnownEvents(s)
  BY <1>6
<1>8. asOfGraph(u, t) = asOfGraph(s, t) /\ asOfGraph(u, t).nodes = Available(u) /\ asOfGraph(s, t).nodes = Available(s)
  BY <1>4, <1>5 DEF asOfGraph
<1>9. replayAsOf(u, t) = replayAsOf(s, t)
  BY <1>7, <1>8 DEF replayAsOf
<1>10. {i \in Claims \cap u.nodes : Item[i].at <= t} = {i \in Claims \cap s.nodes : Item[i].at <= t}
  BY <1>0, <1>1
<1>11. latestClaims(u, t) = latestClaims(s, t)
  BY <1>10 DEF latestClaims
<1> QED BY <1>9, <1>11

(* Whatever is appended later, records dated after t and the revocations   *)
(* they declare leave the replay at t and its latest claims as they were,  *)
(* if it can be read at all (replayAsOf, asOfGraph, latestClaims).         *)
THEOREM PastStable == Spec => HistoryStable
<1> DEFINE Step == db' # db /\ Readable(db') => \A t \in Times : NewNodesAfter(t) /\ NewEdgesAfter(t) => Unchanged(t)
           Inv == TypeOK /\ Grown(db, work)
<1>1. Init => Inv
  BY InitType DEF Init, Grown
<1>2. Inv /\ [Next]_vars => Inv'
  BY StepType, StepGrown DEF Grown
<1>3. ASSUME Inv, [Next]_vars PROVE Step
  <2>1. TypeOK' /\ Grown(db, db')
    BY <1>3, StepType, StepGrown
  <2>2. db \in State /\ db' \in State
    BY <1>3, <2>1 DEF TypeOK, State, Edges
  <2>3. ASSUME NEW t \in Times, NewNodesAfter(t), NewEdgesAfter(t) PROVE Unchanged(t)
    BY <2>1, <2>2, <2>3, SameReplay DEF NewNodesAfter, NewEdgesAfter, Unchanged
  <2> QED BY <2>3
<1>4. Inv /\ [Next]_vars => [Step]_db
  BY <1>3
<1> HIDE DEF Step, Inv
<1>5. Spec => [][Step]_db
  BY <1>1, <1>2, <1>4, PTL DEF Spec
<1> QED BY <1>5 DEF HistoryStable, Step

-----------------------------------------------------------------------------
(* The closure along the dependency edges.                                 *)

(* What rests directly on a set of records. *)
Below(edges) == [S \in SUBSET Ids |-> {e.to : e \in {d \in dependencyEdges(edges) : d.from \in S}}]

(* revocationClosure is the closure of that function. *)
LEMMA ClosureIs ==
    ASSUME NEW edges, NEW roots
    PROVE  revocationClosure(roots, edges) = Closure(Below(edges), Ids)[roots]
<1> DEFINE more(S) == {e.to : e \in {d \in dependencyEdges(edges) : d.from \in S}}
           step(f) == [S \in SUBSET Ids |-> IF more(S) \subseteq S THEN S ELSE f[S \cup more(S)]]
<1>1. revocationClosure(roots, edges) = (CHOOSE f : f = step(f))[roots]
  BY DEF revocationClosure
<1>2. \A S \in SUBSET Ids : Below(edges)[S] = more(S)
  BY DEF Below
<1> HIDE DEF more
<1>3. \A f : step(f) = Grow(Below(edges), SUBSET Ids, f)
  BY <1>2 DEF Grow
<1> HIDE DEF step
<1>4. (CHOOSE f : f = step(f)) = (CHOOSE f : f = Grow(Below(edges), SUBSET Ids, f))
  BY <1>3
<1> QED BY <1>1, <1>4 DEF Closure

\* The least set that holds the roots and, with a prerequisite, what rests on it.
LEMMA ClosureBelow ==
    ASSUME NEW edges \in SUBSET Edges, NEW roots \in SUBSET Ids
    PROVE  /\ revocationClosure(roots, edges) \in SUBSET Ids
           /\ roots \subseteq revocationClosure(roots, edges)
           /\ \A e \in dependencyEdges(edges) :
                 e.from \in revocationClosure(roots, edges) => e.to \in revocationClosure(roots, edges)
           /\ \A T : roots \subseteq T /\ (\A e \in dependencyEdges(edges) : e.from \in T => e.to \in T)
                        => revocationClosure(roots, edges) \subseteq T
<1> DEFINE c == revocationClosure(roots, edges)
           g == Below(edges)
<1>1. \A e \in dependencyEdges(edges) : e.from \in Ids /\ e.to \in Ids
  BY DEF dependencyEdges, Edges
<1>2. \A S \in SUBSET Ids : g[S] = {e.to : e \in {d \in dependencyEdges(edges) : d.from \in S}}
  BY DEF Below
<1>3. g \in [SUBSET Ids -> SUBSET Ids]
  BY <1>1 DEF Below
<1>4. c = Closure(g, Ids)[roots] /\ IsFiniteSet(Ids)
  BY ClosureIs, CatalogueAssumption
<1> HIDE DEF c, g
<1>5. /\ c \in SUBSET Ids /\ roots \subseteq c /\ g[c] \subseteq c
      /\ \A T : roots \subseteq T /\ (\A R \in SUBSET Ids : R \subseteq T => g[R] \subseteq T) => c \subseteq T
  BY <1>3, <1>4, ClosureLeast
<1>6. \A e \in dependencyEdges(edges) : e.from \in c => e.to \in c
  BY <1>2, <1>5
<1>7. ASSUME NEW T, roots \subseteq T, \A e \in dependencyEdges(edges) : e.from \in T => e.to \in T
      PROVE  c \subseteq T
  <2>1. \A R \in SUBSET Ids : R \subseteq T => g[R] \subseteq T
    BY <1>2, <1>7
  <2> QED BY <1>5, <1>7, <2>1
<1> QED BY <1>5, <1>6, <1>7 DEF c

\* More roots and more edges reach more.
(* More roots and more edges reach more. *)
LEMMA ClosureGrows ==
    ASSUME NEW e1 \in SUBSET Edges, NEW e2 \in SUBSET Edges, e1 \subseteq e2,
           NEW r1 \in SUBSET Ids, NEW r2 \in SUBSET Ids, r1 \subseteq r2
    PROVE  revocationClosure(r1, e1) \subseteq revocationClosure(r2, e2)
<1>1. /\ r2 \subseteq revocationClosure(r2, e2)
      /\ \A e \in dependencyEdges(e2) : e.from \in revocationClosure(r2, e2) => e.to \in revocationClosure(r2, e2)
  BY ClosureBelow
<1>2. dependencyEdges(e1) \subseteq dependencyEdges(e2)
  BY DEF dependencyEdges
<1>3. /\ r1 \subseteq revocationClosure(r2, e2)
      /\ \A e \in dependencyEdges(e1) : e.from \in revocationClosure(r2, e2) => e.to \in revocationClosure(r2, e2)
  BY <1>1, <1>2
<1> QED BY <1>3, ClosureBelow

-----------------------------------------------------------------------------
(* Revocation is permanent.                                                *)

\* More known events, more edges and more time revoke more, and lose nothing
\* that is pending.
LEMMA SplitSettles ==
    ASSUME NEW g1, NEW g2, g1.edges \subseteq g2.edges, g2.edges \in SUBSET Edges,
           NEW E1, NEW E2, E1 \subseteq E2, \A e \in E2 : e.effectiveAt \in Nat /\ e.target \in Ids,
           NEW t1 \in Nat, NEW t2 \in Nat, t1 <= t2
    PROVE  Settles(splitByEffectiveness(g1, E1, t1), splitByEffectiveness(g2, E2, t2))
<1> DEFINE now1 == {e.target : e \in {x \in E1 : x.effectiveAt <= t1}}
           now2 == {e.target : e \in {x \in E2 : x.effectiveAt <= t2}}
           later1 == {e.target : e \in {x \in E1 : x.effectiveAt > t1}}
           later2 == {e.target : e \in {x \in E2 : x.effectiveAt > t2}}
<1>1. \A e \in E2 : /\ e.effectiveAt <= t1 => e.effectiveAt <= t2
                    /\ e.effectiveAt <= t2 \/ e.effectiveAt > t2
  OBVIOUS
<1>2. now1 \subseteq now2
  BY <1>1
<1>3. now1 \cup later1 \subseteq now2 \cup later2
  BY <1>1
<1>4. now1 \subseteq Ids /\ now2 \subseteq Ids /\ later1 \subseteq Ids /\ later2 \subseteq Ids
  OBVIOUS
<1>5. /\ splitByEffectiveness(g1, E1, t1) = projectRevocationWithPending(g1, now1, later1)
      /\ splitByEffectiveness(g2, E2, t2) = projectRevocationWithPending(g2, now2, later2)
  BY DEF splitByEffectiveness
<1> HIDE DEF now1, now2, later1, later2
<1>6. revocationClosure(now1, g1.edges) \subseteq revocationClosure(now2, g2.edges)
  BY <1>2, <1>4, ClosureGrows
<1>7. revocationClosure(now1 \cup later1, g1.edges) \subseteq revocationClosure(now2 \cup later2, g2.edges)
  BY <1>3, <1>4, ClosureGrows
<1> DEFINE revoked1 == revocationClosure(now1, g1.edges)
           revoked2 == revocationClosure(now2, g2.edges)
           reached1 == revocationClosure(now1 \cup later1, g1.edges)
           reached2 == revocationClosure(now2 \cup later2, g2.edges)
<1>8. /\ projectRevocationWithPending(g1, now1, later1) = [revoked |-> revoked1, pending |-> reached1 \ revoked1]
      /\ projectRevocationWithPending(g2, now2, later2) = [revoked |-> revoked2, pending |-> reached2 \ revoked2]
  BY DEF projectRevocationWithPending
<1>9. revoked1 \subseteq revoked2 /\ reached1 \ revoked1 \subseteq revoked2 \cup (reached2 \ revoked2)
  BY <1>6, <1>7
<1> HIDE DEF revoked1, revoked2, reached1, reached2
<1> QED BY <1>5, <1>8, <1>9 DEF Settles

\* An event is dated and names a stored record.
(* An event is dated, and its target is stored. *)
LEMMA EventTyped ==
    ASSUME NEW s \in State, Closed(s), NEW e \in revocationEvents(s)
    PROVE  e.recordedAt \in Nat /\ e.effectiveAt \in Nat /\ e.target \in s.nodes /\ e.target \in Ids
<1>0. s.nodes \subseteq Ids /\ s.revocations \subseteq [event : Events, target : Ids, recordedAt : Times]
  BY DEF State
<1>1. CASE \E r \in s.revocations :
              e = [event |-> r.event, target |-> r.target, recordedAt |-> r.recordedAt, effectiveAt |-> r.recordedAt]
  <2>1. PICK r \in s.revocations :
           e = [event |-> r.event, target |-> r.target, recordedAt |-> r.recordedAt, effectiveAt |-> r.recordedAt]
    BY <1>1
  <2>2. r.target \in Ids /\ r.recordedAt \in Nat /\ r.target \in s.nodes
    BY <1>0, CatalogueAssumption DEF Closed
  <2> QED BY <2>1, <2>2
<1>2. CASE e \in envelopeRevocations(s)
  <2>1. e \in Declarations /\ e.target \in s.nodes
    BY <1>2 DEF envelopeRevocations
  <2>2. PICK i \in OfKind("evidence") \cup Claims :
           e \in {[event |-> x.event, target |-> i, recordedAt |-> Item[i].at, effectiveAt |-> x.effectiveAt] :
                     x \in Item[i].envelope}
    BY <2>1 DEF Declarations
  <2>3. PICK x \in Item[i].envelope :
           e = [event |-> x.event, target |-> i, recordedAt |-> Item[i].at, effectiveAt |-> x.effectiveAt]
    BY <2>2
  <2>4. i \in Ids
    BY DEF OfKind, Claims
  <2> QED BY <1>0, <2>1, <2>3, <2>4, CatalogueAssumption
<1> QED BY <1>1, <1>2 DEF revocationEvents

(* Larger tables tell of more events. *)
LEMMA EventsGrow ==
    ASSUME NEW s, NEW u, Grown(s, u)
    PROVE  revocationEvents(s) \subseteq revocationEvents(u)
  BY DEF Grown, revocationEvents, envelopeRevocations

\* A later replay of larger tables settles more.
LEMMA ReplaySettles ==
    ASSUME NEW s \in State, NEW u \in State, Closed(s), Closed(u), Grown(s, u),
           NEW t1 \in Nat, NEW t2 \in Nat, t1 <= t2
    PROVE  Settles(replayAsOf(s, t1).revocation, replayAsOf(u, t2).revocation)
<1> DEFINE g1 == asOfGraph(s, t1)
           g2 == asOfGraph(u, t2)
           E1 == {e \in revocationEvents(s) : e.recordedAt <= t1 /\ e.target \in g1.nodes}
           E2 == {e \in revocationEvents(u) : e.recordedAt <= t2 /\ e.target \in g2.nodes}
<1>1. /\ replayAsOf(s, t1).revocation = splitByEffectiveness(g1, E1, t1)
      /\ replayAsOf(u, t2).revocation = splitByEffectiveness(g2, E2, t2)
  BY DEF replayAsOf
<1>2. g1.nodes = {i \in s.nodes : Item[i].at <= t1} /\ g2.nodes = {i \in u.nodes : Item[i].at <= t2}
  BY DEF asOfGraph
<1>3. /\ g1.edges = {e \in s.edges : e.from \in g1.nodes /\ e.to \in g1.nodes}
      /\ g2.edges = {e \in u.edges : e.from \in g2.nodes /\ e.to \in g2.nodes}
  BY DEF asOfGraph
<1>4. u.nodes \subseteq Ids /\ u.edges \subseteq Edges /\ s.nodes \subseteq u.nodes /\ s.edges \subseteq u.edges
  BY DEF State, Grown
<1>5. \A i \in Ids : Item[i].at \in Nat
  BY CatalogueAssumption
<1> HIDE DEF g1, g2
<1>6. g1.nodes \subseteq g2.nodes
  BY <1>2, <1>4, <1>5
<1>7. g1.edges \subseteq g2.edges /\ g2.edges \in SUBSET Edges
  BY <1>3, <1>4, <1>6
<1>8. revocationEvents(s) \subseteq revocationEvents(u)
  BY EventsGrow
<1>9. \A e \in revocationEvents(u) : e.recordedAt \in Nat /\ e.effectiveAt \in Nat /\ e.target \in Ids
  BY EventTyped
<1>10. E1 \subseteq E2
  BY <1>6, <1>8, <1>9
<1>11. \A e \in E2 : e.effectiveAt \in Nat /\ e.target \in Ids
  BY <1>9
<1> HIDE DEF E1, E2
<1>12. Settles(splitByEffectiveness(g1, E1, t1), splitByEffectiveness(g2, E2, t2))
  BY <1>7, <1>10, <1>11, SplitSettles
<1> QED BY <1>1, <1>12

\* The live projection settles what the replay of the same instant does.
(* The live projection has settled all that a replay at the time it is for has. *)
LEMMA LiveSettles ==
    ASSUME NEW s \in State, Closed(s), NEW t \in Nat
    PROVE  Settles(replayAsOf(s, t).revocation, revocationProjection(s, t))
<1> DEFINE g1 == asOfGraph(s, t)
           g2 == [nodes |-> s.nodes, edges |-> s.edges]
           E1 == {e \in revocationEvents(s) : e.recordedAt <= t /\ e.target \in g1.nodes}
           E2 == revocationEvents(s)
<1>1. /\ replayAsOf(s, t).revocation = splitByEffectiveness(g1, E1, t)
      /\ revocationProjection(s, t) = splitByEffectiveness(g2, E2, t)
  BY DEF replayAsOf, revocationProjection
<1>2. g1.edges \subseteq g2.edges /\ g2.edges \in SUBSET Edges
  BY DEF asOfGraph, State
<1>3. E1 \subseteq E2
  OBVIOUS
<1>4. \A e \in E2 : e.effectiveAt \in Nat /\ e.target \in Ids
  BY EventTyped
<1> HIDE DEF g1, g2, E1, E2
<1>5. Settles(splitByEffectiveness(g1, E1, t), splitByEffectiveness(g2, E2, t))
  BY <1>2, <1>3, <1>4, SplitSettles
<1> QED BY <1>1, <1>5

(* What a replay shows revoked stays revoked: for later records, for later
   boundaries of the replay, and in the live projection; what was pending is
   pending or revoked there.  replayAsOf and revocationProjection read the
   same append-only tables, and the closure only grows with them. *)
THEOREM RevocationStays == Spec => RevocationPermanent
<1> DEFINE Inv == TypeOK /\ Grown(db, work)
<1>1. Init => Inv
  BY InitType DEF Init, Grown
<1>2. Inv /\ [Next]_vars => Inv'
  BY StepType, StepGrown DEF Grown
<1>3. ASSUME Inv, [Next]_vars PROVE db' # db /\ Readable(db') => SettlesOn
  <2>1. TypeOK' /\ Grown(db, db')
    BY <1>3, StepType, StepGrown
  <2>2. db \in State /\ db' \in State /\ Closed(db) /\ Closed(db')
    BY <1>3, <2>1 DEF TypeOK, State, Edges, Closed
  <2>3. Grown(db', db') /\ Times \subseteq Nat
    BY CatalogueAssumption DEF Grown
  <2>4. \A t \in Times : Settles(replayAsOf(db, t).revocation, replayAsOf(db', t).revocation)
    BY <2>1, <2>2, <2>3, ReplaySettles
  <2>5. ASSUME NEW t \in Times, t - 1 \in Times
        PROVE  Settles(replayAsOf(db', t - 1).revocation, replayAsOf(db', t).revocation)
    <3>1. t \in Nat /\ t - 1 \in Nat /\ t - 1 <= t
      BY <2>3, <2>5
    <3> QED BY <2>2, <2>3, <3>1, ReplaySettles
  <2>6. \A t \in Times : Settles(replayAsOf(db', t).revocation, revocationProjection(db', t))
    BY <2>2, <2>3, LiveSettles
  <2> DEFINE then(t) == replayAsOf(db, t).revocation
             now(t) == replayAsOf(db', t).revocation
             live(t) == revocationProjection(db', t)
  <2> HIDE DEF then, now, live
  <2>7. \A pair \in {<<then(t), now(t)>> : t \in Times}
                  \cup {<<now(t - 1), now(t)>> : t \in {u \in Times : u - 1 \in Times}}
                  \cup {<<now(t), live(t)>> : t \in Times} : Settles(pair[1], pair[2])
    BY <2>4, <2>5, <2>6 DEF then, now, live
  <2> QED BY <2>7 DEF SettlesOn, then, now, live
<1>4. Inv /\ [Next]_vars => [db' # db /\ Readable(db') => SettlesOn]_db
  BY <1>3
<1> HIDE DEF Inv
<1> QED BY <1>1, <1>2, <1>4, PTL DEF Spec, RevocationPermanent

-----------------------------------------------------------------------------
(* The graph has an edge for every name, and no cycle.                     *)

(* There is a dependency edge from x to i. *)
Rests(s, x, i) == \E e \in dependencyEdges(s.edges) : e.from = x /\ e.to = i

\* The records i names.
Prerequisites(i) ==
    IF i \in Claims THEN Item[i].cites \cup Item[i].assumes
    ELSE IF i \in OfKind("witness") \cup OfKind("assumption") THEN Item[i].cites
    ELSE {}
(* The records a derivation names. *)
Inputs(d) == d.claims \cup d.evidence \cup d.witnesses

(* Every name a stored record or derivation gives has its edge, the names of a bare
   witness excepted. *)
Drawn(s) ==
    /\ \A i \in s.nodes \ s.bare : \A x \in Prerequisites(i) : Rests(s, x, i)
    /\ \A d \in s.derivations : \A x \in Inputs(d) : Rests(s, x, d.output)
(* No record is reached from what rests on it. *)
Acyclic(edges) == \A e \in dependencyEdges(edges) : e.from \notin revocationClosure({e.to}, edges)

(* The inductive invariant: the appends draw the edges of what they store,
   and assertAcyclic refuses the one that would close a cycle. *)
GraphInv == Drawn(db) /\ Acyclic(db.edges) /\ Drawn(work) /\ Acyclic(work.edges)

\* What an append may add to the tables s.
Adds(s, u) ==
    /\ s.nodes \subseteq u.nodes /\ s.edges \subseteq u.edges /\ s.derivations \subseteq u.derivations
    /\ \A f \in dependencyEdges(u.edges \ s.edges) : f.from \notin revocationClosure({f.to}, u.edges)
    /\ s.bare \subseteq u.bare
    /\ \A i \in (u.nodes \ s.nodes) \ u.bare : \A x \in Prerequisites(i) : Rests(u, x, i)
    /\ \A d \in u.derivations \ s.derivations : \A x \in Inputs(d) : Rests(u, x, d.output)

\* What rests on b is reached from whatever reaches b.
LEMMA ReachesOn ==
    ASSUME NEW edges \in SUBSET Edges, NEW a \in Ids, NEW b \in revocationClosure({a}, edges)
    PROVE  b \in Ids /\ revocationClosure({b}, edges) \subseteq revocationClosure({a}, edges)
<1>1. /\ revocationClosure({a}, edges) \in SUBSET Ids
      /\ \A e \in dependencyEdges(edges) :
            e.from \in revocationClosure({a}, edges) => e.to \in revocationClosure({a}, edges)
  BY ClosureBelow
<1>2. b \in Ids /\ {b} \in SUBSET Ids /\ {b} \subseteq revocationClosure({a}, edges)
  BY <1>1
<1> QED BY <1>1, <1>2, ClosureBelow

\* A new edge whose end does not reach its start closes no cycle.
LEMMA AcyclicAdded ==
    ASSUME NEW old \in SUBSET Edges, NEW all \in SUBSET Edges, old \subseteq all, Acyclic(old),
           \A f \in dependencyEdges(all \ old) : f.from \notin revocationClosure({f.to}, all)
    PROVE  Acyclic(all)
<1> SUFFICES ASSUME NEW e \in dependencyEdges(all), e.from \in revocationClosure({e.to}, all) PROVE FALSE
  BY DEF Acyclic
<1>1. e \in old /\ e \in dependencyEdges(old) /\ e.from \in Ids /\ e.to \in Ids
  BY DEF dependencyEdges, Edges
<1> DEFINE A == revocationClosure({e.to}, old)
           C == revocationClosure({e.to}, all)
           B == {x \in Ids : e.from \in revocationClosure({x}, all)}
           T == A \cup (C \ B)
<1>2. /\ A \in SUBSET Ids /\ e.to \in A /\ \A g \in dependencyEdges(old) : g.from \in A => g.to \in A
      /\ C \in SUBSET Ids /\ e.to \in C /\ \A g \in dependencyEdges(all) : g.from \in C => g.to \in C
  <2>1. {e.to} \in SUBSET Ids
    BY <1>1
  <2>2. /\ A \in SUBSET Ids /\ {e.to} \subseteq A /\ \A g \in dependencyEdges(old) : g.from \in A => g.to \in A
    BY <2>1, ClosureBelow
  <2>3. /\ C \in SUBSET Ids /\ {e.to} \subseteq C /\ \A g \in dependencyEdges(all) : g.from \in C => g.to \in C
    BY <2>1, ClosureBelow
  <2> QED BY <2>2, <2>3
<1>3. A \subseteq C
  <2>1. {e.to} \in SUBSET Ids
    BY <1>1
  <2> QED BY <2>1, ClosureGrows
<1>4. e.from \notin A
  BY <1>1 DEF Acyclic
<1>5. e.from \in B
  <2>1. {e.from} \in SUBSET Ids
    BY <1>1
  <2>2. {e.from} \subseteq revocationClosure({e.from}, all)
    BY <2>1, ClosureBelow
  <2> QED BY <1>1, <2>2
<1>6. ASSUME NEW g \in dependencyEdges(all), g.to \in B PROVE g.from \in B
  <2>1. g.from \in Ids /\ g.to \in Ids /\ {g.from} \in SUBSET Ids
    BY DEF dependencyEdges, Edges
  <2>2. g.to \in revocationClosure({g.from}, all)
    BY <2>1, ClosureBelow
  <2>3. revocationClosure({g.to}, all) \subseteq revocationClosure({g.from}, all)
    BY <2>1, <2>2, ReachesOn
  <2> QED BY <1>6, <2>1, <2>3
<1>7. ASSUME NEW f \in dependencyEdges(all \ old), f.from \in C, f.to \in B PROVE FALSE
  <2>1. f.to \in Ids /\ f \in dependencyEdges(all)
    BY DEF dependencyEdges, Edges
  <2>2. e.from \in revocationClosure({f.to}, all)
    BY <1>7
  <2>3. e.to \in revocationClosure({f.to}, all)
    <3>1. {f.to} \in SUBSET Ids
      BY <2>1
    <3> QED BY <2>2, <3>1, ClosureBelow
  <2>4. C \subseteq revocationClosure({f.to}, all)
    BY <2>1, <2>3, ReachesOn
  <2> QED BY <1>7, <2>4
<1>8. ASSUME NEW g \in dependencyEdges(all), g.from \in T PROVE g.to \in T
  <2>1. CASE g \in old /\ g.from \in A
    <3>1. g \in dependencyEdges(old)
      BY <2>1 DEF dependencyEdges
    <3> QED BY <2>1, <3>1, <1>2
  <2>2. CASE g \notin old /\ g.from \in A
    <3>1. g \in dependencyEdges(all \ old)
      BY <2>2 DEF dependencyEdges
    <3>2. g.to \in C /\ g.to \notin B
      BY <2>2, <3>1, <1>2, <1>3, <1>7
    <3> QED BY <3>2
  <2>3. CASE g.from \in C \ B
    BY <2>3, <1>2, <1>6
  <2> QED BY <1>8, <2>1, <2>2, <2>3
<1>9. C \subseteq T
  <2>1. {e.to} \subseteq T /\ {e.to} \in SUBSET Ids
    BY <1>1, <1>2
  <2>2. \A g \in dependencyEdges(all) : g.from \in T => g.to \in T
    BY <1>8
  <2> HIDE DEF T, C
  <2>3. revocationClosure({e.to}, all) \subseteq T
    BY <2>1, <2>2, ClosureBelow
  <2> QED BY <2>3 DEF C
<1> QED BY <1>4, <1>5, <1>9

(* Edges are never lost. *)
LEMMA RestsOn == ASSUME NEW s, NEW u, s.edges \subseteq u.edges, NEW x, NEW i, Rests(s, x, i) PROVE Rests(u, x, i)
  BY DEF Rests, dependencyEdges

(* Such an append keeps both parts of the invariant. *)
LEMMA AddsGraph ==
    ASSUME NEW s \in State, NEW u \in State, Adds(s, u), Drawn(s), Acyclic(s.edges)
    PROVE  Drawn(u) /\ Acyclic(u.edges)
<1>1. s.edges \in SUBSET Edges /\ u.edges \in SUBSET Edges
  BY DEF State
<1>2. Acyclic(u.edges)
  BY <1>1, AcyclicAdded DEF Adds
<1>3. Drawn(u)
  BY RestsOn DEF Adds, Drawn
<1> QED BY <1>2, <1>3

\* Nothing rests on a new record.
LEMMA FreshAdds ==
    ASSUME NEW s \in State, Closed(s), NEW i \in Ids, i \notin s.nodes, NEW E \in SUBSET Edges,
           \A f \in dependencyEdges(E) : f.from \in s.nodes /\ f.to = i,
           NEW u, u.nodes = s.nodes \cup {i}, u.edges = s.edges \cup E, u.derivations = s.derivations,
           s.bare \subseteq u.bare,
           i \notin u.bare =>
               \A x \in Prerequisites(i) : \E f \in dependencyEdges(E) : f.from = x /\ f.to = i
    PROVE  Adds(s, u)
<1>1. u.edges \in SUBSET Edges
  BY DEF State
<1>2. \A g \in dependencyEdges(u.edges) : g.from # i
  BY DEF dependencyEdges, Closed
<1>3. revocationClosure({i}, u.edges) \subseteq {i}
  <2> DEFINE T == {i}
  <2>1. T \in SUBSET Ids /\ T \subseteq T /\ \A g \in dependencyEdges(u.edges) : g.from \in T => g.to \in T
    BY <1>2
  <2> HIDE DEF T
  <2>2. revocationClosure(T, u.edges) \subseteq T
    BY <1>1, <2>1, ClosureBelow
  <2> QED BY <2>2 DEF T
<1>4. ASSUME NEW f \in dependencyEdges(u.edges \ s.edges) PROVE f.from \notin revocationClosure({f.to}, u.edges)
  <2>1. f \in dependencyEdges(E)
    BY DEF dependencyEdges
  <2> QED BY <2>1, <1>3
<1>5. i \notin u.bare => \A x \in Prerequisites(i) : Rests(u, x, i)
  BY DEF Rests, dependencyEdges
<1> QED BY <1>4, <1>5 DEF Adds

(* Every relation but "supersedes" is a dependency. *)
LEMMA EdgeDraws ==
    ASSUME NEW a \in Ids, NEW b \in Ids, NEW r \in Relations \ {"supersedes"}, NEW E, Edge(a, b, r) \in E
    PROVE  \E f \in dependencyEdges(E) : f.from = a /\ f.to = b
  BY EdgeTyped DEF dependencyEdges, Edge

(* A step begins or ends a transaction, or appends to one of the tables: to
   the work of the open transaction, or to both at once outside of one. *)
LEMMA StepAdds ==
    ASSUME TypeOK, [Next]_vars
    PROVE  \/ db' \in {db, work} /\ work' \in {db, work}
           \/ db' = db /\ Adds(work, work')
           \/ work' = db' /\ Adds(db, db')
<1>0. /\ db \in State /\ Closed(db) /\ work \in State /\ Closed(work)
      /\ db.nodes \subseteq Ids /\ work.nodes \subseteq Ids
  BY DEF TypeOK, State
<1>t. db' \in State /\ work' \in State
  BY StepType DEF TypeOK, State, Edges
<1> DEFINE Goal == \/ db' \in {db, work} /\ work' \in {db, work}
                   \/ db' = db /\ Adds(work, work')
                   \/ work' = db' /\ Adds(db, db')
<1>k. ASSUME NEW kind PROVE OfKind(kind) \subseteq Ids
  BY DEF OfKind
<1>r. "supports" \in Relations /\ "assumes" \in Relations /\ "derives" \in Relations
      /\ "depends_on" \in Relations /\ "witnesses" \in Relations /\ "supersedes" \in Relations
  BY DEF Relations
<1>1. CASE Begin \/ Commit \/ Rollback \/ UNCHANGED vars
  BY <1>1 DEF Begin, Commit, Rollback, vars
<1>2. ASSUME NEW i \in OfKind("evidence"), appendEvidence(i) PROVE Goal
  <2>1. /\ db' = db /\ i \notin work.nodes /\ work'.nodes = work.nodes \cup {i}
        /\ work'.edges = work.edges \cup {} /\ work'.derivations = work.derivations
        /\ work'.bare = work.bare
    BY <1>2, <1>0 DEF appendEvidence, InsertNode, State
  <2>2. Prerequisites(i) = {} /\ i \in Ids
    BY <1>k DEF Prerequisites, OfKind, Claims
  <2>3. Adds(work, work')
    BY <2>1, <2>2, <1>0, FreshAdds DEF dependencyEdges
  <2> QED BY <2>1, <2>3
<1>3. ASSUME NEW i \in OfKind("witness"), appendWitness(i) PROVE Goal
  <2> DEFINE E == {Edge(e, i, "supports") : e \in Item[i].cites}
  <2>1. /\ db' = db /\ i \notin work.nodes /\ work'.nodes = work.nodes \cup {i} /\ Item[i].cites \subseteq work.nodes
        /\ work'.edges = work.edges \cup E /\ work'.derivations = work.derivations
        /\ work'.bare = work.bare
    BY <1>3, <1>0 DEF appendWitness, InsertNode, State
  <2>2. Prerequisites(i) = Item[i].cites /\ i \in Ids
    BY <1>k DEF Prerequisites, OfKind, Claims
  <2>3. \A e \in E : e \in Edges /\ e.from \in work.nodes /\ e.to = i
    BY <2>1, <2>2, <1>0, <1>r, EdgeTyped
  <2>4. \A x \in Prerequisites(i) : \E f \in dependencyEdges(E) : f.from = x /\ f.to = i
    <3>1. \A x \in Prerequisites(i) : x \in Ids /\ Edge(x, i, "supports") \in E
      BY <2>1, <2>2, <1>0
    <3> HIDE DEF E
    <3> QED BY <3>1, <2>2, <1>r, EdgeDraws
  <2>5. E \in SUBSET Edges /\ \A f \in dependencyEdges(E) : f.from \in work.nodes /\ f.to = i
    BY <2>3 DEF dependencyEdges
  <2> HIDE DEF E
  <2>6. Adds(work, work')
    BY <2>1, <2>2, <2>4, <2>5, <1>0, FreshAdds
  <2> QED BY <2>1, <2>6
<1>4. ASSUME NEW i \in Claims, appendClaim(i) PROVE Goal
  <2> DEFINE E1 == {Edge(i, s, "supersedes") : s \in Item[i].supersedes}
             E2 == {Edge(e, i, "supports") : e \in Item[i].cites}
             E3 == {Edge(a, i, "assumes") : a \in Item[i].assumes}
             E == E1 \cup E2 \cup E3
  <2>1. /\ db' = db /\ i \notin work.nodes /\ work'.nodes = work.nodes \cup {i}
        /\ work'.edges = work.edges \cup E /\ work'.derivations = work.derivations
        /\ work'.bare = work.bare
        /\ (Item[i].cites \cup Item[i].assumes) \subseteq work.nodes
        /\ \A s \in Item[i].supersedes : s \in work.nodes
    BY <1>4, <1>0 DEF appendClaim, InsertNode, assertClaimSupersession, State
  <2>2. Prerequisites(i) = Item[i].cites \cup Item[i].assumes /\ i \in Ids
    BY <1>k DEF Prerequisites, Claims
  <2>3. \A e \in E1 : e \in Edges /\ e.relation = "supersedes"
    BY <2>1, <2>2, <1>0, <1>r, EdgeTyped DEF Edge
  <2>4. \A e \in E2 : e \in Edges /\ e.from \in work.nodes /\ e.to = i
    BY <2>1, <2>2, <1>0, <1>r, EdgeTyped
  <2>5. \A e \in E3 : e \in Edges /\ e.from \in work.nodes /\ e.to = i
    BY <2>1, <2>2, <1>0, <1>r, EdgeTyped
  <2>6. ASSUME NEW x \in Prerequisites(i) PROVE \E f \in dependencyEdges(E) : f.from = x /\ f.to = i
    <3>1. x \in Ids /\ (Edge(x, i, "supports") \in E \/ Edge(x, i, "assumes") \in E)
      BY <2>1, <2>2, <2>6, <1>0
    <3> HIDE DEF E
    <3> QED BY <3>1, <2>2, <1>r, EdgeDraws
  <2>7. E \in SUBSET Edges /\ \A f \in dependencyEdges(E) : f.from \in work.nodes /\ f.to = i
    BY <2>3, <2>4, <2>5 DEF dependencyEdges
  <2> HIDE DEF E
  <2>8. Adds(work, work')
    BY <2>1, <2>2, <2>6, <2>7, <1>0, FreshAdds
  <2> QED BY <2>1, <2>8
<1>5. ASSUME NEW d \in Derivations, appendDerivation(d) PROVE Goal
  <2> DEFINE E == DerivationEdges(d)
  <2>1. /\ db' = db /\ d \notin work.derivations /\ work'.nodes = work.nodes
        /\ work'.edges = work.edges \cup E /\ work'.derivations = work.derivations \cup {d}
        /\ {d.output} \cup Inputs(d) \subseteq work.nodes /\ ValidEdges(work, E)
    BY <1>5, <1>0 DEF appendDerivation, StoreDerivation, Derivable, Inputs, State
  <2>b. work'.bare = work.bare
    BY <1>5, <1>0 DEF appendDerivation, StoreDerivation, State
  <2>2. work'.edges \ work.edges \subseteq E
    BY <2>1
  <2>3. \A f \in dependencyEdges(work'.edges \ work.edges) : f.from \notin revocationClosure({f.to}, work'.edges)
    BY <2>1, <2>2 DEF ValidEdges, dependencyEdges
  <2>4. ASSUME NEW x \in Inputs(d) PROVE \E f \in dependencyEdges(E) : f.from = x /\ f.to = d.output
    <3>1. x \in Ids /\ d.output \in Ids
      BY <2>1, <1>0
    <3>2. \/ Edge(x, d.output, "depends_on") \in E
          \/ Edge(x, d.output, "derives") \in E
          \/ Edge(x, d.output, "witnesses") \in E
      BY DEF DerivationEdges, Inputs
    <3> HIDE DEF E
    <3> QED BY <3>1, <3>2, <1>r, EdgeDraws
  <2> HIDE DEF E
  <2>5. \A x \in Inputs(d) : Rests(work', x, d.output)
    BY <2>1, <2>4 DEF Rests, dependencyEdges
  <2> QED BY <2>1, <2>b, <2>3, <2>5 DEF Adds
<1>6. ASSUME NEW i \in OfKind("assumption"), appendAssumption(i) PROVE Goal
  <2> DEFINE E == {Edge(e, i, "supports") : e \in Item[i].cites}
  <2>1. /\ work' = db' /\ i \notin db.nodes /\ db'.nodes = db.nodes \cup {i} /\ Item[i].cites \subseteq db.nodes
        /\ db'.edges = db.edges \cup E /\ db'.derivations = db.derivations
        /\ db'.bare = db.bare
    BY <1>6, <1>0 DEF appendAssumption, Alone, State
  <2>2. Prerequisites(i) = Item[i].cites /\ i \in Ids
    BY <1>k DEF Prerequisites, OfKind, Claims
  <2>3. \A e \in E : e \in Edges /\ e.from \in db.nodes /\ e.to = i
    BY <2>1, <2>2, <1>0, <1>r, EdgeTyped
  <2>4. \A x \in Prerequisites(i) : \E f \in dependencyEdges(E) : f.from = x /\ f.to = i
    <3>1. \A x \in Prerequisites(i) : x \in Ids /\ Edge(x, i, "supports") \in E
      BY <2>1, <2>2, <1>0
    <3> HIDE DEF E
    <3> QED BY <3>1, <2>2, <1>r, EdgeDraws
  <2>5. E \in SUBSET Edges /\ \A f \in dependencyEdges(E) : f.from \in db.nodes /\ f.to = i
    BY <2>3 DEF dependencyEdges
  <2> HIDE DEF E
  <2>6. Adds(db, db')
    BY <2>1, <2>2, <2>4, <2>5, <1>0, FreshAdds
  <2> QED BY <2>1, <2>6
<1>7. ASSUME NEW i \in OfKind("decision") \cup OfKind("witness"), appendNode(i) PROVE Goal
  <2>1. /\ work' = db' /\ i \notin db.nodes /\ db'.nodes = db.nodes \cup {i}
        /\ db'.edges = db.edges \cup {} /\ db'.derivations = db.derivations
        /\ db'.bare = db.bare \cup ({i} \cap OfKind("witness"))
    BY <1>7, <1>0 DEF appendNode, Alone, State
  <2>2. i \in Ids /\ (i \notin db'.bare => Prerequisites(i) = {})
    BY <2>1, <1>k DEF Prerequisites, OfKind, Claims
  <2>3. Adds(db, db')
    BY <2>1, <2>2, <1>0, FreshAdds DEF dependencyEdges
  <2> QED BY <2>1, <2>3
<1>8. ASSUME NEW e \in Dependencies, appendDependency(e) PROVE Goal
  <2>1. /\ work' = db' /\ db'.nodes = db.nodes /\ db'.edges = db.edges \cup {e}
        /\ db'.derivations = db.derivations /\ db'.bare = db.bare /\ ValidEdges(db, {e})
    BY <1>8, <1>0 DEF appendDependency, Alone, State
  <2>2. \A f \in dependencyEdges(db'.edges \ db.edges) : f.from \notin revocationClosure({f.to}, db'.edges)
    BY <2>1 DEF ValidEdges, dependencyEdges
  <2> QED BY <2>1, <2>2 DEF Adds
<1>9. ASSUME NEW event \in Events, NEW target \in Revocable, NEW at \in Times,
             appendRevocation(event, target, at)
      PROVE  Goal
  <2>1. /\ work' = db' /\ db'.nodes = db.nodes /\ db'.edges = db.edges /\ db'.derivations = db.derivations /\ db'.bare = db.bare
    BY <1>9, <1>0 DEF appendRevocation, Alone, State
  <2>2. dependencyEdges(db'.edges \ db.edges) = {}
    BY <2>1 DEF dependencyEdges
  <2> QED BY <2>1, <2>2 DEF Adds
<1> QED BY <1>1, <1>2, <1>3, <1>4, <1>5, <1>6, <1>7, <1>8, <1>9 DEF Next

(* Empty tables have no edges. *)
LEMMA InitGraph == Init => GraphInv
<1> SUFFICES ASSUME Init PROVE GraphInv
  OBVIOUS
<1>1. Drawn(Empty) /\ Acyclic(Empty.edges)
  BY DEF Empty, Drawn, Acyclic, dependencyEdges
<1> QED BY <1>1 DEF Init, GraphInv

(* Every step keeps the graph drawn and free of cycles. *)
LEMMA StepGraph == ASSUME TypeOK, GraphInv, [Next]_vars PROVE GraphInv'
<1>1. db \in State /\ work \in State
  BY DEF TypeOK
<1>2. db' \in State /\ work' \in State
  BY StepType DEF TypeOK, State, Edges
<1>3. Drawn(db) /\ Acyclic(db.edges) /\ Drawn(work) /\ Acyclic(work.edges)
  BY DEF GraphInv
<1>4. Drawn(db') /\ Acyclic(db'.edges) /\ Drawn(work') /\ Acyclic(work'.edges)
  <2>1. CASE db' \in {db, work} /\ work' \in {db, work}
    BY <2>1, <1>3
  <2>2. CASE db' = db /\ Adds(work, work')
    BY <2>2, <1>1, <1>2, <1>3, AddsGraph
  <2>3. CASE work' = db' /\ Adds(db, db')
    BY <2>3, <1>1, <1>2, <1>3, AddsGraph
  <2> QED BY <2>1, <2>2, <2>3, StepAdds
<1> QED BY <1>4 DEF GraphInv, Drawn, Acyclic, Rests, dependencyEdges, revocationClosure

-----------------------------------------------------------------------------
(* Revocation reaches everything that rests on what is revoked.            *)

\* A revoked record is visible, and so is, revoked, what rests on it by then.
LEMMA RevokedVisible ==
    ASSUME NEW s \in State, Closed(s), NEW t \in Nat
    PROVE  /\ replayAsOf(s, t).revocation.revoked \subseteq {i \in s.nodes : Item[i].at <= t}
           /\ \A e \in dependencyEdges(s.edges) :
                 /\ e.from \in replayAsOf(s, t).revocation.revoked
                 /\ Item[e.to].at <= t
                 => e.to \in replayAsOf(s, t).revocation.revoked
<1> DEFINE g == asOfGraph(s, t)
           E == {e \in revocationEvents(s) : e.recordedAt <= t /\ e.target \in g.nodes}
           now == {e.target : e \in {x \in E : x.effectiveAt <= t}}
           N == {i \in s.nodes : Item[i].at <= t}
           R == replayAsOf(s, t).revocation.revoked
<1>1. R = revocationClosure(now, g.edges)
  BY DEF replayAsOf, splitByEffectiveness, projectRevocationWithPending
<1>2. g.nodes = N /\ g.edges = {e \in s.edges : e.from \in N /\ e.to \in N}
  BY DEF asOfGraph
<1>3. s.edges \subseteq Edges /\ N \subseteq Ids
  BY DEF State
<1>4. now \in SUBSET N /\ now \in SUBSET Ids
  BY <1>2, <1>3
<1>5. g.edges \in SUBSET Edges /\ \A e \in dependencyEdges(g.edges) : e.from \in N /\ e.to \in N
  BY <1>2, <1>3 DEF dependencyEdges
<1> HIDE DEF g, now, N
<1>6. R \subseteq N /\ \A e \in dependencyEdges(g.edges) : e.from \in R => e.to \in R
  BY <1>1, <1>4, <1>5, ClosureBelow
<1>7. ASSUME NEW e \in dependencyEdges(s.edges), e.from \in R, Item[e.to].at <= t PROVE e.to \in R
  <2>1. e \in s.edges /\ e.to \in s.nodes
    BY DEF dependencyEdges, Closed
  <2>2. e.from \in N /\ e.to \in N
    BY <1>6, <1>7, <2>1 DEF N
  <2>3. e \in dependencyEdges(g.edges)
    BY <1>2, <2>1, <2>2 DEF dependencyEdges
  <2> QED BY <1>6, <1>7, <2>3
<1> QED BY <1>6, <1>7 DEF N

(* In a ledger that reads, at every boundary of a replay, whatever rests on a
   revoked record is revoked itself: a claim by what it cites or assumes, a
   witness by its evidence, the output of a derivation by any of its inputs,
   and whatever an operator linked by hand.  The closure follows the edges, so
   this needs every name to have its edge, in whatever order the appends came. *)
THEOREM RevocationRuns == Spec => []RevocationReaches
<1>1. Init => TypeOK /\ GraphInv
  BY InitType, InitGraph
<1>2. TypeOK /\ GraphInv /\ [Next]_vars => (TypeOK /\ GraphInv)'
  BY StepType, StepGraph
<1>3. ASSUME TypeOK, GraphInv PROVE RevocationReaches
  <2> SUFFICES ASSUME ~inTransaction, Readable(db), NEW t \in Times
      PROVE LET revoked == replayAsOf(db, t).revocation.revoked
                Falls(i, prerequisites) == (Item[i].at <= t /\ prerequisites \cap revoked # {}) => i \in revoked
            IN  /\ \A c \in StoredClaims : Falls(c, Item[c].cites \cup Item[c].assumes)
                /\ \A i \in db.nodes \cap (OfKind("witness") \cup OfKind("assumption")) : Falls(i, Item[i].cites)
                /\ \A d \in db.derivations : Falls(d.output, d.claims \cup d.evidence \cup d.witnesses)
                /\ \A e \in dependencyEdges(db.edges) : Falls(e.to, {e.from})
    BY DEF RevocationReaches
  <2> DEFINE R == replayAsOf(db, t).revocation.revoked
  <2>1. db \in State /\ Closed(db) /\ t \in Nat /\ Drawn(db) /\ db.bare = {}
    BY <1>3, CatalogueAssumption DEF TypeOK, GraphInv, Readable
  <2>2. \A e \in dependencyEdges(db.edges) : e.from \in R /\ Item[e.to].at <= t => e.to \in R
    BY <2>1, RevokedVisible
  <2> HIDE DEF R
  <2>3. \A x, i : Rests(db, x, i) /\ x \in R /\ Item[i].at <= t => i \in R
    BY <2>2 DEF Rests
  <2>4. \A c \in StoredClaims : Item[c].at <= t /\ (Item[c].cites \cup Item[c].assumes) \cap R # {} => c \in R
    <3>1. \A c \in StoredClaims : c \in db.nodes /\ Prerequisites(c) = Item[c].cites \cup Item[c].assumes
      BY DEF StoredClaims, Prerequisites
    <3> QED BY <2>1, <2>3, <3>1 DEF Drawn
  <2>5. \A i \in db.nodes \cap (OfKind("witness") \cup OfKind("assumption")) :
           Item[i].at <= t /\ Item[i].cites \cap R # {} => i \in R
    <3>1. \A i \in OfKind("witness") \cup OfKind("assumption") : Prerequisites(i) = Item[i].cites
      BY DEF OfKind, Claims, Prerequisites
    <3> QED BY <2>1, <2>3, <3>1 DEF Drawn
  <2>6. \A d \in db.derivations :
           Item[d.output].at <= t /\ (d.claims \cup d.evidence \cup d.witnesses) \cap R # {} => d.output \in R
    BY <2>1, <2>3 DEF Drawn, Inputs
  <2> QED BY <2>2, <2>4, <2>5, <2>6 DEF R
<1>4. TypeOK /\ GraphInv => RevocationReaches
  BY <1>3
<1> QED BY <1>1, <1>2, <1>4, PTL DEF Spec

-----------------------------------------------------------------------------
(* Causal claims are grounded.                                             *)

\* A graph without a cycle has a rank that rises along its edges: how many
\* records are not reached.
LEMMA EdgesRank ==
    ASSUME NEW edges \in SUBSET Edges, Acyclic(edges)
    PROVE  \E rank \in [Ids -> Nat], n \in Nat :
               /\ \A e \in dependencyEdges(edges) : rank[e.from] < rank[e.to]
               /\ \A i \in Ids : rank[i] < n
<1> DEFINE reach(c) == revocationClosure({c}, edges)
           rank == [c \in Ids |-> Cardinality(Ids \ reach(c))]
           n == Cardinality(Ids) + 1
<1>0. IsFiniteSet(Ids) /\ Cardinality(Ids) \in Nat /\ n \in Nat
  BY CatalogueAssumption, FS_CardinalityType
<1>1. ASSUME NEW c \in Ids PROVE IsFiniteSet(Ids \ reach(c)) /\ Cardinality(Ids \ reach(c)) \in Nat
                                /\ Cardinality(Ids \ reach(c)) < n
  <2> DEFINE X == Ids \ reach(c)
  <2>1. X \subseteq Ids
    OBVIOUS
  <2> HIDE DEF X
  <2>2. IsFiniteSet(X) /\ Cardinality(X) <= Cardinality(Ids)
    BY <1>0, <2>1, FS_Subset
  <2>3. Cardinality(X) \in Nat
    BY <2>2, FS_CardinalityType
  <2>4. Cardinality(X) < n
    BY <1>0, <2>2, <2>3
  <2> QED BY <2>2, <2>3, <2>4 DEF X
<1> HIDE DEF n
<1>2. ASSUME NEW e \in dependencyEdges(edges) PROVE rank[e.from] < rank[e.to]
  <2> DEFINE X == Ids \ reach(e.from)
             Y == Ids \ reach(e.to)
  <2>1. e.from \in Ids /\ e.to \in Ids /\ {e.from} \in SUBSET Ids
    BY DEF dependencyEdges, Edges
  <2>2. e.from \in reach(e.from) /\ e.to \in reach(e.from)
    BY <2>1, ClosureBelow
  <2>3. reach(e.to) \subseteq reach(e.from)
    BY <2>1, <2>2, ReachesOn
  <2>4. e.from \notin reach(e.to)
    BY DEF Acyclic
  <2>5. X \subseteq Y /\ X # Y
    BY <2>1, <2>2, <2>3, <2>4
  <2>6. IsFiniteSet(Y) /\ Cardinality(X) \in Nat /\ Cardinality(Y) \in Nat
    BY <1>1, <2>1
  <2>7. rank[e.from] = Cardinality(X) /\ rank[e.to] = Cardinality(Y)
    BY <2>1
  <2> HIDE DEF X, Y
  <2>8. Cardinality(X) <= Cardinality(Y) /\ Cardinality(X) # Cardinality(Y)
    BY <2>5, <2>6, FS_Subset, Zenon
  <2>9. Cardinality(X) < Cardinality(Y)
    BY <2>6, <2>8
  <2> QED BY <2>7, <2>9
<1>3. rank \in [Ids -> Nat] /\ \A i \in Ids : rank[i] < n
  BY <1>1
<1> HIDE DEF rank
<1> QED BY <1>0, <1>2, <1>3

(* Of stored causal claims, one of the lowest rank has a producer that rests
   on none of the others. *)
LEMMA Grounds ==
    ASSUME TypeOK, GraphInv, DebtInv, NEW S \in SUBSET {c \in StoredClaims : Item[c].causal}, S # {}
    PROVE  \E d \in db.derivations :
               /\ d.output \in S /\ d.claims # {}
               /\ Identified(d) \/ \A x \in d.claims : Item[x].causal /\ x \notin S
<1>0. db.edges \in SUBSET Edges /\ Drawn(db) /\ Acyclic(db.edges)
  BY DEF TypeOK, State, GraphInv
<1>1. PICK rank \in [Ids -> Nat] : \A e \in dependencyEdges(db.edges) : rank[e.from] < rank[e.to]
  BY <1>0, EdgesRank
<1>2. \A c \in S : c \in Ids /\ rank[c] \in Nat
  BY DEF StoredClaims, Claims, OfKind
<1>3. PICK c \in S : \A b \in S : rank[c] <= rank[b]
  <2> DEFINE L == {rank[b] : b \in S}
  <2>1. L \subseteq Nat /\ L # {}
    BY <1>2
  <2> HIDE DEF L
  <2>2. PICK m \in L : \A n \in L : m <= n
    BY <2>1, Least
  <2> QED BY <2>2 DEF L
<1>4. c \in StoredClaims /\ Item[c].causal
  OBVIOUS
<1>5. Licensed(db, c)
  BY <1>4 DEF DebtInv, CausalInv, EmptyFrame, StoredClaims
<1>6. PICK d \in db.derivations : d.output = c /\ d.claims # {} /\ (Identified(d) \/ \A x \in d.claims : Item[x].causal)
  BY <1>5 DEF Licensed
<1>7. ASSUME NEW x \in d.claims, x \in S PROVE FALSE
  <2>1. rank[x] < rank[c]
    BY <1>0, <1>1, <1>6 DEF Drawn, Inputs, Rests
  <2>2. rank[c] <= rank[x] /\ rank[x] \in Nat /\ rank[c] \in Nat
    BY <1>2, <1>3, <1>7
  <2> QED BY <2>1, <2>2
<1> QED BY <1>6, <1>7

(* No set of committed causal claims supports only itself: one of them has a
   producer that is identified or starts from causal claims outside the set.
   DebtInv gives every causal claim a producer, the absence of cycles in the
   graph a claim of the lowest rank. *)
THEOREM CausesAreGrounded == Spec => []CausalGrounded
<1>1. Init => TypeOK /\ GraphInv /\ DebtInv
  BY InitType, InitGraph, InitDebt
<1>2. TypeOK /\ GraphInv /\ DebtInv /\ [Next]_vars => (TypeOK /\ GraphInv /\ DebtInv)'
  BY StepType, StepGraph, StepDebt
<1>3. TypeOK /\ GraphInv /\ DebtInv => CausalGrounded
  BY Grounds DEF CausalGrounded
<1> QED BY <1>1, <1>2, <1>3, PTL DEF Spec

-----------------------------------------------------------------------------
(* A claim has one current revision.                                       *)

(* What directly revises a claim of a set. *)
Revises(s) == [S \in SUBSET Claims |-> {j \in Claims \cap s.nodes : Item[j].supersedes \cap S # {}}]

(* Revisions is the closure of that function. *)
LEMMA RevisionsIs == ASSUME NEW c PROVE Revisions(c) = Closure(Revises(db), Claims)[{c}]
<1> DEFINE more(S) == {j \in StoredClaims : Item[j].supersedes \cap S # {}}
           step(f) == [S \in SUBSET Claims |-> IF more(S) \subseteq S THEN S ELSE f[S \cup more(S)]]
<1>1. Revisions(c) = (CHOOSE f : f = step(f))[{c}]
  BY DEF Revisions
<1>2. \A S \in SUBSET Claims : Revises(db)[S] = more(S)
  BY DEF Revises, StoredClaims
<1> HIDE DEF more
<1>3. \A f : step(f) = Grow(Revises(db), SUBSET Claims, f)
  BY <1>2 DEF Grow
<1> HIDE DEF step
<1>4. (CHOOSE f : f = step(f)) = (CHOOSE f : f = Grow(Revises(db), SUBSET Claims, f))
  BY <1>3
<1> QED BY <1>1, <1>4 DEF Closure

\* The least set that holds c and, with a claim, what revises it.
LEMMA RevisionsLeast ==
    ASSUME NEW c \in Claims
    PROVE  /\ Revisions(c) \in SUBSET Claims /\ c \in Revisions(c)
           /\ \A j \in StoredClaims : \A x \in Item[j].supersedes : x \in Revisions(c) => j \in Revisions(c)
           /\ \A T : c \in T /\ (\A j \in StoredClaims : \A x \in Item[j].supersedes : x \in T => j \in T)
                        => Revisions(c) \subseteq T
<1> DEFINE R == Revisions(c)
           g == Revises(db)
           root == {c}
<1>1. \A S \in SUBSET Claims : g[S] = {j \in StoredClaims : Item[j].supersedes \cap S # {}}
  BY DEF Revises, StoredClaims
<1>2. g \in [SUBSET Claims -> SUBSET Claims]
  BY DEF Revises
<1>3. IsFiniteSet(Claims)
  <2>1. Claims \subseteq Ids
    BY DEF Claims, OfKind
  <2> QED BY <2>1, CatalogueAssumption, FS_Subset
<1>4. R = Closure(g, Claims)[root] /\ root \in SUBSET Claims
  BY RevisionsIs
<1> HIDE DEF R, g, root
<1>5. /\ R \in SUBSET Claims /\ root \subseteq R /\ g[R] \subseteq R
      /\ \A T : root \subseteq T /\ (\A Q \in SUBSET Claims : Q \subseteq T => g[Q] \subseteq T) => R \subseteq T
  BY <1>2, <1>3, <1>4, ClosureLeast
<1>6. ASSUME NEW j \in StoredClaims, NEW x \in Item[j].supersedes, x \in R PROVE j \in R
  BY <1>1, <1>5, <1>6
<1>7. ASSUME NEW T, c \in T, \A j \in StoredClaims : \A x \in Item[j].supersedes : x \in T => j \in T
      PROVE  R \subseteq T
  <2>1. \A Q \in SUBSET Claims : Q \subseteq T => g[Q] \subseteq T
    BY <1>1, <1>7
  <2> QED BY <1>5, <1>7, <2>1 DEF root
<1> QED BY <1>5, <1>6, <1>7 DEF R, root

\* A stored revision is later than what it revises, and its only one.
InTurn(s) ==
    /\ \A i \in Claims \cap s.nodes : \A x \in Item[i].supersedes : x \in s.nodes /\ Item[x].at < Item[i].at
    /\ \A i, j \in Claims \cap s.nodes : \A x \in Item[i].supersedes : x \in Item[j].supersedes => i = j

(* The inductive invariant: of the stored tables and of the open work. *)
RevisionInv == InTurn(db) /\ InTurn(work)

(* Nothing is revised yet. *)
LEMMA InitRevision == Init => RevisionInv
  BY DEF Init, Empty, RevisionInv, InTurn

(* appendClaim refuses a second revision of a claim, and one that is not later. *)
LEMMA StepRevision == ASSUME TypeOK, RevisionInv, [Next]_vars PROVE RevisionInv'
<1>0. /\ db \in State /\ work \in State /\ InTurn(db) /\ InTurn(work)
  BY DEF TypeOK, RevisionInv
<1> SUFFICES InTurn(db') /\ InTurn(work')
  BY DEF RevisionInv, InTurn
<1>1. ASSUME NEW s, NEW u, InTurn(s), s.nodes \subseteq u.nodes, Claims \cap u.nodes = Claims \cap s.nodes PROVE InTurn(u)
  BY <1>1 DEF InTurn
<1>2. CASE Begin \/ Commit \/ Rollback \/ UNCHANGED vars
  <2>1. db' \in {db, work} /\ work' \in {db, work}
    BY <1>2 DEF Begin, Commit, Rollback, vars
  <2> QED BY <2>1, <1>0
<1>3. ASSUME NEW i, i \in OfKind("evidence") \cup OfKind("witness"), appendEvidence(i) \/ appendWitness(i)
      PROVE  InTurn(db') /\ InTurn(work')
  <2>1. db' = db /\ work'.nodes = work.nodes \cup {i}
    BY <1>3, <1>0 DEF appendEvidence, appendWitness, InsertNode, State
  <2>2. i \notin Claims
    BY <1>3 DEF OfKind, Claims
  <2> QED BY <2>1, <2>2, <1>0, <1>1
<1>4. ASSUME NEW i \in Claims, appendClaim(i) PROVE InTurn(db') /\ InTurn(work')
  <2>1. /\ db' = db /\ work'.nodes = work.nodes \cup {i} /\ i \notin work.nodes
        /\ assertClaimSupersession(i)
    BY <1>4, <1>0 DEF appendClaim, InsertNode, State
  <2>2. /\ \A x \in Item[i].supersedes : x \in work.nodes /\ Item[x].at < Item[i].at
        /\ \A x \in Item[i].supersedes : \A j \in Claims \cap work.nodes : x \notin Item[j].supersedes
    BY <2>1 DEF assertClaimSupersession
  <2>3. InTurn(work')
    BY <2>1, <2>2, <1>0 DEF InTurn
  <2> QED BY <2>1, <2>3, <1>0
<1>5. ASSUME NEW d \in Derivations, appendDerivation(d) PROVE InTurn(db') /\ InTurn(work')
  <2>1. db' = db /\ work'.nodes = work.nodes
    BY <1>5, <1>0 DEF appendDerivation, StoreDerivation, State
  <2> QED BY <2>1, <1>0, <1>1
<1>6. ASSUME NEW i, i \in OfKind("assumption") \cup OfKind("decision") \cup OfKind("witness"),
             appendAssumption(i) \/ appendNode(i)
      PROVE  InTurn(db') /\ InTurn(work')
  <2>1. work' = db' /\ db'.nodes = db.nodes \cup {i}
    BY <1>6, <1>0 DEF appendAssumption, appendNode, Alone, State
  <2>2. i \notin Claims
    BY <1>6 DEF OfKind, Claims
  <2> QED BY <2>1, <2>2, <1>0, <1>1
<1>7. ASSUME NEW e \in Dependencies, appendDependency(e) PROVE InTurn(db') /\ InTurn(work')
  <2>1. work' = db' /\ db'.nodes = db.nodes
    BY <1>7, <1>0 DEF appendDependency, Alone, State
  <2> QED BY <2>1, <1>0, <1>1
<1>8. ASSUME NEW event \in Events, NEW target \in Revocable, NEW at \in Times,
             appendRevocation(event, target, at)
      PROVE  InTurn(db') /\ InTurn(work')
  <2>1. work' = db' /\ db'.nodes = db.nodes
    BY <1>8, <1>0 DEF appendRevocation, Alone, State
  <2> QED BY <2>1, <1>0, <1>1
<1> QED BY <1>2, <1>3, <1>4, <1>5, <1>6, <1>7, <1>8 DEF Next

\* Of two revisions of a claim one revises the other.
LEMMA RevisionsChain ==
    ASSUME InTurn(db), NEW c \in Claims, NEW x \in Revisions(c), NEW y \in Revisions(c)
    PROVE  y \in Revisions(x) \/ x \in Revisions(y)
<1> DEFINE T == {z \in Revisions(c) : z \in Revisions(x) \/ x \in Revisions(z)}
<1>1. x \in Claims /\ Revisions(c) \subseteq Claims /\ c \in Revisions(c)
      /\ \A j \in StoredClaims : \A z \in Item[j].supersedes : z \in Revisions(c) => j \in Revisions(c)
  BY RevisionsLeast
<1>2. ASSUME NEW z \in Claims, NEW j \in StoredClaims, z \in Item[j].supersedes
      PROVE  Revisions(z) \subseteq {z} \cup Revisions(j)
  <2> DEFINE U == {z} \cup Revisions(j)
  <2>1. j \in Revisions(j) /\ \A k \in StoredClaims : \A w \in Item[k].supersedes : w \in Revisions(j) => k \in Revisions(j)
    BY RevisionsLeast DEF StoredClaims
  <2>2. \A k \in StoredClaims : z \in Item[k].supersedes => k = j
    BY <1>2 DEF InTurn, StoredClaims
  <2>3. z \in U /\ \A k \in StoredClaims : \A w \in Item[k].supersedes : w \in U => k \in U
    BY <2>1, <2>2
  <2> HIDE DEF U
  <2>4. Revisions(z) \subseteq U
    BY <2>3, RevisionsLeast
  <2> QED BY <2>4 DEF U
<1>3. ASSUME NEW j \in StoredClaims, NEW z \in Item[j].supersedes, z \in T PROVE j \in T
  <2>1. j \in Revisions(c) /\ z \in Claims
    BY <1>1, <1>3
  <2>2. CASE z \in Revisions(x)
    <3>1. j \in Revisions(x)
      BY <1>1, <2>2, RevisionsLeast
    <3> QED BY <2>1, <3>1
  <2>3. CASE x \in Revisions(z) /\ x # z
    <3>1. x \in Revisions(j)
      BY <1>2, <2>1, <2>3
    <3> QED BY <2>1, <3>1
  <2>4. CASE x = z
    <3>1. z \in Revisions(x)
      BY <1>1, <2>4, RevisionsLeast
    <3> QED BY <2>2, <3>1
  <2> QED BY <1>3, <2>2, <2>3, <2>4
<1>4. c \in T
  BY <1>1
<1> HIDE DEF T
<1>5. Revisions(c) \subseteq T
  BY <1>3, <1>4, RevisionsLeast
<1> QED BY <1>5 DEF T

(* What is visible of the revisions of a visible claim is a chain that rises
   in time, and its last member is the only one that nothing visible revises. *)
LEMMA RevisedOnce ==
    ASSUME TypeOK, InTurn(db), NEW t \in Times, NEW c \in StoredClaims, Item[c].at <= t
    PROVE  Cardinality(Revisions(c) \cap latestClaims(db, t)) = 1
<1> DEFINE V == {i \in StoredClaims : Item[i].at <= t}
           L == latestClaims(db, t)
           R == Revisions(c)
<1>0. /\ StoredClaims \subseteq Claims /\ Claims \subseteq Ids /\ t \in Nat
      /\ \A i \in Claims : Item[i].at \in Nat
  BY CatalogueAssumption DEF StoredClaims, Claims, OfKind
<1>1. L = {i \in V : \A j \in V : i \notin Item[j].supersedes}
  BY DEF latestClaims, StoredClaims
<1>2. /\ R \in SUBSET Claims /\ c \in R
      /\ \A j \in StoredClaims : \A x \in Item[j].supersedes : x \in R => j \in R
  BY <1>0, RevisionsLeast
<1>3. \A i \in StoredClaims : \A x \in Item[i].supersedes : Item[x].at < Item[i].at
  BY DEF InTurn, StoredClaims
<1> HIDE DEF L
<1>4. ASSUME NEW x \in R \cap L, NEW y \in Revisions(x), y \in L PROVE y = x
  <2> DEFINE T == {x} \cup {z \in Claims : ~ (Item[z].at <= t)}
  <2>1. ASSUME NEW j \in StoredClaims, NEW z \in Item[j].supersedes, z \in T PROVE j \in T
    <3>1. CASE z = x
      BY <1>0, <1>1, <1>4, <3>1
    <3>2. CASE z \in Claims /\ ~ (Item[z].at <= t)
      <4>1. Item[z].at < Item[j].at /\ Item[z].at \in Nat /\ Item[j].at \in Nat /\ j \in Claims
        BY <1>0, <1>3, <3>2
      <4>2. ~ (Item[j].at <= t)
        BY <1>0, <3>2, <4>1
      <4> QED BY <4>1, <4>2
    <3> QED BY <2>1, <3>1, <3>2
  <2>2. x \in Claims /\ x \in T
    BY <1>2
  <2> HIDE DEF T
  <2>3. Revisions(x) \subseteq T
    BY <2>1, <2>2, RevisionsLeast
  <2> QED BY <1>1, <1>4, <2>3 DEF T
<1>5. ASSUME NEW x \in R \cap L, NEW y \in R \cap L PROVE x = y
  <2>1. y \in Revisions(x) \/ x \in Revisions(y)
    BY <1>0, RevisionsChain
  <2> QED BY <1>4, <2>1
<1>6. PICK m \in R \cap V : \A x \in R \cap V : t - Item[m].at <= t - Item[x].at
  <2> DEFINE M == {t - Item[x].at : x \in R \cap V}
  <2>1. \A x \in R \cap V : t - Item[x].at \in Nat
    BY <1>0
  <2>2. M \subseteq Nat /\ M # {}
    <3>1. c \in R \cap V
      BY <1>2
    <3> QED BY <2>1, <3>1
  <2> HIDE DEF M
  <2>3. PICK n \in M : \A k \in M : n <= k
    BY <2>2, Least
  <2> QED BY <2>3 DEF M
<1>7. m \in L
  <2> SUFFICES ASSUME NEW j \in V, m \in Item[j].supersedes PROVE FALSE
    BY <1>1
  <2>1. j \in R \cap V /\ Item[m].at < Item[j].at
    BY <1>2, <1>3
  <2>2. t - Item[m].at <= t - Item[j].at /\ Item[m].at \in Nat /\ Item[j].at \in Nat
    BY <1>0, <1>6, <2>1
  <2> QED BY <1>0, <2>1, <2>2
<1>8. R \cap L = {m}
  BY <1>5, <1>6, <1>7
<1> QED BY <1>8, FS_Singleton DEF L

(* At every boundary of a replay a visible claim has exactly one current
   revision: its revisions neither branch nor die out, however they were
   recorded. *)
THEOREM OneCurrentRevision == Spec => []OneRevision
<1>1. Init => TypeOK /\ RevisionInv
  BY InitType, InitRevision
<1>2. TypeOK /\ RevisionInv /\ [Next]_vars => (TypeOK /\ RevisionInv)'
  BY StepType, StepRevision
<1>3. TypeOK /\ RevisionInv => OneRevision
  BY RevisedOnce DEF OneRevision, RevisionInv
<1> QED BY <1>1, <1>2, <1>3, PTL DEF Spec

-----------------------------------------------------------------------------
(* Chains of derivations stay within what they license.                    *)

\* Every derivation of D concludes a claim of a higher rank than its inputs.
Ranked(rank, D) == \A d \in D : \A x \in d.claims : rank[x] < rank[d.output]

(* The derivations that conclude c. *)
Producers(D, c) == {d \in D : d.output = c}
(* The bound of c if f bounds what its derivations start from. *)
BoundOf(D, f, c) ==
    IF Producers(D, c) = {} THEN {Item[c].basis, "none"}
    ELSE meetBases({derivedBound(d, {f[x] : x \in d.claims}) : d \in Producers(D, c)})
(* That bound for all claims of a set. *)
BoundStep(D, X, f) == [c \in X |-> BoundOf(D, f, c)]

(* ChainBounds is what the recursion chooses. *)
LEMMA BoundsIs == ASSUME NEW D PROVE ChainBounds(D) = CHOOSE f : f = BoundStep(D, Claims, f)
  BY DEF ChainBounds, BoundStep, BoundOf, Producers

(* A bound is judged by the producers of the claim and the bounds they start from. *)
LEMMA BoundOfSame ==
    ASSUME NEW D1, NEW D2, NEW c, Producers(D1, c) = Producers(D2, c), NEW f, NEW h,
           \A d \in Producers(D1, c) : \A x \in d.claims : f[x] = h[x]
    PROVE  BoundOf(D1, f, c) = BoundOf(D2, h, c)
<1>1. ASSUME NEW d \in Producers(D1, c) PROVE {f[x] : x \in d.claims} = {h[x] : x \in d.claims}
  OBVIOUS
<1>2. {derivedBound(d, {f[x] : x \in d.claims}) : d \in Producers(D1, c)}
      = {derivedBound(d, {h[x] : x \in d.claims}) : d \in Producers(D2, c)}
  BY <1>1
<1> QED BY <1>2 DEF BoundOf

(* The claims below a rank. *)
LowRanked(rank, n) == {c \in Claims : rank[c] < n}

\* The bounds of the claims below a rank are well defined.
LEMMA BoundStage ==
    ASSUME NEW D \in SUBSET Derivations, NEW rank \in [Claims -> Nat], Ranked(rank, D), NEW n \in Nat
    PROVE  \E f : f = BoundStep(D, LowRanked(rank, n), f)
<1> DEFINE G == {m \in Nat : \E f : f = BoundStep(D, LowRanked(rank, m), f)}
<1>1. ASSUME NEW m \in Nat, \A k \in Nat : k < m => k \in G PROVE m \in G
  <2>1. CASE m = 0
    <3>1. LowRanked(rank, m) = {}
      BY <2>1 DEF LowRanked
    <3>2. \A f, h : BoundStep(D, LowRanked(rank, m), f) = BoundStep(D, LowRanked(rank, m), h)
      BY <3>1 DEF BoundStep
    <3>3. \E f : f = BoundStep(D, LowRanked(rank, m), f)
      BY <3>2, Zenon
    <3> QED BY <3>3
  <2>2. CASE m # 0
    <3>1. m - 1 \in Nat /\ m - 1 < m
      BY <2>2
    <3>2. m - 1 \in G
      BY <3>1, <1>1
    <3>3. PICK f : f = BoundStep(D, LowRanked(rank, m - 1), f)
      BY <3>2
    <3> DEFINE h == BoundStep(D, LowRanked(rank, m), f)
    <3>4. ASSUME NEW c \in LowRanked(rank, m), NEW d \in Producers(D, c), NEW x \in d.claims
          PROVE  x \in LowRanked(rank, m - 1)
      <4>1. d \in D /\ d.output = c /\ x \in Claims /\ c \in Claims
        BY CatalogueAssumption DEF Producers, LowRanked
      <4>2. rank[x] < rank[c] /\ rank[c] < m /\ rank[x] \in Nat /\ rank[c] \in Nat
        BY <4>1 DEF Ranked, LowRanked
      <4>3. rank[x] < m - 1
        BY <4>2
      <4> QED BY <4>1, <4>3 DEF LowRanked
    <3>5. \A c \in LowRanked(rank, m - 1) : c \in LowRanked(rank, m)
      BY <3>1 DEF LowRanked
    <3>6. \A c \in LowRanked(rank, m - 1) : f[c] = BoundOf(D, f, c)
      BY <3>3 DEF BoundStep
    <3>7. \A c \in LowRanked(rank, m) : h[c] = BoundOf(D, f, c)
      BY DEF BoundStep
    <3>8. \A c \in LowRanked(rank, m - 1) : h[c] = f[c]
      BY <3>5, <3>6, <3>7
    <3> HIDE DEF h
    <3>9. ASSUME NEW c \in LowRanked(rank, m) PROVE BoundOf(D, f, c) = BoundOf(D, h, c)
      <4>1. \A d \in Producers(D, c) : \A x \in d.claims : f[x] = h[x]
        BY <3>4, <3>8
      <4> QED BY <4>1, BoundOfSame
    <3>10. BoundStep(D, LowRanked(rank, m), f) = BoundStep(D, LowRanked(rank, m), h)
      BY <3>9 DEF BoundStep
    <3>11. h = BoundStep(D, LowRanked(rank, m), h)
      BY <3>10 DEF h
    <3>12. \E k : k = BoundStep(D, LowRanked(rank, m), k)
      BY <3>11
    <3> QED BY <3>12
  <2> QED BY <2>1, <2>2
<1> HIDE DEF G
<1>2. Nat \subseteq G
  BY <1>1, Everywhere
<1> QED BY <1>2 DEF G

(* So ChainBounds solves its own equation. *)
LEMMA BoundsAt ==
    ASSUME NEW D \in SUBSET Derivations, NEW rank \in [Claims -> Nat], Ranked(rank, D),
           NEW n \in Nat, \A c \in Claims : rank[c] < n
    PROVE  \A c \in Claims : ChainBounds(D)[c] = BoundOf(D, ChainBounds(D), c)
<1> DEFINE f == ChainBounds(D)
<1>1. LowRanked(rank, n) = Claims
  BY DEF LowRanked
<1>2. \E h : h = BoundStep(D, Claims, h)
  BY <1>1, BoundStage
<1>3. f = BoundStep(D, Claims, f)
  BY <1>2, BoundsIs
<1> HIDE DEF f
<1>4. \A c \in Claims : f[c] = BoundOf(D, f, c)
  BY <1>3 DEF BoundStep
<1> QED BY <1>4 DEF f

\* Derivations that conclude nothing of W, a set that holds with a claim all it
\* was derived from, change no bound in W.
LEMMA BoundsAgree ==
    ASSUME NEW D1 \in SUBSET Derivations, NEW D2 \in SUBSET Derivations, D1 \subseteq D2,
           NEW rank \in [Claims -> Nat], Ranked(rank, D2), NEW n \in Nat, \A c \in Claims : rank[c] < n,
           NEW W \in SUBSET Claims, \A d \in D2 : d.output \in W => d \in D1 /\ d.claims \subseteq W
    PROVE  \A c \in W : ChainBounds(D1)[c] = ChainBounds(D2)[c]
<1> DEFINE f == ChainBounds(D1)
           h == ChainBounds(D2)
           G == {m \in Nat : \A c \in W : rank[c] = m => f[c] = h[c]}
<1>1. Ranked(rank, D1)
  BY DEF Ranked
<1>2. /\ \A c \in Claims : f[c] = BoundOf(D1, f, c)
      /\ \A c \in Claims : h[c] = BoundOf(D2, h, c)
  <2>1. \A c \in Claims : f[c] = BoundOf(D1, f, c)
    BY <1>1, BoundsAt
  <2>2. \A c \in Claims : h[c] = BoundOf(D2, h, c)
    BY BoundsAt
  <2> QED BY <2>1, <2>2
<1> HIDE DEF f, h
<1>3. ASSUME NEW m \in Nat, \A k \in Nat : k < m => k \in G PROVE m \in G
  <2> SUFFICES ASSUME NEW c \in W, rank[c] = m PROVE f[c] = h[c]
    OBVIOUS
  <2>1. Producers(D1, c) = Producers(D2, c)
    BY DEF Producers
  <2>2. ASSUME NEW d \in Producers(D1, c), NEW x \in d.claims PROVE f[x] = h[x]
    <3>1. d \in D2 /\ d.output = c /\ x \in W /\ x \in Claims
      BY DEF Producers
    <3>2. rank[x] < m /\ rank[x] \in Nat
      BY <3>1 DEF Ranked
    <3>3. rank[x] \in G
      BY <3>2, <1>3
    <3> QED BY <3>1, <3>3
  <2>3. BoundOf(D1, f, c) = BoundOf(D2, h, c)
    BY <2>1, <2>2, BoundOfSame
  <2> QED BY <2>3, <1>2
<1>4. \A c \in W : rank[c] \in Nat
  OBVIOUS
<1> HIDE DEF G
<1>5. Nat \subseteq G
  BY <1>3, Everywhere
<1>6. \A c \in W : f[c] = h[c]
  BY <1>4, <1>5 DEF G
<1> QED BY <1>6 DEF f, h

(* What the producers of a set of claims start from. *)
Feeds(D) == [S \in SUBSET Claims |-> UNION {x.claims : x \in {y \in D : y.output \in S}}]

(* Upstream is the closure of that function. *)
LEMMA UpstreamIs == ASSUME NEW D, NEW d PROVE Upstream(D, d) = Closure(Feeds(D), Claims)[d.claims]
<1> DEFINE more(S) == UNION {x.claims : x \in {y \in D : y.output \in S}}
           step(f) == [S \in SUBSET Claims |-> IF more(S) \subseteq S THEN S ELSE f[S \cup more(S)]]
<1>1. Upstream(D, d) = (CHOOSE f : f = step(f))[d.claims]
  BY DEF Upstream
<1>2. \A S \in SUBSET Claims : Feeds(D)[S] = more(S)
  BY DEF Feeds
<1> HIDE DEF more
<1>3. \A f : step(f) = Grow(Feeds(D), SUBSET Claims, f)
  BY <1>2 DEF Grow
<1> HIDE DEF step
<1>4. (CHOOSE f : f = step(f)) = (CHOOSE f : f = Grow(Feeds(D), SUBSET Claims, f))
  BY <1>3
<1> QED BY <1>1, <1>4 DEF Closure

\* The least set that holds what d starts from and, with a claim, what the
\* derivations of it start from.
LEMMA UpstreamLeast ==
    ASSUME NEW D \in SUBSET Derivations, NEW d \in Derivations
    PROVE  /\ Upstream(D, d) \in SUBSET Claims /\ d.claims \subseteq Upstream(D, d)
           /\ \A y \in D : y.output \in Upstream(D, d) => y.claims \subseteq Upstream(D, d)
           /\ \A T : d.claims \subseteq T /\ (\A y \in D : y.output \in T => y.claims \subseteq T)
                        => Upstream(D, d) \subseteq T
<1> DEFINE R == Upstream(D, d)
           g == Feeds(D)
           root == d.claims
<1>1. \A S \in SUBSET Claims : g[S] = UNION {x.claims : x \in {y \in D : y.output \in S}}
  BY DEF Feeds
<1>0. \A y \in D : y.claims \subseteq Claims
  BY CatalogueAssumption
<1>2. g \in [SUBSET Claims -> SUBSET Claims]
  BY <1>0 DEF Feeds
<1>3. IsFiniteSet(Claims)
  <2>1. Claims \subseteq Ids
    BY DEF Claims, OfKind
  <2> QED BY <2>1, CatalogueAssumption, FS_Subset
<1>4. R = Closure(g, Claims)[root] /\ root \in SUBSET Claims
  BY UpstreamIs, CatalogueAssumption
<1> HIDE DEF R, g, root
<1>5. /\ R \in SUBSET Claims /\ root \subseteq R /\ g[R] \subseteq R
      /\ \A T : root \subseteq T /\ (\A Q \in SUBSET Claims : Q \subseteq T => g[Q] \subseteq T) => R \subseteq T
  BY <1>2, <1>3, <1>4, ClosureLeast
<1>6. ASSUME NEW y \in D, y.output \in R PROVE y.claims \subseteq R
  BY <1>1, <1>5, <1>6
<1>7. ASSUME NEW T, root \subseteq T, \A y \in D : y.output \in T => y.claims \subseteq T
      PROVE  R \subseteq T
  <2>1. \A Q \in SUBSET Claims : Q \subseteq T => g[Q] \subseteq T
    BY <1>1, <1>7
  <2> QED BY <1>5, <1>7, <2>1
<1> QED BY <1>5, <1>6, <1>7 DEF R, root

(* A derivation concludes within the bound of its inputs, unless its output or
   something upstream of it got another producer when it was already in use. *)
Chained(D, late) ==
    \A d \in D : (d.claims # {} /\ ({d.output} \cup Upstream(D, d)) \cap late = {}) => StepWithinBound(D, d)

(* The inductive invariant: of the stored tables and of the open work. *)
ChainInv == Chained(db.derivations, db.late) /\ Chained(work.derivations, work.late)

\* A bound is judged by the bounds of what the step starts from.
LEMMA StepSame ==
    ASSUME NEW D1, NEW D2, NEW d, \A x \in d.claims : ChainBounds(D1)[x] = ChainBounds(D2)[x]
    PROVE  StepWithinBound(D1, d) <=> StepWithinBound(D2, d)
<1> DEFINE f == ChainBounds(D1)
           h == ChainBounds(D2)
<1> HIDE DEF f, h
<1>1. \A x \in d.claims : f[x] = h[x]
  BY DEF f, h
<1>2. {f[x] : x \in d.claims} = {h[x] : x \in d.claims}
  BY <1>1
<1>3. /\ StepWithinBound(D1, d) <=> Item[d.output].basis \in derivedBound(d, {f[x] : x \in d.claims})
      /\ StepWithinBound(D2, d) <=> Item[d.output].basis \in derivedBound(d, {h[x] : x \in d.claims})
  BY DEF StepWithinBound, f, h
<1> QED BY <1>2, <1>3

\* A derivation of a claim nobody started from changes no bound it or another
\* one rests on; one of a claim in use makes that claim late.
LEMMA ChainAdded ==
    ASSUME NEW D1 \in SUBSET Derivations, NEW n \in Derivations, NEW late, NEW late2, late \subseteq late2,
           (\E x \in D1 : n.output \in x.claims) => n.output \in late2,
           NEW rank \in [Claims -> Nat], Ranked(rank, D1 \cup {n}), NEW top \in Nat, \A c \in Claims : rank[c] < top,
           Chained(D1, late), n.claims # {} => StepWithinBound(D1, n)
    PROVE  Chained(D1 \cup {n}, late2)
<1> DEFINE D2 == D1 \cup {n}
<1>0. D2 \in SUBSET Derivations /\ D1 \subseteq D2
  OBVIOUS
<1> SUFFICES ASSUME NEW d \in D2, d.claims # {}, ({d.output} \cup Upstream(D2, d)) \cap late2 = {}
             PROVE  StepWithinBound(D2, d)
  BY DEF Chained
<1> DEFINE W == Upstream(D2, d)
<1>1. /\ W \in SUBSET Claims /\ d.claims \subseteq W /\ \A y \in D2 : y.output \in W => y.claims \subseteq W
      /\ \A T : d.claims \subseteq T /\ (\A y \in D2 : y.output \in T => y.claims \subseteq T) => W \subseteq T
  BY <1>0, UpstreamLeast
<1>2. \A x \in n.claims : x # n.output
  <2>1. n.output \in Claims /\ rank[n.output] \in Nat /\ n \in D2
    BY CatalogueAssumption
  <2> QED BY <2>1 DEF Ranked
<1> HIDE DEF W
<1>3. n.output \notin W
  <2> SUFFICES ASSUME n.output \in W PROVE FALSE
    OBVIOUS
  <2>1. \A x \in D1 : n.output \notin x.claims
    BY DEF W
  <2> DEFINE T == {z \in Claims : z # n.output}
  <2>2. \A y \in D2 : y.claims \subseteq T
    BY <1>0, <1>2, <2>1, CatalogueAssumption
  <2>3. n.output \notin T
    OBVIOUS
  <2> HIDE DEF T
  <2>4. W \subseteq T
    BY <1>1, <2>2
  <2> QED BY <2>3, <2>4
<1>4. \A y \in D2 : y.output \in W => y \in D1 /\ y.claims \subseteq W
  BY <1>1, <1>3
<1>5. \A c \in W : ChainBounds(D1)[c] = ChainBounds(D2)[c]
  <2> HIDE DEF D2
  <2>1. Ranked(rank, D2)
    BY DEF D2
  <2> QED BY <1>0, <1>1, <1>4, <2>1, BoundsAgree
<1>6. StepWithinBound(D1, d)
  <2>1. CASE d = n
    BY <2>1
  <2>2. CASE d \in D1
    <3>1. /\ d.claims \subseteq W /\ \A y \in D1 : y.output \in W => y.claims \subseteq W
      BY <1>1
    <3>2. Upstream(D1, d) \subseteq W
      BY <2>2, <3>1, UpstreamLeast
    <3> QED BY <2>2, <3>2 DEF Chained, W
  <2> QED BY <2>1, <2>2
<1> HIDE DEF D2
<1>7. \A x \in d.claims : ChainBounds(D1)[x] = ChainBounds(D2)[x]
  BY <1>1, <1>5
<1> QED BY <1>6, <1>7, StepSame

\* A graph with an edge for every input and no cycle ranks its derivations.
LEMMA DrawnRanked ==
    ASSUME NEW s \in State, Drawn(s), Acyclic(s.edges)
    PROVE  \E rank \in [Claims -> Nat], n \in Nat : Ranked(rank, s.derivations) /\ \A c \in Claims : rank[c] < n
<1>1. s.edges \in SUBSET Edges /\ s.derivations \subseteq Derivations
  BY DEF State
<1>2. PICK r \in [Ids -> Nat], n \in Nat :
         /\ \A e \in dependencyEdges(s.edges) : r[e.from] < r[e.to]
         /\ \A i \in Ids : r[i] < n
  BY <1>1, EdgesRank
<1> DEFINE rank == [c \in Claims |-> r[c]]
<1>3. Claims \subseteq Ids
  BY DEF Claims, OfKind
<1>4. rank \in [Claims -> Nat] /\ \A c \in Claims : rank[c] < n
  BY <1>2, <1>3
<1>5. ASSUME NEW d \in s.derivations, NEW x \in d.claims PROVE rank[x] < rank[d.output]
  <2>1. r[x] < r[d.output]
    BY <1>2 DEF Drawn, Inputs, Rests
  <2>2. x \in Claims /\ d.output \in Claims
    BY <1>1, CatalogueAssumption
  <2> QED BY <2>1, <2>2
<1> HIDE DEF rank
<1>6. Ranked(rank, s.derivations)
  BY <1>5 DEF Ranked
<1> QED BY <1>4, <1>6

(* There are no derivations. *)
LEMMA InitChain == Init => ChainInv
  BY DEF Init, Empty, ChainInv, Chained

(* appendDerivation judges a derivation by the bounds as they are then; GraphInv
   ranks the claims, with it and without it. *)
LEMMA StepChain == ASSUME TypeOK, GraphInv, ChainInv, [Next]_vars PROVE ChainInv'
<1>0. /\ db \in State /\ work \in State
      /\ Chained(db.derivations, db.late) /\ Chained(work.derivations, work.late)
  BY DEF TypeOK, ChainInv
<1> DEFINE Goal == Chained(db'.derivations, db'.late) /\ Chained(work'.derivations, work'.late)
<1>s. Goal => ChainInv'
  BY DEF ChainInv, Chained, Upstream, StepWithinBound, ChainBounds
<1>1. CASE Begin \/ Commit \/ Rollback \/ UNCHANGED vars
  <2>1. db' \in {db, work} /\ work' \in {db, work}
    BY <1>1 DEF Begin, Commit, Rollback, vars
  <2> QED BY <1>0, <1>s, <2>1
<1>2. ASSUME NEW i, appendEvidence(i) \/ appendWitness(i) \/ appendClaim(i) PROVE Goal
  <2>1. db' = db /\ work'.derivations = work.derivations /\ work'.late = work.late
    BY <1>0, <1>2 DEF appendEvidence, appendWitness, appendClaim, InsertNode, State
  <2> QED BY <1>0, <2>1
<1>3. ASSUME NEW d \in Derivations, appendDerivation(d) PROVE Goal
  <2>1. /\ db' = db /\ d \notin work.derivations /\ work'.derivations = work.derivations \cup {d}
        /\ work'.late = IF \E x \in work.derivations : d.output \in x.claims THEN work.late \cup {d.output} ELSE work.late
        /\ d.claims # {} => assertChainWithinBound(work, d)
    BY <1>0, <1>3 DEF appendDerivation, StoreDerivation, Derivable, State
  <2>2. d.claims # {} => StepWithinBound(work.derivations, d)
    <3>1. work.derivations \ {d} = work.derivations
      BY <2>1
    <3> QED BY <2>1, <3>1 DEF assertChainWithinBound
  <2>3. work' \in State /\ Drawn(work') /\ Acyclic(work'.edges)
    <3>1. TypeOK' /\ GraphInv'
      BY StepType, StepGraph
    <3>2. work' \in State
      BY <3>1 DEF TypeOK, State, Edges
    <3>3. Drawn(work') /\ Acyclic(work'.edges)
      BY <3>1 DEF GraphInv, Drawn, Acyclic, Rests, dependencyEdges, revocationClosure
    <3> QED BY <3>2, <3>3
  <2>4. PICK rank \in [Claims -> Nat], n \in Nat : Ranked(rank, work'.derivations) /\ \A c \in Claims : rank[c] < n
    BY <2>3, DrawnRanked
  <2>5. /\ work.late \subseteq work'.late
        /\ (\E x \in work.derivations : d.output \in x.claims) => d.output \in work'.late
    BY <2>1
  <2>6. work.derivations \in SUBSET Derivations
    BY <1>0 DEF State
  <2>7. Chained(work.derivations \cup {d}, work'.late)
    <3>1. Ranked(rank, work.derivations \cup {d})
      BY <2>1, <2>4
    <3> HIDE <2>1
    <3> QED BY <1>0, <2>2, <2>4, <2>5, <2>6, <3>1, ChainAdded
  <2> QED BY <1>0, <2>1, <2>7
<1>4. ASSUME NEW u, Alone(u), u.derivations = db.derivations, u.late = db.late PROVE Goal
  BY <1>0, <1>4 DEF Alone
<1>5. ASSUME NEW i, appendAssumption(i) \/ appendNode(i) PROVE Goal
  BY <1>0, <1>4, <1>5 DEF appendAssumption, appendNode, State
<1>6. ASSUME NEW e \in Dependencies, appendDependency(e) PROVE Goal
  BY <1>0, <1>4, <1>6 DEF appendDependency, State
<1>7. ASSUME NEW event \in Events, NEW target \in Revocable, NEW at \in Times,
             appendRevocation(event, target, at)
      PROVE  Goal
  BY <1>0, <1>4, <1>7 DEF appendRevocation, State
<1> HIDE DEF Goal
<1> QED BY <1>s, <1>1, <1>2, <1>3, <1>5, <1>6, <1>7 DEF Next

(* However many legal derivations are put in a row, none concludes a basis its
   inputs do not bound, the bounds being those of everything stored since;
   only a second producer of a claim that is already in use escapes this. *)
THEOREM ChainsHold == Spec => []ChainHolds
<1>1. Init => TypeOK /\ GraphInv /\ ChainInv
  BY InitType, InitGraph, InitChain
<1>2. TypeOK /\ GraphInv /\ ChainInv /\ [Next]_vars => (TypeOK /\ GraphInv /\ ChainInv)'
  BY StepType, StepGraph, StepChain
<1>3. ChainInv => ChainHolds
  BY DEF ChainInv, Chained, ChainHolds
<1> QED BY <1>1, <1>2, <1>3, PTL DEF Spec
=============================================================================
