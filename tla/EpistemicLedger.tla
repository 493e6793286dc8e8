--------------------------- MODULE EpistemicLedger ---------------------------
(***************************************************************************)
(* The epistemic ledger (src/epistemic/ledger.ts with dag.ts,              *)
(* revocation.ts, derivation.ts, obligation.ts and abstract.ts):           *)
(* append-only evidence, assumptions, claims, witnesses and derivations,   *)
(* the dependency graph they span, the revocations that run along it, and  *)
(* the replay of all of it as it stood at an earlier instant.              *)
(*                                                                         *)
(* A transaction appends records one at a time.  A claim may say more than *)
(* its evidence when it is appended; the derivation that licenses it can   *)
(* only follow, so the debt is settled at COMMIT.  A refused append throws *)
(* and takes the whole transaction with it, as a crash does.  A record     *)
(* offered again changes nothing.                                          *)
(*                                                                         *)
(* A record is known by its id; Item says what the record of each id is.   *)
(* The causal axis, with the rungs observational and above, stands for the *)
(* ordered axes of a profile; the grain and scope of claims and the trust  *)
(* ceilings of their evidence are left out.                                *)
(***************************************************************************)
EXTENDS Naturals, FiniteSets

CONSTANTS
    Item,            \* the record offered under each id
    Derivations,     \* the derivations offered
    Dependencies,    \* the dependency edges an operator may add
    Events,          \* the ids of revocation events
    Revocable,       \* the ids an operator may revoke
    Times,           \* instants
    MaxDerivations, MaxDependencies, MaxRevocations, MaxBatch   \* bounds

Ids == DOMAIN Item
OfKind(kind) == {i \in Ids : Item[i].kind = kind}
Claims == OfKind("claim")
Relations == {"supports", "assumes", "derives", "depends_on", "witnesses", "supersedes"}
Edges == [from : Ids, to : Ids, relation : Relations]
Edge(from, to, relation) == [from |-> from, to |-> to, relation |-> relation]

\* A finite catalogue of dated records; a derivation has a claim for its output.
ASSUME CatalogueAssumption ==
    /\ IsFiniteSet(Ids)
    /\ Times \subseteq Nat /\ \A i \in Ids : Item[i].at \in Nat
    /\ \A i \in OfKind("evidence") \cup Claims : \A v \in Item[i].envelope :
          v.event \in Events /\ v.effectiveAt \in Nat
    /\ \A d \in Derivations :
          /\ d.output \in Claims /\ d.claims \subseteq Claims
          /\ d.evidence \subseteq OfKind("evidence") /\ d.witnesses \subseteq OfKind("witness")
    /\ Dependencies \subseteq Edges

VARIABLES
    db,             \* the committed tables
    work,           \* the tables as the open transaction sees them
    frame,          \* its StrengtheningFrame
    inTransaction

vars == <<db, work, frame, inTransaction>>

Empty ==
    [nodes |-> {}, edges |-> {}, derivations |-> {}, revocations |-> {},
     bare |-> {},   \* nodes of kind witness that have no payload
     late |-> {}]   \* auxiliary: claims given a producer after they were used
EmptyFrame ==
    [pending |-> {}, legalized |-> {}, monetaryPending |-> {}, monetaryLegalized |-> {}]

-----------------------------------------------------------------------------
(* The dependency graph.                                                   *)

dependencyEdges(edges) == {e \in edges : e.relation # "supersedes"}

\* Everything that can no longer be certified once roots are revoked.
revocationClosure(roots, edges) ==
    LET from == dependencyEdges(edges)
        close[S \in SUBSET Ids] ==
            LET more == {e.to : e \in {d \in from : d.from \in S}}
            IN  IF more \subseteq S THEN S ELSE close[S \cup more]
    IN  close[roots]

ValidEdges_AnyCycle(state, new) ==
    /\ \A e \in new : {e.from, e.to} \subseteq state.nodes /\ e.from # e.to
    /\ new \cap state.edges = {}

\* createEpistemicDag of the stored graph and new edges.
ValidEdges(state, new) ==
    /\ \A e \in new : {e.from, e.to} \subseteq state.nodes /\ e.from # e.to
    /\ new \cap state.edges = {}
    /\ \A e \in dependencyEdges(new) : e.from \notin revocationClosure({e.to}, state.edges \cup new)

-----------------------------------------------------------------------------
(* Replay.                                                                 *)

\* graph() returns, and with it every read and every append but a revocation: it
\* throws on a witness without payload.
Readable(state) == state.bare = {}

asOfGraph(state, t) ==
    LET available == {i \in state.nodes : Item[i].at <= t}
    IN  [nodes |-> available,
         edges |-> {e \in state.edges : e.from \in available /\ e.to \in available}]

\* The records that declare their own revocation: known with the record,
\* effective when they say.
Declarations ==
    UNION {{[event |-> v.event, target |-> i, recordedAt |-> Item[i].at, effectiveAt |-> v.effectiveAt] :
               v \in Item[i].envelope} :
           i \in OfKind("evidence") \cup Claims}

envelopeRevocations(state) == {v \in Declarations : v.target \in state.nodes}

\* An operator's revocation is effective the instant it is recorded.
revocationEvents(state) ==
    {[event |-> r.event, target |-> r.target, recordedAt |-> r.recordedAt, effectiveAt |-> r.recordedAt] :
        r \in state.revocations} \cup envelopeRevocations(state)

\* A node below an effective and a pending root is revoked.
projectRevocationWithPending(graph, effective, pending) ==
    LET revoked == revocationClosure(effective, graph.edges)
    IN  [revoked |-> revoked,
         pending |-> revocationClosure(effective \cup pending, graph.edges) \ revoked]

splitByEffectiveness(graph, events, t) ==
    projectRevocationWithPending(graph,
        {e.target : e \in {x \in events : x.effectiveAt <= t}},
        {e.target : e \in {x \in events : x.effectiveAt > t}})

replayAsOf_AnyRecorded(state, t) ==
    LET graph == asOfGraph(state, t)
    IN  [graph |-> graph,
         revocation |-> splitByEffectiveness(graph,
             {e \in revocationEvents(state) : e.target \in graph.nodes}, t)]

\* Knowledge time first, effective time second.
replayAsOf(state, t) ==
    LET graph == asOfGraph(state, t)
    IN  [graph |-> graph,
         revocation |-> splitByEffectiveness(graph,
             {e \in revocationEvents(state) : e.recordedAt <= t /\ e.target \in graph.nodes}, t)]

revocationProjection_TableOnly(state, now) ==
    splitByEffectiveness([nodes |-> state.nodes, edges |-> state.edges],
        revocationEvents(state) \ envelopeRevocations(state), now)

\* The live projection: everything stored, at the current instant.
revocationProjection(state, now) ==
    splitByEffectiveness([nodes |-> state.nodes, edges |-> state.edges], revocationEvents(state), now)

latestClaims(state, t) ==
    LET visible == {i \in Claims \cap state.nodes : Item[i].at <= t}
    IN  {i \in visible : \A j \in visible : i \notin Item[j].supersedes}

-----------------------------------------------------------------------------
(* What a direct claim owes.                                               *)

citedBases(c) == UNION {Item[e].basis : e \in Item[c].cites}

\* "none" when nothing is owed.
directClaimMonetarySource(c) ==
    IF Item[c].basis \notin {"billed", "allocated"} THEN "none"
    ELSE IF Cardinality(citedBases(c)) > 1 THEN "mixed"
    ELSE IF "estimated" \in citedBases(c) THEN "estimated"
    ELSE "none"

-----------------------------------------------------------------------------
(* What a derivation may conclude.                                         *)

monetaryRebasing(from, to) == from # to /\ to \notin {"none", "mixed"}

\* The kinds assessDerivationLegality requires of the step from s to o.
RequiredWitnesses(s, o) ==
    {k \in {"causal_transport", "causal_identification", "monetary_rebasing"} :
        \/ k = "causal_transport" /\ Item[o].causal /\ Item[s].coordinate # Item[o].coordinate
        \/ k = "causal_identification" /\ Item[o].causal /\ ~Item[s].causal
        \/ k = "monetary_rebasing" /\ monetaryRebasing(Item[s].basis, Item[o].basis)}

assessWitnessObligation(w, s, o) ==
    CASE Item[w].proves = "causal_transport" ->
             /\ Item[w].transport = <<s, o>>
             /\ Item[w].cites \cap (Item[o].cites \ Item[s].cites) # {}
      [] Item[w].proves = "causal_identification" -> Item[w].cites \cap Item[o].cites # {}
      [] OTHER -> Item[w].change = <<Item[s].basis, Item[o].basis>>

\* The witnesses of d that count for its input s; revoked is what was known
\* to be revoked when the output was issued.
Discharging(d, s, revoked) ==
    {w \in d.witnesses :
        /\ Item[w].supported
        /\ assessWitnessObligation(w, s, d.output)
        /\ Item[w].proves = "causal_transport" => ({w, s} \cup Item[w].cites) \cap revoked = {}}

Legal(d, revoked) ==
    \A s \in d.claims : \A k \in RequiredWitnesses(s, d.output) :
        \E w \in Discharging(d, s, revoked) : Item[w].proves = k

MonetaryDischarged(d, revoked) ==
    \E s \in d.claims : \E w \in Discharging(d, s, revoked) :
        /\ Item[w].proves = "monetary_rebasing"
        /\ Item[w].change = <<directClaimMonetarySource(d.output), Item[d.output].basis>>

-----------------------------------------------------------------------------
(* The money a chain of derivations licenses (abstract.ts).                *)

\* What all inputs license; "none" withholds and is always licensed.
meetBases(bounds) ==
    LET asserted == {b \ {"none"} : b \in bounds} \ {{}}
    IN  CASE {} \in bounds -> {}
          [] asserted = {} -> {"none"}
          [] Cardinality(asserted) = 1 -> UNION asserted \cup {"none"}
          [] OTHER -> {"mixed", "none"}

declaredRebasings(d) ==
    {Item[w].change : w \in {x \in d.witnesses : Item[x].proves = "monetary_rebasing" /\ Item[x].supported}}

\* A derivation with nothing to rest on licenses nothing.
derivedBound(d, inputs) ==
    LET met == meetBases(inputs)
    IN  IF d.claims = {} \/ met = {} THEN {}
        ELSE met \cup {c[2] : c \in {x \in declaredRebasings(d) : x[1] \in met \ {"none"}}}

\* The bound of every claim under the derivations of an acyclic graph: a leaf
\* is taken at face value, several producers are all prerequisites.
ChainBounds(derivations) ==
    LET bound[c \in Claims] ==
            LET producers == {d \in derivations : d.output = c}
            IN  IF producers = {} THEN {Item[c].basis, "none"}
                ELSE meetBases({derivedBound(d, {bound[s] : s \in d.claims}) : d \in producers})
    IN  bound

StepWithinBound(derivations, d) ==
    LET bounds == ChainBounds(derivations)
    IN  Item[d.output].basis \in derivedBound(d, {bounds[s] : s \in d.claims})

\* The claims d rests on, through the derivations stored.
Upstream(derivations, d) ==
    LET close[S \in SUBSET Claims] ==
            LET more == UNION {x.claims : x \in {y \in derivations : y.output \in S}}
            IN  IF more \subseteq S THEN S ELSE close[S \cup more]
    IN  close[d.claims]

assertChainWithinBound_LastHop(state, d) ==
    Item[d.output].basis \in derivedBound(d, {{Item[s].basis, "none"} : s \in d.claims})

\* Neither the conclusion of d nor any stored one it rests on says more than
\* its chain licenses.
assertChainWithinBound(state, d) ==
    LET stored == state.derivations \ {d}
        steps == {x \in stored : x.output \in Upstream(stored, d)}
    IN  \A x \in steps \cup {d} : StepWithinBound(stored, x)

-----------------------------------------------------------------------------
Init ==
    /\ db = Empty /\ work = Empty
    /\ frame = EmptyFrame /\ inTransaction = FALSE

Begin ==
    /\ ~inTransaction /\ inTransaction' = TRUE
    /\ UNCHANGED <<db, work, frame>>

Appended == Cardinality(work.nodes \ db.nodes) + Cardinality(work.derivations \ db.derivations)

InsertNode(i, edges) ==
    /\ Readable(work)
    /\ i \notin work.nodes
    /\ work' = [work EXCEPT !.nodes = @ \cup {i}, !.edges = @ \cup edges]

\* A step of its own transaction.
Alone(state) ==
    /\ ~inTransaction
    /\ db' = state /\ work' = state
    /\ UNCHANGED <<frame, inTransaction>>

\* An envelope may name an event nobody recorded, not one recorded for another node.
assertRevocationEnvelopeLinksConsistently(i) ==
    \A v \in Item[i].envelope : \A r \in work.revocations : r.event = v.event => r.target = i

appendEvidence(i) ==
    /\ inTransaction /\ Appended < MaxBatch
    /\ assertRevocationEnvelopeLinksConsistently(i)
    /\ InsertNode(i, {})
    /\ UNCHANGED <<db, frame, inTransaction>>

appendWitness_NoEdges(i) ==
    /\ inTransaction /\ Appended < MaxBatch
    /\ Item[i].cites \subseteq work.nodes
    /\ InsertNode(i, {})
    /\ UNCHANGED <<db, frame, inTransaction>>

appendWitness(i) ==
    /\ inTransaction /\ Appended < MaxBatch
    /\ Item[i].cites \subseteq work.nodes
    /\ InsertNode(i, {Edge(e, i, "supports") : e \in Item[i].cites})
    /\ UNCHANGED <<db, frame, inTransaction>>

assertClaimSupersession_Branches(i) ==
    \A s \in Item[i].supersedes :
        /\ s \in work.nodes
        /\ Item[s].coordinate = Item[i].coordinate
        /\ Item[s].at < Item[i].at

\* A successor is later than what it revises, at the same coordinate, and the first.
assertClaimSupersession(i) ==
    \A s \in Item[i].supersedes :
        /\ s \in work.nodes
        /\ Item[s].coordinate = Item[i].coordinate
        /\ Item[s].at < Item[i].at
        /\ \A j \in Claims \cap work.nodes : s \notin Item[j].supersedes

appendClaim(i) ==
    /\ inTransaction /\ Appended < MaxBatch
    /\ assertRevocationEnvelopeLinksConsistently(i)
    /\ (Item[i].cites \cup Item[i].assumes) \subseteq work.nodes
    /\ assertClaimSupersession(i)
    /\ InsertNode(i, {Edge(i, s, "supersedes") : s \in Item[i].supersedes}
                     \cup {Edge(e, i, "supports") : e \in Item[i].cites}
                     \cup {Edge(a, i, "assumes") : a \in Item[i].assumes})
    /\ frame' = [frame EXCEPT
           !.pending = IF Item[i].causal THEN @ \cup {i} ELSE @,
           !.monetaryPending = IF directClaimMonetarySource(i) # "none" THEN @ \cup {i} ELSE @]
    /\ UNCHANGED <<db, inTransaction>>

DerivationEdges(d) ==
    {Edge(e, d.output, "depends_on") : e \in d.evidence}
    \cup {Edge(c, d.output, "derives") : c \in d.claims}
    \cup {Edge(w, d.output, "witnesses") : w \in d.witnesses}

\* appendDerivation accepts d.
Derivable(state, d) ==
    /\ Readable(state)
    /\ {d.output} \cup d.evidence \cup d.claims \cup d.witnesses \subseteq state.nodes
    /\ Legal(d, replayAsOf(state, Item[d.output].at).revocation.revoked)
    /\ d \notin state.derivations => ValidEdges(state, DerivationEdges(d))
    /\ d.claims # {} => assertChainWithinBound(state, d)

StoreDerivation(d) ==
    work' = [work EXCEPT
        !.derivations = @ \cup {d},
        !.edges = @ \cup DerivationEdges(d),
        !.late = IF \E x \in work.derivations : d.output \in x.claims THEN @ \cup {d.output} ELSE @]

appendDerivation_AnyRebasing(d) ==
    /\ inTransaction /\ Appended < MaxBatch
    /\ Cardinality(work.derivations) < MaxDerivations
    /\ d \notin work.derivations /\ Derivable(work, d)
    /\ StoreDerivation(d)
    /\ frame' = [frame EXCEPT
           !.legalized = IF d.claims # {} THEN @ \cup {d.output} ELSE @,
           !.monetaryLegalized = IF d.claims # {} THEN @ \cup {d.output} ELSE @]
    /\ UNCHANGED <<db, inTransaction>>

\* Only a derivation with an input claim has been through the legality check,
\* so only one settles a debt of its output.
appendDerivation(d) ==
    /\ inTransaction /\ Appended < MaxBatch
    /\ Cardinality(work.derivations) < MaxDerivations
    /\ d \notin work.derivations /\ Derivable(work, d)
    /\ StoreDerivation(d)
    /\ frame' = [frame EXCEPT
           !.legalized = IF d.claims # {} THEN @ \cup {d.output} ELSE @,
           !.monetaryLegalized =
               IF /\ d.output \in frame.monetaryPending
                  /\ MonetaryDischarged(d, replayAsOf(work, Item[d.output].at).revocation.revoked)
               THEN @ \cup {d.output} ELSE @]
    /\ UNCHANGED <<db, inTransaction>>

\* assertStrengtheningDischarged
Commit ==
    /\ inTransaction /\ inTransaction' = FALSE
    /\ frame.pending \subseteq frame.legalized
    /\ frame.monetaryPending \subseteq frame.monetaryLegalized
    /\ db' = work /\ frame' = EmptyFrame
    /\ UNCHANGED work

\* A refused append, an outstanding debt or the death of the process.
Rollback ==
    /\ inTransaction /\ inTransaction' = FALSE
    /\ work' = db /\ frame' = EmptyFrame
    /\ UNCHANGED db

appendAssumption(i) ==
    /\ Readable(db)
    /\ i \notin db.nodes /\ Item[i].cites \subseteq db.nodes
    /\ Alone([db EXCEPT !.nodes = @ \cup {i},
                        !.edges = @ \cup {Edge(e, i, "supports") : e \in Item[i].cites}])

\* A measurement or a decision has no payload of its own.  A witness has, but a bare
\* node of that kind is accepted too.
appendNode(i) ==
    /\ Readable(db)
    /\ i \notin db.nodes
    /\ Alone([db EXCEPT !.nodes = @ \cup {i}, !.bare = @ \cup ({i} \cap OfKind("witness"))])

appendDependency(e) ==
    /\ Readable(db)
    /\ Cardinality(db.edges \cap Dependencies) < MaxDependencies
    /\ ValidEdges(db, {e})
    /\ Alone([db EXCEPT !.edges = @ \cup {e}])

appendRevocation_AnyEnvelope(event, target, at) ==
    /\ Cardinality(db.revocations) < MaxRevocations
    /\ target \in db.nodes
    /\ \A r \in db.revocations : r.event # event
    /\ Alone([db EXCEPT !.revocations = @ \cup {[event |-> event, target |-> target, recordedAt |-> at]}])

appendRevocation(event, target, at) ==
    /\ Cardinality(db.revocations) < MaxRevocations
    /\ target \in db.nodes
    /\ \A r \in db.revocations : r.event # event
    /\ \A v \in envelopeRevocations(db) : v.event = event => v.target = target
    /\ Alone([db EXCEPT !.revocations = @ \cup {[event |-> event, target |-> target, recordedAt |-> at]}])

Next ==
    \/ Begin \/ Commit \/ Rollback
    \/ \E i \in OfKind("evidence") : appendEvidence(i)
    \/ \E i \in OfKind("witness") : appendWitness(i)
    \/ \E i \in Claims : appendClaim(i)
    \/ \E d \in Derivations : appendDerivation(d)
    \/ \E i \in OfKind("assumption") : appendAssumption(i)
    \/ \E i \in OfKind("decision") \cup OfKind("witness") : appendNode(i)
    \/ \E e \in Dependencies : appendDependency(e)
    \/ \E event \in Events, target \in Revocable, at \in Times : appendRevocation(event, target, at)

Spec == Init /\ [][Next]_vars

-----------------------------------------------------------------------------
(* Properties.                                                             *)

State ==
    [nodes : SUBSET Ids, edges : SUBSET Edges, derivations : SUBSET Derivations,
     revocations : SUBSET [event : Events, target : Ids, recordedAt : Times],
     bare : SUBSET OfKind("witness"), late : SUBSET Claims]

\* No edge and no event points at a missing node.
Closed(s) ==
    /\ \A e \in s.edges : e.from \in s.nodes /\ e.to \in s.nodes
    /\ \A r \in s.revocations : r.target \in s.nodes

\* The tables are well formed and closed, and nothing is left of a transaction
\* after it.
TypeOK ==
    /\ db \in State /\ Closed(db)
    /\ work \in State /\ Closed(work)
    /\ frame \in [pending : SUBSET Claims, legalized : SUBSET Claims,
                  monetaryPending : SUBSET Claims, monetaryLegalized : SUBSET Claims]
    /\ inTransaction \in BOOLEAN
    /\ ~inTransaction => work = db /\ frame = EmptyFrame

StoredClaims == Claims \cap db.nodes

\* d carries a supported identification of the study its output cites.
Identified(d) ==
    \E w \in d.witnesses :
        /\ Item[w].proves = "causal_identification" /\ Item[w].supported
        /\ Item[w].cites \cap Item[d.output].cites # {}

\* No set of committed causal claims supports itself: one of them is derived
\* from claims by a step that is identified or rests on causal claims outside
\* the set (appendClaim, appendDerivation and the debt settled at COMMIT).
CausalGrounded ==
    \A S \in SUBSET {c \in StoredClaims : Item[c].causal} : S # {} =>
        \E d \in db.derivations :
            /\ d.output \in S /\ d.claims # {}
            /\ Identified(d) \/ \A s \in d.claims : Item[s].causal /\ s \notin S

\* A committed claim of a billed or allocated amount whose evidence is
\* estimated or of several bases is the output of a derivation with a
\* supported rebasing of exactly that evidence's basis to its own.
MoneyWitnessed ==
    \A c \in StoredClaims : directClaimMonetarySource(c) # "none" =>
        \E d \in db.derivations :
            /\ d.output = c
            /\ <<directClaimMonetarySource(c), Item[c].basis>> \in declaredRebasings(d)

\* Unless a claim it rests on was given a producer after it was used, no
\* stored step concludes a basis its whole chain does not license.
ChainHolds ==
    \A d \in db.derivations :
        (d.claims # {} /\ ({d.output} \cup Upstream(db.derivations, d)) \cap db.late = {})
            => StepWithinBound(db.derivations, d)

\* An event on record in the table, whose id is its key, is declared by no other node's
\* envelope than its target's, whichever of the two came first.
EventNamesOneTarget ==
    \A r \in db.revocations : \A v \in envelopeRevocations(db) : v.event = r.event => v.target = r.target

\* No event id stands for the revocation of two nodes: what the comment at ledger.ts:366
\* is about.  Two envelopes are not compared with each other.
EventIsOneRevocation ==
    \A u, v \in revocationEvents(db) : u.event = v.event => u.target = v.target

\* Whatever the operations accepted can be read back.
StaysReadable == Readable(db)

\* c and the claims that revise it, directly or through others.
Revisions(c) ==
    LET close[S \in SUBSET Claims] ==
            LET more == {j \in StoredClaims : Item[j].supersedes \cap S # {}}
            IN  IF more \subseteq S THEN S ELSE close[S \cup more]
    IN  close[{c}]

\* At every instant, each visible claim has one current revision.
OneRevision ==
    \A t \in Times : \A c \in StoredClaims :
        Item[c].at <= t => Cardinality(Revisions(c) \cap latestClaims(db, t)) = 1

\* In a ledger that reads, at every instant, a visible record one of whose visible
\* prerequisites is revoked is revoked, by whatever operation it named the prerequisite.
\* (Judged between transactions, which is when db changes.)
RevocationReaches ==
    ~inTransaction /\ Readable(db) => \A t \in Times :
        LET revoked == replayAsOf(db, t).revocation.revoked
            Falls(i, prerequisites) == (Item[i].at <= t /\ prerequisites \cap revoked # {}) => i \in revoked
        IN  /\ \A c \in StoredClaims : Falls(c, Item[c].cites \cup Item[c].assumes)
            /\ \A i \in db.nodes \cap (OfKind("witness") \cup OfKind("assumption")) : Falls(i, Item[i].cites)
            /\ \A d \in db.derivations : Falls(d.output, d.claims \cup d.evidence \cup d.witnesses)
            /\ \A e \in dependencyEdges(db.edges) : Falls(e.to, {e.from})

\* What is dated after t: nodes, revocations, and edges at a node dated after it.
NewNodesAfter(t) ==
    /\ \A i \in db'.nodes \ db.nodes : Item[i].at > t
    /\ \A r \in db'.revocations \ db.revocations : r.recordedAt > t
NewEdgesAfter(t) == \A e \in db'.edges \ db.edges : Item[e.from].at > t \/ Item[e.to].at > t

Unchanged(t) ==
    /\ replayAsOf(db', t) = replayAsOf(db, t)
    /\ latestClaims(db', t) = latestClaims(db, t)

\* Records dated after t, whatever revocation they declare and whatever they
\* supersede, change nothing of the replay at t, if it returns.  (Only a step of db is
\* judged.)
HistoryStable ==
    [][db' # db /\ Readable(db') => \A t \in Times : NewNodesAfter(t) /\ NewEdgesAfter(t) => Unchanged(t)]_db

\* What replayAsOf's comment says: no later observation or correction shows in
\* a historical view, a derivation or a dependency of old records included.
HindsightSafe == [][\A t \in Times : NewNodesAfter(t) => Unchanged(t)]_db

\* What is revoked stays revoked, and what is pending stays pending until it is.
Settles(before, after) ==
    /\ before.revoked \subseteq after.revoked
    /\ before.pending \subseteq after.revoked \cup after.pending

\* The replay of an instant after this step settles what it and an earlier
\* instant's did, and a live read settles what the replay does.
SettlesOn ==
    LET then(t) == replayAsOf(db, t).revocation
        now(t) == replayAsOf(db', t).revocation
    IN  \A pair \in {<<then(t), now(t)>> : t \in Times}
                     \cup {<<now(t - 1), now(t)>> : t \in {u \in Times : u - 1 \in Times}}
                     \cup {<<now(t), revocationProjection(db', t)>> : t \in Times} :
            Settles(pair[1], pair[2])

\* No later append, no later instant and no live read takes a revocation back, as
\* long as the ledger reads.
RevocationPermanent == [][db' # db /\ Readable(db') => SettlesOn]_db

\* A stored derivation offered again is accepted.
ReplayIdempotent == \A d \in db.derivations : Derivable(db, d)
=============================================================================
