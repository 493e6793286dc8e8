----------------------- MODULE EconomicCharges_proofs ------------------------
(***************************************************************************)
(* Theorems about dependent charge events, for any amounts, currencies,    *)
(* instants and bounds: what one append may do to every row before it, and *)
(* what the chains of corrections come to.                                 *)
(***************************************************************************)
EXTENDS EconomicCharges, FiniteInduction

-----------------------------------------------------------------------------
(* Totals are sums. *)

AmountOf == [e \in Event |-> e.amount]
UnfoldTotal(D, f) == [s \in D |-> IF s = {} THEN 0 ELSE OneOf(s).amount + f[s \ {OneOf(s)}]]

LEMMA TotalIs == ASSUME NEW S \in SUBSET Event PROVE Total(S) = Sum(AmountOf, S)
<1>1. Total(S) = (CHOOSE f : f = UnfoldTotal(SUBSET S, f))[S]
  BY DEF Total, MapThenSumSet, MapThenFoldSet, UnfoldTotal, OneOf
<1>2. ASSUME NEW f PROVE UnfoldTotal(SUBSET S, f) = Unfold(AmountOf, SUBSET S, f)
  <2>1. \A s \in SUBSET S : s # {} => OneOf(s) \in Event
    BY OneOfIn
  <2>2. \A s \in SUBSET S : s # {} => AmountOf[OneOf(s)] = OneOf(s).amount
    BY <2>1 DEF AmountOf
  <2> QED BY <2>2 DEF UnfoldTotal, Unfold
<1>3. (CHOOSE f : f = UnfoldTotal(SUBSET S, f)) = Iter(AmountOf, S)
  BY <1>2 DEF Iter
<1> QED BY <1>1, <1>3, SumIs

LEMMA AmountType == ASSUME NEW e \in Event PROVE AmountOf[e] = e.amount /\ e.amount \in Int
  BY DEF AmountOf, Event

LEMMA TotalType ==
    ASSUME NEW S \in SUBSET Event, IsFiniteSet(S)
    PROVE  Total(S) \in Int
<1>1. \A x \in S : AmountOf[x] \in Int
  BY AmountType
<1> QED BY <1>1, TotalIs, SumType

LEMMA TotalEmpty == Total({}) = 0
<1>1. {} \in SUBSET Event
  OBVIOUS
<1> QED BY <1>1, TotalIs, SumEmpty

\* One more event adds its amount.
LEMMA TotalAdd ==
    ASSUME NEW S \in SUBSET Event, IsFiniteSet(S), NEW e \in Event, e \notin S
    PROVE  Total(S \cup {e}) = Total(S) + e.amount
<1> DEFINE U == S \cup {e}
<1>1. U \in SUBSET Event /\ e \in U /\ U \ {e} = S
  OBVIOUS
<1>2. IsFiniteSet(U)
  BY FS_AddElement
<1> HIDE DEF U
<1>3. \A x \in U : AmountOf[x] \in Int
  BY <1>1, AmountType
<1>4. Sum(AmountOf, U) = AmountOf[e] + Sum(AmountOf, U \ {e})
  BY <1>1, <1>2, <1>3, SumRemove
<1>5. Total(U) = e.amount + Total(S)
  BY <1>1, <1>4, TotalIs, AmountType
<1> QED BY <1>5, TotalType, AmountType DEF U

\* Where nothing is negative, some of the events are worth no more than all.
LEMMA TotalGrows ==
    ASSUME NEW S \in SUBSET Event, IsFiniteSet(S), \A e \in S : e.amount >= 0, NEW T \in SUBSET S
    PROVE  Total(T) <= Total(S)
<1>1. \A x \in S : AmountOf[x] \in Nat
  BY AmountType
<1>2. Sum(AmountOf, T) <= Sum(AmountOf, S)
  BY <1>1, SumMonotone
<1> QED BY <1>2, TotalIs

-----------------------------------------------------------------------------
(* Ledgers, and parts of them that hold the sources of what they hold. *)

Reductions == {"credit_applied", "allocation_reversed"}
Priced == {"charge_estimated", "price_corrected"}

\* What a charge is said to cost by it or by its correction.
Asserted(e) == IF e.kind = "price_corrected" THEN e.next ELSE e.amount

\* The row s stands where e says its source is.
Source(s, e) == s.row = e.source

Placed(E) ==
    /\ E \in SUBSET Event /\ IsFiniteSet(E)
    /\ \E n \in Nat : \A e \in E : e.row <= n
    /\ \A d, e \in E : d.row = e.row => d = e
    /\ \A e \in E : e.row > 0
    /\ \A e \in E : e.kind \in Standalone => e.source = 0 /\ e.amount >= 0
    /\ \A e \in E : e.kind \notin Standalone =>
          \E s \in E : Source(s, e) /\ s.row < e.row /\ s.recordedAt <= e.recordedAt
    /\ \A e \in E : e.kind \in Reductions => e.amount >= 0

\* A correction says what it changes, and is the only one of what it changes.
Chained(E) ==
    /\ \A s, e \in E : e.kind = "price_corrected" /\ Source(s, e) =>
          s.kind \in Priced /\ e.amount = e.next - Asserted(s)
    /\ \A e \in E : e.kind = "price_corrected" => e.next >= 0
    /\ \A d, e \in E : d.kind = "price_corrected" /\ e.kind = "price_corrected" /\ d.source = e.source => d = e
    /\ \A s, e \in E : e.kind = "fx_translated" /\ Source(s, e) => s.kind \in {"charge_estimated", "fx_translated"}

Ledger(E) == Placed(E) /\ Chained(E)

\* A part D of the ledger E that holds the sources of its rows.
Part(D, E) == D \subseteq E /\ \A e \in D, s \in E : Source(s, e) => s \in D

LEMMA EventType ==
    ASSUME NEW e \in Event
    PROVE  /\ e.row \in Nat /\ e.source \in Nat /\ e.recordedAt \in Nat /\ e.kind \in Kinds
           /\ e.amount \in Int /\ e.next \in Nat
  BY ChargesAssumption DEF Event

LEMMA PartLedger == ASSUME NEW E, NEW D, Ledger(E), Part(D, E) PROVE Ledger(D)
<1>1. IsFiniteSet(D)
  BY SubsetFinite DEF Ledger, Placed, Part
<1>2. Placed(D)
  BY <1>1 DEF Ledger, Placed, Part
<1>3. Chained(D)
  BY DEF Ledger, Chained, Part
<1> QED BY <1>2, <1>3 DEF Ledger

LEMMA RowIs == ASSUME NEW E, Ledger(E), NEW e \in E PROVE Row(E, e.row) = e
  BY DEF Ledger, Placed, Row

\* The source of a dependent row, which comes before it.
LEMMA SourceIs ==
    ASSUME NEW E, Ledger(E), NEW e \in E, e.kind \notin Standalone
    PROVE  /\ Row(E, e.source) \in E /\ Source(Row(E, e.source), e)
           /\ Row(E, e.source).row < e.row /\ Row(E, e.source).recordedAt <= e.recordedAt
<1>1. PICK s \in E : Source(s, e) /\ s.row < e.row /\ s.recordedAt <= e.recordedAt
  BY DEF Ledger, Placed
<1>2. Row(E, e.source) = s
  BY <1>1, RowIs DEF Source
<1> QED BY <1>1, <1>2

\* What is known at an instant is a part.
LEMMA KnownPart == ASSUME NEW E, Ledger(E), NEW t \in Nat PROVE Part(Known(E, t), E)
<1> SUFFICES ASSUME NEW e \in Known(E, t), NEW s \in E, Source(s, e) PROVE s \in Known(E, t)
  BY DEF Part, Known
<1>1. e \in E /\ e.recordedAt <= t /\ e \in Event /\ s \in Event
  BY DEF Known, Ledger, Placed
<1>2. e.kind \notin Standalone
  BY <1>1, EventType DEF Ledger, Placed, Source
<1>3. s = Row(E, e.source)
  BY RowIs DEF Source
<1>4. s.recordedAt <= e.recordedAt
  BY <1>1, <1>2, <1>3, SourceIs
<1> QED BY <1>1, <1>4, EventType DEF Known
-----------------------------------------------------------------------------
(* What a correction or a translation goes back to. *)

Linked == {"price_corrected", "fx_translated"}
Climb(E, f) == [d \in E |-> IF d.kind \in Linked THEN f[Row(E, d.source)] ELSE d]
Roots(E) == CHOOSE f : f = Climb(E, f)

LEMMA RootIs == ASSUME NEW E, NEW e PROVE translationRoot(E, e) = Roots(E)[e]
  BY DEF translationRoot, Climb, Roots, Linked

\* The way back ends: translationRoot is what its recursion says.
LEMMA RootsDef ==
    ASSUME NEW E, Ledger(E)
    PROVE  /\ Roots(E) = Climb(E, Roots(E))
           /\ \A e \in E : Roots(E)[e] \in E
<1> DEFINE rank == [e \in E |-> e.row]
           B == {e \in E : e.kind \notin Linked}
           h == [e \in E |-> e]
           next == [e \in E |-> IF e.kind \in Linked THEN Row(E, e.source) ELSE e]
           c == [x \in E \X E |-> x[2]]
<1>1. PICK n \in Nat : \A e \in E : e.row <= n
  BY DEF Ledger, Placed
<1>2. \A e \in E : e \in Event /\ e.row \in Nat
  BY EventType DEF Ledger, Placed
<1>3. rank \in [E -> 0 .. n] /\ h \in [E -> E] /\ c \in [E \X E -> E]
  BY <1>1, <1>2
<1>4. \A e \in E : e.kind \in Linked => e.kind \notin Standalone
  BY DEF Linked, Standalone
<1>5. next \in [E -> E] /\ \A x \in E \ B : next[x] = Row(E, x.source) /\ rank[next[x]] < rank[x]
  <2>1. ASSUME NEW x \in E, x.kind \in Linked PROVE Row(E, x.source) \in E /\ Row(E, x.source).row < x.row
    BY <1>4, <2>1, SourceIs
  <2> QED BY <2>1
<1>6. Solvable(E, E, B, h, next, c)
  <2>1. n \in Nat /\ rank \in [E -> 0 .. n] /\ h \in [E -> E] /\ c \in [E \X E -> E] /\ next \in [E -> E]
    BY <1>3, <1>5
  <2>2. \A x \in E \ B : rank[next[x]] < rank[x]
    BY <1>5
  <2> HIDE DEF rank, B, h, next, c
  <2> QED BY <2>1, <2>2, Recursion
<1>7. PICK f \in [E -> E] : \A x \in E : f[x] = IF x \in B THEN h[x] ELSE c[<<x, f[next[x]]>>]
  BY <1>6 DEF Solvable
<1>8. ASSUME NEW x \in E PROVE f[x] = IF x.kind \in Linked THEN f[Row(E, x.source)] ELSE x
  <2>1. CASE x \in B
    BY <1>7, <2>1
  <2>2. CASE x \notin B
    <3>1. next[x] = Row(E, x.source) /\ next[x] \in E
      BY <1>5, <2>2
    <3>2. f[x] = c[<<x, f[next[x]]>>]
      BY <1>7, <2>2
    <3>3. f[next[x]] \in E
      BY <3>1
    <3> QED BY <2>2, <3>1, <3>2, <3>3
  <2> QED BY <2>1, <2>2
<1>9. f = Climb(E, f)
  BY <1>8 DEF Climb
<1>10. Roots(E) = Climb(E, Roots(E))
  BY <1>9 DEF Roots
<1> DEFINE r == Roots(E)
           G == {k \in Nat : \A e \in E : e.row = k => r[e] \in E}
<1>11. ASSUME NEW k \in Nat, \A i \in Nat : i < k => i \in G PROVE k \in G
  <2> SUFFICES ASSUME NEW e \in E, e.row = k PROVE r[e] \in E
    OBVIOUS
  <2>1. r[e] = IF e.kind \in Linked THEN r[Row(E, e.source)] ELSE e
    BY <1>10 DEF Climb
  <2>2. CASE e.kind \in Linked
    <3>1. Row(E, e.source) \in E /\ Row(E, e.source).row < k /\ Row(E, e.source).row \in Nat
      BY <1>2, <1>4, <2>2, SourceIs
    <3> QED BY <1>11, <2>1, <2>2, <3>1
  <2> QED BY <2>1, <2>2
<1>12. Nat \subseteq G
  <2> HIDE DEF G
  <2> QED BY <1>11, Everywhere
<1> QED BY <1>2, <1>10, <1>12

\* A correction, or a translation, has the root of its source.
LEMMA RootAt ==
    ASSUME NEW E, Ledger(E), NEW e \in E
    PROVE  /\ translationRoot(E, e) \in E
           /\ translationRoot(E, e) =
                 IF e.kind \in Linked THEN translationRoot(E, Row(E, e.source)) ELSE e
<1>1. Roots(E)[e] = IF e.kind \in Linked THEN Roots(E)[Row(E, e.source)] ELSE e
  BY RootsDef DEF Climb
<1> QED BY <1>1, RootsDef, RootIs

\* The root of a row is in every part that holds the row, and the same in all.
LEMMA RootInPart ==
    ASSUME NEW E, Ledger(E), NEW D, Part(D, E)
    PROVE  \A d \in D : translationRoot(D, d) = translationRoot(E, d)
<1> DEFINE G == {k \in Nat : \A d \in D : d.row = k => translationRoot(D, d) = translationRoot(E, d)}
<1>0. Ledger(D) /\ \A d \in D : d \in E /\ d \in Event /\ d.row \in Nat
  BY PartLedger, EventType DEF Part, Ledger, Placed
<1>1. ASSUME NEW k \in Nat, \A i \in Nat : i < k => i \in G PROVE k \in G
  <2> SUFFICES ASSUME NEW d \in D, d.row = k PROVE translationRoot(D, d) = translationRoot(E, d)
    OBVIOUS
  <2>1. CASE d.kind \in Linked
    <3>1. d.kind \notin Standalone
      BY <2>1 DEF Linked, Standalone
    <3>2. Row(D, d.source) \in D /\ Source(Row(D, d.source), d) /\ Row(D, d.source).row < k
      BY <1>0, <3>1, SourceIs
    <3>3. Row(E, d.source) = Row(D, d.source)
      BY <1>0, <3>2, RowIs DEF Source
    <3>4. translationRoot(D, Row(D, d.source)) = translationRoot(E, Row(D, d.source))
      BY <1>0, <1>1, <3>2
    <3> QED BY <1>0, <2>1, <3>3, <3>4, RootAt
  <2>2. CASE d.kind \notin Linked
    BY <1>0, <2>2, RootAt
  <2> QED BY <2>1, <2>2
<1>2. Nat \subseteq G
  <2> HIDE DEF G
  <2> QED BY <1>1, Everywhere
<1> QED BY <1>0, <1>2

\* It comes no later, and is a charge.
LEMMA RootIsCharge ==
    ASSUME NEW E, Ledger(E)
    PROVE  \A e \in E : /\ translationRoot(E, e).row <= e.row
                        /\ e.kind \in Linked => /\ translationRoot(E, e).kind = "charge_estimated"
                                                /\ translationRoot(E, e).row < e.row
<1> DEFINE root(e) == translationRoot(E, e)
           G == {k \in Nat : \A e \in E : e.row = k =>
                   /\ root(e).row <= e.row
                   /\ e.kind \in Linked => root(e).kind = "charge_estimated" /\ root(e).row < e.row}
<1>0. \A e \in E : e \in Event /\ e.row \in Nat /\ root(e) \in E
  BY EventType, RootAt DEF Ledger, Placed
<1>1. ASSUME NEW k \in Nat, \A i \in Nat : i < k => i \in G PROVE k \in G
  <2> SUFFICES ASSUME NEW e \in E, e.row = k
               PROVE  /\ root(e).row <= e.row
                      /\ e.kind \in Linked => root(e).kind = "charge_estimated" /\ root(e).row < e.row
    OBVIOUS
  <2>1. CASE e.kind \in Linked
    <3> DEFINE s == Row(E, e.source)
    <3>1. e.kind \notin Standalone
      BY <2>1 DEF Linked, Standalone
    <3>2. s \in E /\ Source(s, e) /\ s.row < e.row
      BY <3>1, SourceIs
    <3>3. s.kind \in {"charge_estimated", "price_corrected", "fx_translated"}
      BY <2>1, <3>2 DEF Ledger, Chained, Priced, Linked
    <3>4. root(e) = root(s)
      BY <2>1, RootAt
    <3>5. s.row \in Nat /\ s.row < k
      BY <1>0, <3>2
    <3> HIDE DEF s, root
    <3>6. root(s).row <= s.row /\ (s.kind \in Linked => root(s).kind = "charge_estimated")
      BY <1>1, <3>2, <3>5
    <3>7. s.kind \notin Linked => root(s) = s
      BY <3>2, RootAt DEF root
    <3>8. root(s).kind = "charge_estimated"
      BY <3>3, <3>6, <3>7 DEF Linked
    <3>9. root(s).row \in Nat
      BY <1>0, <3>2
    <3> QED BY <1>0, <3>2, <3>4, <3>5, <3>6, <3>8, <3>9
  <2>2. CASE e.kind \notin Linked
    BY <1>0, <2>2, RootAt
  <2> QED BY <2>1, <2>2
<1>2. Nat \subseteq G
  <2> HIDE DEF G
  <2> QED BY <1>1, Everywhere
<1> QED BY <1>0, <1>2

-----------------------------------------------------------------------------
(* The chain of a charge: the charge and its corrections, each the only     *)
(* successor of one of them.                                                *)

Links(E, charge) == {charge} \cup Corrections(E, charge)

LEMMA LinkTypes ==
    ASSUME NEW E, Ledger(E), NEW charge \in Of(E, "charge_estimated")
    PROVE  /\ \A x \in Links(E, charge) :
                 /\ x \in E /\ x \in Event /\ x.row \in Nat /\ x.kind \in Priced
                 /\ translationRoot(E, x) = charge /\ Asserted(x) \in Nat
           /\ \A x \in Corrections(E, charge) :
                 /\ x \in E /\ x.kind = "price_corrected" /\ charge.row < x.row
                 /\ Row(E, x.source) \in Links(E, charge) /\ Source(Row(E, x.source), x)
                 /\ Row(E, x.source).row < x.row
                 /\ x.amount = x.next - Asserted(Row(E, x.source))
           /\ \A x \in E, w \in Links(E, charge) :
                 x.kind = "price_corrected" /\ Source(w, x) => x \in Corrections(E, charge)
<1>1. charge \in E /\ charge.kind = "charge_estimated" /\ charge.kind \notin Linked
  BY DEF Of, Linked
<1>2. translationRoot(E, charge) = charge
  BY <1>1, RootAt
<1>3. ASSUME NEW x \in Corrections(E, charge)
      PROVE  /\ x \in E /\ x.kind = "price_corrected" /\ x.kind \in Linked /\ x.kind \notin Standalone
             /\ translationRoot(E, x) = charge
  BY DEF Corrections, Of, Linked, Standalone
<1>4. ASSUME NEW x \in Links(E, charge)
      PROVE  /\ x \in E /\ x \in Event /\ x.row \in Nat /\ x.kind \in Priced
             /\ translationRoot(E, x) = charge /\ Asserted(x) \in Nat
  <2>1. x \in E /\ x.kind \in Priced /\ translationRoot(E, x) = charge
    BY <1>1, <1>2, <1>3 DEF Links, Priced
  <2>2. x \in Event
    BY <2>1 DEF Ledger, Placed
  <2>3. x.kind # "price_corrected" => x.amount >= 0
    BY <2>1 DEF Ledger, Placed, Priced, Standalone
  <2>4. Asserted(x) \in Nat
    BY <2>2, <2>3, EventType DEF Asserted
  <2> QED BY <2>1, <2>2, <2>4, EventType
<1>5. ASSUME NEW x \in Corrections(E, charge)
      PROVE  /\ charge.row < x.row
             /\ Row(E, x.source) \in Links(E, charge) /\ Source(Row(E, x.source), x)
             /\ Row(E, x.source).row < x.row
             /\ x.amount = x.next - Asserted(Row(E, x.source))
  <2> DEFINE s == Row(E, x.source)
  <2>1. s \in E /\ Source(s, x) /\ s.row < x.row
    BY <1>3, SourceIs
  <2>2. s.kind \in Priced /\ x.amount = x.next - Asserted(s)
    BY <1>3, <2>1 DEF Ledger, Chained
  <2>3. translationRoot(E, s) = charge
    BY <1>3, RootAt
  <2>4. CASE s.kind = "charge_estimated"
    <3>1. translationRoot(E, s) = s
      BY <2>1, <2>4, RootAt DEF Linked
    <3> QED BY <1>3, <2>1, <2>2, <2>3, <3>1, RootIsCharge DEF Links
  <2>5. CASE s.kind = "price_corrected"
    <3>1. s \in Corrections(E, charge)
      BY <2>1, <2>3, <2>5 DEF Corrections, Of
    <3> QED BY <1>3, <2>1, <2>2, <3>1, RootIsCharge DEF Links
  <2> QED BY <2>2, <2>4, <2>5 DEF Priced
<1>6. ASSUME NEW x \in E, NEW w \in Links(E, charge), x.kind = "price_corrected", Source(w, x)
      PROVE  x \in Corrections(E, charge)
  <2>1. Row(E, x.source) = w
    BY <1>4, <1>6, RowIs DEF Source
  <2>2. translationRoot(E, x) = translationRoot(E, w)
    BY <1>6, <2>1, RootAt DEF Linked
  <2> QED BY <1>4, <1>6, <2>2 DEF Corrections, Of
<1> QED BY <1>3, <1>4, <1>5, <1>6

\* A chain does not branch: what comes before one of its rows is followed, by
\* that row at the latest.
LEMMA FollowedBy ==
    ASSUME NEW E, Ledger(E), NEW charge \in Of(E, "charge_estimated")
    PROVE  \A x, z \in Links(E, charge) : z.row < x.row =>
             \E w \in Corrections(E, charge) : Source(z, w) /\ w.row <= x.row
<1> DEFINE C == Corrections(E, charge)
           M == Links(E, charge)
           Followed(z, k) == \E w \in C : Source(z, w) /\ w.row <= k
           G == {k \in Nat : \A x, z \in M : x.row = k /\ z.row < x.row => Followed(z, x.row)}
<1>0. \A x \in M : x.row \in Nat /\ x \in E
  BY LinkTypes
<1>1. \A w \in C : w \in M
  BY DEF Links
<1>2. ASSUME NEW k \in Nat, \A i \in Nat : i < k => i \in G PROVE k \in G
  <2> SUFFICES ASSUME NEW x \in M, NEW z \in M, x.row = k, z.row < x.row PROVE Followed(z, x.row)
    OBVIOUS
  <2>1. x \in C
    <3>1. \A w \in C : charge.row < w.row
      BY LinkTypes
    <3>2. charge \in M
      BY DEF Links
    <3>3. CASE x = charge
      <4>1. z # charge
        BY <1>0, <3>3
      <4>2. z \in C
        BY <4>1 DEF Links
      <4> QED BY <1>0, <3>1, <3>3, <4>2
    <3> QED BY <3>3 DEF Links
  <2> DEFINE p == Row(E, x.source)
  <2>2. p \in M /\ Source(p, x) /\ p.row < x.row
    BY <2>1, LinkTypes
  <2> HIDE DEF p
  <2>3. CASE z.row = p.row
    <3>1. Source(z, x) /\ x.row <= x.row
      BY <1>0, <2>2, <2>3 DEF Source
    <3> QED BY <2>1, <3>1
  <2>4. CASE z.row < p.row
    <3>1. Followed(z, p.row)
      BY <1>0, <1>2, <2>2, <2>4
    <3> QED BY <1>0, <1>1, <2>2, <3>1
  <2>5. CASE p.row < z.row
    <3>1. Followed(p, z.row)
      BY <1>0, <1>2, <2>2, <2>5
    <3>2. PICK w \in C : Source(p, w) /\ w.row <= z.row
      BY <3>1
    <3>3. w.kind = "price_corrected" /\ x.kind = "price_corrected" /\ w \in E /\ x \in E /\ w.source = x.source
      BY <2>1, <2>2, <3>2, LinkTypes DEF Source
    <3>4. w = x
      BY <3>3 DEF Ledger, Chained
    <3> QED BY <1>0, <1>1, <3>2, <3>4
  <2> QED BY <1>0, <2>2, <2>3, <2>4, <2>5
<1>3. Nat \subseteq G
  <2> HIDE DEF G
  <2> QED BY <1>2, Everywhere
<1> QED BY <1>0, <1>3

\* The end of the chain, which everything else on it is followed from.
Last(E, charge) == Row(Links(E, charge), Max({x.row : x \in Links(E, charge)}))

LEMMA LastIs ==
    ASSUME NEW E, Ledger(E), NEW charge \in Of(E, "charge_estimated")
    PROVE  /\ Last(E, charge) \in Links(E, charge)
           /\ \A x \in Links(E, charge) : x.row <= Last(E, charge).row
           /\ \A x \in Links(E, charge) : x # Last(E, charge) =>
                 \E w \in Corrections(E, charge) : Source(x, w)
           /\ \A x \in E : x.kind = "price_corrected" => ~ Source(Last(E, charge), x)
<1> DEFINE M == Links(E, charge)
           S == {x.row : x \in M}
           last == Last(E, charge)
<1>1. \A x \in M : x.row \in Nat /\ x \in E
  BY LinkTypes
<1>2. S \subseteq Nat /\ S # {} /\ \E n \in Nat : \A k \in S : k <= n
  BY <1>1 DEF Links, Ledger, Placed
<1>3. Max(S) \in S /\ \A k \in S : k <= Max(S)
  <2> HIDE DEF S
  <2> QED BY <1>2, MaxIs
<1>4. PICK x \in M : x.row = Max(S)
  BY <1>3
<1>5. \A y \in M : y.row = x.row => y = x
  BY <1>1 DEF Ledger, Placed
<1>6. last = x
  BY <1>4, <1>5 DEF Last, Row
<1>7. \A y \in M : y.row <= last.row
  BY <1>3, <1>4, <1>6
<1> HIDE DEF last
<1>8. \A y \in M : y # last => \E w \in Corrections(E, charge) : Source(y, w)
  <2> SUFFICES ASSUME NEW y \in M, y # last PROVE \E w \in Corrections(E, charge) : Source(y, w)
    OBVIOUS
  <2>1. y.row < last.row /\ last \in M
    BY <1>1, <1>5, <1>6, <1>7
  <2> QED BY <2>1, FollowedBy
<1>9. ASSUME NEW y \in E, y.kind = "price_corrected", Source(last, y) PROVE FALSE
  <2>1. y \in Corrections(E, charge)
    BY <1>6, <1>9, LinkTypes
  <2>2. Source(Row(E, y.source), y) /\ Row(E, y.source).row < y.row
    BY <2>1, LinkTypes
  <2>3. last.row < y.row /\ y \in M
    BY <1>9, <2>1, <2>2 DEF Source, Links
  <2> QED BY <1>1, <1>6, <1>7, <2>3
<1> QED BY <1>6, <1>7, <1>8, <1>9 DEF last

-----------------------------------------------------------------------------
(* What the chain comes to: the last assertion, added up or followed.       *)

\* The corrections up to a row of the chain add up to what it asserts.
LEMMA ChainTotal ==
    ASSUME NEW E, Ledger(E), NEW charge \in Of(E, "charge_estimated")
    PROVE  \A x \in Links(E, charge) :
             charge.amount + Total({c \in Corrections(E, charge) : c.row <= x.row}) = Asserted(x)
<1> DEFINE C == Corrections(E, charge)
           M == Links(E, charge)
           Before(k) == {c \in C : c.row <= k}
           G == {k \in Nat : \A x \in M : x.row = k => charge.amount + Total(Before(x.row)) = Asserted(x)}
<1>0. \A x \in M : x.row \in Nat /\ x \in E /\ x \in Event /\ x.amount \in Int /\ Asserted(x) \in Nat
  BY LinkTypes, EventType
<1>1. \A w \in C : w \in M /\ charge \in M
  BY DEF Links
<1>2. ASSUME NEW k \in Nat PROVE Before(k) \in SUBSET Event /\ IsFiniteSet(Before(k)) /\ Before(k) \in SUBSET E
  <2>1. Before(k) \in SUBSET E /\ E \in SUBSET Event /\ IsFiniteSet(E)
    BY <1>0, <1>1 DEF Ledger, Placed
  <2> QED BY <2>1, SubsetFinite
<1>3. ASSUME NEW k \in Nat, \A i \in Nat : i < k => i \in G PROVE k \in G
  <2> SUFFICES ASSUME NEW x \in M, x.row = k PROVE charge.amount + Total(Before(x.row)) = Asserted(x)
    OBVIOUS
  <2>1. CASE x = charge
    <3>1. Before(x.row) = {}
      BY <1>0, <1>1, <2>1, LinkTypes
    <3>2. Asserted(x) = charge.amount
      BY <2>1 DEF Asserted, Of
    <3> HIDE DEF Before
    <3> QED BY <1>0, <2>1, <3>1, <3>2, TotalEmpty
  <2>2. CASE x # charge
    <3> DEFINE p == Row(E, x.source)
    <3>1. x \in C
      BY <2>2 DEF Links
    <3>2. /\ p \in M /\ Source(p, x) /\ p.row < x.row /\ x.amount = x.next - Asserted(p)
          /\ x.kind = "price_corrected"
      BY <3>1, LinkTypes
    <3> HIDE DEF p
    <3>3. p.row \in Nat /\ p.row < k
      BY <1>0, <3>2
    <3>4. charge.amount + Total(Before(p.row)) = Asserted(p)
      BY <1>3, <3>2, <3>3
    <3>5. ASSUME NEW c \in C, c.row <= x.row, p.row < c.row PROVE c = x
      <4>1. PICK w \in C : Source(p, w) /\ w.row <= c.row
        BY <1>1, <3>2, <3>5, FollowedBy
      <4>2. w.kind = "price_corrected" /\ w \in E /\ x \in E /\ w.source = x.source /\ c \in E
        BY <3>1, <3>2, <4>1, LinkTypes DEF Source
      <4>3. w = x
        BY <3>2, <4>2 DEF Ledger, Chained
      <4>4. c.row = x.row
        BY <1>0, <1>1, <3>5, <4>1, <4>3
      <4> QED BY <1>0, <4>2, <4>4 DEF Ledger, Placed
    <3>6. Before(x.row) = Before(p.row) \cup {x} /\ x \notin Before(p.row)
      BY <1>0, <1>1, <3>1, <3>2, <3>3, <3>5
    <3>7. Total(Before(x.row)) = Total(Before(p.row)) + x.amount
      <4> DEFINE U == Before(p.row)
      <4>1. U \in SUBSET Event /\ IsFiniteSet(U) /\ x \in Event /\ x \notin U
        BY <1>0, <1>2, <3>3, <3>6
      <4> HIDE DEF U
      <4>2. Total(U \cup {x}) = Total(U) + x.amount
        BY <4>1, TotalAdd
      <4> QED BY <3>6, <4>2 DEF U
    <3>8. Total(Before(p.row)) \in Int /\ charge.amount \in Int /\ Asserted(p) \in Int
      BY <1>0, <1>1, <1>2, <3>1, <3>2, <3>3, TotalType
    <3>9. Asserted(x) = x.next /\ x.next \in Int /\ x.amount \in Int
      BY <1>0, <3>2, EventType DEF Asserted
    <3> HIDE DEF Before
    <3> QED BY <3>2, <3>4, <3>7, <3>8, <3>9
  <2> QED BY <2>1, <2>2
<1>4. Nat \subseteq G
  <2> HIDE DEF G
  <2> QED BY <1>3, Everywhere
<1>5. \A x \in M : charge.amount + Total(Before(x.row)) = Asserted(x)
  BY <1>0, <1>4
<1> QED BY <1>5

LEMMA CorrectedIsLast ==
    ASSUME NEW E, Ledger(E), NEW charge \in Of(E, "charge_estimated")
    PROVE  correctedChargeAmount(E, charge) = Asserted(Last(E, charge))
<1> DEFINE last == Last(E, charge)
<1>1. last \in Links(E, charge) /\ \A x \in Links(E, charge) : x.row <= last.row
  BY LastIs
<1> HIDE DEF last
<1>2. {c \in Corrections(E, charge) : c.row <= last.row} = Corrections(E, charge)
  BY <1>1 DEF Links
<1> QED BY <1>1, <1>2, ChainTotal DEF correctedChargeAmount, last

-----------------------------------------------------------------------------
(* effectiveChargesFor follows the chain of what is known.                  *)

Follow(C, charge, f) ==
    [r \in {charge.row} \cup {c.row : c \in C} |->
        IF \E c \in C : c.source = r
        THEN LET c == CHOOSE d \in C : d.source = r IN c.amount + f[c.row]
        ELSE 0]
Followed(C, charge) == CHOOSE f : f = Follow(C, charge, f)

LEMMA EffectiveIs ==
    ASSUME NEW E, NEW charge, NEW t
    PROVE  effectiveChargesFor(E, charge, t) =
             charge.amount + Followed(Of(Known(E, t), "price_corrected"), charge)[charge.row]
  BY DEF effectiveChargesFor, Followed, Follow

LEMMA FollowedDef ==
    ASSUME NEW K, Ledger(K), NEW charge \in Event
    PROVE  LET C == Of(K, "price_corrected") IN Followed(C, charge) = Follow(C, charge, Followed(C, charge))
<1> DEFINE C == Of(K, "price_corrected")
           D == {charge.row} \cup {c.row : c \in C}
           After(r) == CHOOSE d \in C : d.source = r
<1>1. \A c \in C : c \in K /\ c \in Event /\ c.row \in Nat /\ c.source < c.row /\ c.source \in Nat /\ c.amount \in Int
  <2> SUFFICES ASSUME NEW c \in C
               PROVE  c \in K /\ c \in Event /\ c.row \in Nat /\ c.source < c.row /\ c.source \in Nat /\ c.amount \in Int
    OBVIOUS
  <2>1. c \in K /\ c \in Event /\ c.kind \notin Standalone
    BY DEF Of, Ledger, Placed, Standalone
  <2>2. Source(Row(K, c.source), c) /\ Row(K, c.source).row < c.row
    BY <2>1, SourceIs
  <2> QED BY <2>1, <2>2, EventType DEF Source
<1>2. PICK n \in Nat : \A e \in K : e.row <= n
  BY DEF Ledger, Placed
<1>3. charge.row \in Nat
  BY EventType
<1> DEFINE N == n + charge.row
           rank == [r \in D |-> N - r]
           B == {r \in D : ~ \E c \in C : c.source = r}
           h == [r \in D |-> 0]
           next == [r \in D |-> IF r \in B THEN r ELSE After(r).row]
           add == [x \in D \X Int |-> IF x[1] \in B THEN 0 ELSE After(x[1]).amount + x[2]]
<1>4. \A r \in D : r \in Nat /\ r <= N
  BY <1>1, <1>2, <1>3
<1>5. \A r \in D \ B : After(r) \in C /\ After(r).source = r
  OBVIOUS
<1>6. N \in Nat /\ rank \in [D -> 0 .. N] /\ h \in [D -> Int]
  <2>1. N \in Nat
    BY <1>2, <1>3
  <2> HIDE DEF N, D
  <2> QED BY <1>4, <2>1
<1>7. next \in [D -> D]
  <2> HIDE DEF After, C
  <2> QED BY <1>5
<1>8. add \in [D \X Int -> Int]
  <2> HIDE DEF After, C, B, D
  <2> QED BY <1>1, <1>5
<1>9. ASSUME NEW r \in D \ B PROVE rank[next[r]] < rank[r]
  <2>1. next[r] = After(r).row /\ next[r] \in D
    BY <1>5, <1>7
  <2>2. r < next[r]
    BY <1>1, <1>5, <2>1
  <2>3. next[r] \in Nat /\ r \in Nat /\ N \in Nat /\ r \in D
    BY <1>4, <1>6, <2>1
  <2> HIDE DEF next, B, D, N
  <2>4. rank[next[r]] = N - next[r] /\ rank[r] = N - r
    BY <2>1, <2>3
  <2> QED BY <2>2, <2>3, <2>4
<1>10. Solvable(D, Int, B, h, next, add)
  <2>1. \A r \in D \ B : rank[next[r]] < rank[r]
    BY <1>9
  <2> HIDE DEF N, rank, B, h, next, add, D
  <2> QED BY <1>6, <1>7, <1>8, <2>1, Recursion
<1>11. PICK f \in [D -> Int] : \A r \in D : f[r] = IF r \in B THEN h[r] ELSE add[<<r, f[next[r]]>>]
  BY <1>10 DEF Solvable
<1>12. ASSUME NEW r \in D
       PROVE  f[r] = IF \E c \in C : c.source = r THEN After(r).amount + f[After(r).row] ELSE 0
  <2>1. CASE r \in B
    BY <1>11, <2>1
  <2>2. CASE r \notin B
    <3>1. f[r] = add[<<r, f[next[r]]>>]
      BY <1>11, <2>2
    <3>2. next[r] = After(r).row /\ next[r] \in D
      BY <1>5, <1>7, <2>2
    <3>3. f[next[r]] \in Int
      BY <3>2
    <3>4. \E c \in C : c.source = r
      BY <2>2
    <3> HIDE DEF next, B, C, After, D
    <3>5. add[<<r, f[next[r]]>>] = After(r).amount + f[next[r]]
      BY <2>2, <3>3
    <3> QED BY <3>1, <3>2, <3>4, <3>5
  <2> QED BY <2>1, <2>2
<1>13. f = Follow(C, charge, f)
  BY <1>12 DEF Follow
<1> QED BY <1>13 DEF Followed

\* From a charge that is known it comes to what the last known correction asserts.
LEMMA FollowedIsLast ==
    ASSUME NEW K, Ledger(K), NEW charge \in Of(K, "charge_estimated")
    PROVE  charge.amount + Followed(Of(K, "price_corrected"), charge)[charge.row] = Asserted(Last(K, charge))
<1> DEFINE C == Of(K, "price_corrected")
           M == Links(K, charge)
           f == Followed(C, charge)
           last == Last(K, charge)
<1>1. charge \in Event /\ charge \in M
  BY DEF Of, Ledger, Placed, Links
<1>2. f = Follow(C, charge, f)
  BY <1>1, FollowedDef
<1>3. /\ \A x \in M : x.row \in Nat /\ x \in K /\ Asserted(x) \in Nat
      /\ \A x \in M : x = charge \/ x \in C
  BY LinkTypes DEF Links, Corrections
<1>4. PICK n \in Nat : \A e \in K : e.row <= n
  BY DEF Ledger, Placed
<1> HIDE DEF f
<1>5. ASSUME NEW x \in M
      PROVE  f[x.row] = IF \E c \in C : c.source = x.row
                        THEN LET c == CHOOSE d \in C : d.source = x.row IN c.amount + f[c.row]
                        ELSE 0
  <2>1. x.row \in {charge.row} \cup {c.row : c \in C}
    BY <1>3
  <2> QED BY <1>2, <2>1 DEF Follow
<1>6. /\ last \in M /\ \A x \in C : ~ Source(last, x)
      /\ \A x \in M : x # last => \E w \in Corrections(K, charge) : Source(x, w)
  <2>1. \A x \in C : x \in K /\ x.kind = "price_corrected"
    BY DEF Of
  <2> QED BY <2>1, LastIs
<1> HIDE DEF last
<1> DEFINE G == {k \in Nat : \A x \in M : n - x.row = k => f[x.row] = Asserted(last) - Asserted(x)}
<1>7. ASSUME NEW k \in Nat, \A i \in Nat : i < k => i \in G PROVE k \in G
  <2> SUFFICES ASSUME NEW x \in M, n - x.row = k PROVE f[x.row] = Asserted(last) - Asserted(x)
    OBVIOUS
  <2>1. CASE x = last
    <3>1. f[x.row] = 0
      BY <1>5, <1>6, <2>1 DEF Source
    <3> QED BY <1>3, <2>1, <3>1
  <2>2. CASE x # last
    <3>1. PICK w \in Corrections(K, charge) : Source(x, w)
      BY <1>6, <2>2
    <3>2. /\ w \in C /\ w \in M /\ w.source = x.row /\ w.row <= n
          /\ w.kind = "price_corrected"
      BY <1>3, <1>4, <3>1, LinkTypes DEF Source, Links, Corrections
    <3>3. Row(K, w.source) = x
      BY <1>3, <3>2, RowIs
    <3>4. w.amount = w.next - Asserted(x) /\ x.row < w.row
      BY <3>1, <3>3, LinkTypes
    <3>5. (CHOOSE d \in C : d.source = x.row) = w
      <4>1. \A d \in C : d.kind = "price_corrected" /\ d \in K
        BY DEF Of
      <4>2. \A d \in C : d.source = x.row => d = w
        BY <3>2, <4>1 DEF Ledger, Chained
      <4> QED BY <3>2, <4>2
    <3>6. f[x.row] = w.amount + f[w.row]
      BY <1>5, <3>2, <3>5
    <3>7. n - w.row \in Nat /\ n - w.row < k
      BY <1>3, <3>2, <3>4
    <3>8. f[w.row] = Asserted(last) - Asserted(w)
      BY <1>7, <3>2, <3>7
    <3>9. Asserted(w) = w.next /\ w.next \in Nat
      BY <1>3, <3>2 DEF Asserted
    <3>10. f[x.row] = (w.next - Asserted(x)) + (Asserted(last) - w.next)
      BY <3>4, <3>6, <3>8, <3>9
    <3> QED BY <1>3, <1>6, <3>9, <3>10
  <2> QED BY <2>1, <2>2
<1>8. Nat \subseteq G
  <2> HIDE DEF G
  <2> QED BY <1>7, Everywhere
<1>9. n - charge.row \in Nat
  BY <1>1, <1>3, <1>4
<1>10. f[charge.row] = Asserted(last) - Asserted(charge)
  BY <1>1, <1>8, <1>9
<1>11. Asserted(charge) = charge.amount
  BY DEF Asserted, Of
<1> QED BY <1>1, <1>3, <1>6, <1>10, <1>11 DEF f, last

\* A replay of a known charge charges what its last known correction asserts.
LEMMA EffectiveIsLast ==
    ASSUME NEW E, Ledger(E), NEW t \in Nat, NEW charge \in Of(Known(E, t), "charge_estimated")
    PROVE  /\ Ledger(Known(E, t))
           /\ effectiveChargesFor(E, charge, t) = Asserted(Last(Known(E, t), charge))
<1>1. Ledger(Known(E, t))
  BY KnownPart, PartLedger
<1> QED BY <1>1, EffectiveIs, FollowedIsLast

\* The corrections of a charge in a part are those of the ledger in it.
LEMMA PartCorrections ==
    ASSUME NEW E, Ledger(E), NEW D, Part(D, E), NEW charge
    PROVE  Corrections(D, charge) = Corrections(E, charge) \cap D
<1>1. \A d \in D : translationRoot(D, d) = translationRoot(E, d) /\ d \in E
  BY RootInPart DEF Part
<1> QED BY <1>1 DEF Corrections, Of

-----------------------------------------------------------------------------
(* What the conditions on the single events come to for the whole ledger.   *)

Covered(E) ==
    \A charge \in Of(E, "charge_estimated") :
        recordedNegativeAdjustments(E, charge) <= correctedChargeAmount(E, charge)

Conserved(E) == \A a \in Of(E, "cost_allocated") : Total(On(E, "allocation_reversed", a.row)) <= a.amount

Matched(E) ==
    /\ \A s, e \in E : Source(s, e) =>
          /\ e.kind = "credit_applied" => s.kind = "charge_estimated"
          /\ e.kind = "fx_translated" => e.currency # s.currency
          /\ e.kind = "allocation_reversed" => s.kind = "cost_allocated" /\ e.amount <= s.amount
    /\ \A t, u \in Of(E, "fx_translated") :
          t # u /\ t.currency = u.currency => translationRoot(E, t) # translationRoot(E, u)

Sound(E) == Covered(E) /\ Conserved(E) /\ Matched(E)

\* A sound ledger passes every check of every row.
LEMMA SoundValidates ==
    ASSUME NEW E, Ledger(E), Sound(E), NEW e \in E
    PROVE  validateReferenceClosure(E, e)
<1> SUFFICES ASSUME e.kind \notin Standalone PROVE validateReferenceClosure(E, e)
  BY DEF validateReferenceClosure
<1> DEFINE s == Row(E, e.source)
<1>1. s \in E /\ Source(s, e) /\ s.recordedAt <= e.recordedAt
  BY SourceIs
<1>2. AfterSource(E, e)
  BY <1>1 DEF AfterSource, Source
<1>3. e.kind \in {"price_corrected", "credit_applied", "fx_translated", "allocation_reversed"} /\ e \in Event
  BY EventType DEF Ledger, Placed, Kinds, Standalone
<1>4. ASSUME e.kind = "credit_applied" PROVE ValidCredit(E, e)
  <2>1. s.kind = "charge_estimated"
    BY <1>1, <1>4 DEF Sound, Matched
  <2>2. recordedNegativeAdjustments(E, s) <= correctedChargeAmount(E, s)
    BY <1>1, <2>1 DEF Sound, Covered, Of
  <2> QED BY <2>1, <2>2 DEF ValidCredit
<1>5. ASSUME e.kind = "price_corrected" PROVE ValidCorrection(E, e)
  <2> DEFINE charge == translationRoot(E, e)
  <2>1. s.kind \in Priced /\ e.amount = e.next - Asserted(s) /\ e.next >= 0
    BY <1>1, <1>5 DEF Ledger, Chained
  <2>2. Asserted(s) >= 0
    BY <1>1, <2>1 DEF Ledger, Placed, Chained, Priced, Standalone, Asserted
  <2>3. Asserted(s) = IF s.kind = "price_corrected" THEN s.next ELSE s.amount
    BY DEF Asserted
  <2>4. On(E, "price_corrected", e.source) = {e}
    BY <1>5 DEF On, Of, Ledger, Chained
  <2>5. charge \in E /\ charge.kind = "charge_estimated"
    BY <1>5, RootAt, RootIsCharge DEF Linked
  <2>6. recordedNegativeAdjustments(E, charge) <= correctedChargeAmount(E, charge)
    BY <2>5 DEF Sound, Covered, Of
  <2> HIDE DEF s
  <2> QED BY <2>1, <2>2, <2>3, <2>4, <2>6 DEF ValidCorrection, s, Priced
<1>6. ASSUME e.kind = "fx_translated" PROVE ValidTranslation(E, e)
  <2>1. s.kind \in {"charge_estimated", "fx_translated"} /\ e.currency # s.currency
    BY <1>1, <1>6 DEF Ledger, Chained, Sound, Matched
  <2>2. e \in Of(E, "fx_translated")
    BY <1>6 DEF Of
  <2>3. \A t \in Of(E, "fx_translated") \ {e} :
          t.currency = e.currency => translationRoot(E, t) # translationRoot(E, e)
    BY <2>2 DEF Sound, Matched
  <2> QED BY <2>1, <2>3 DEF ValidTranslation
<1>7. ASSUME e.kind = "allocation_reversed" PROVE ValidReversal(E, e)
  <2>1. s.kind = "cost_allocated" /\ e.amount <= s.amount
    BY <1>1, <1>7 DEF Sound, Matched
  <2>2. s.amount >= 0 /\ e.amount >= 0
    BY <1>1, <1>7, <2>1 DEF Ledger, Placed, Standalone, Reductions
  <2>3. Total(On(E, "allocation_reversed", s.row)) <= s.amount
    BY <1>1, <2>1 DEF Sound, Conserved, Of
  <2>4. s.row = e.source
    BY <1>1 DEF Source
  <2> HIDE DEF s
  <2> QED BY <2>1, <2>2, <2>3, <2>4 DEF ValidReversal, s
<1> HIDE DEF s
<1> QED BY <1>2, <1>3, <1>4, <1>5, <1>6, <1>7, Zenon DEF validateReferenceClosure

(* One append.                                                              *)

\* A row after all others, with what callers may give.
Fresh(E, e) ==
    /\ e \in Event /\ e.row > 0
    /\ \A d \in E : d.row < e.row
    /\ e.kind \in Standalone => e.source = 0 /\ e.amount >= 0
    /\ e.kind \notin Standalone => e.source < e.row
    /\ e.kind \in Reductions => e.amount >= 0

\* What the check of the new row says of it alone.
LEMMA NewLedger ==
    ASSUME NEW E, Ledger(E), NEW e, Fresh(E, e), validateReferenceClosure(E \cup {e}, e)
    PROVE  Ledger(E \cup {e}) /\ Part(E, E \cup {e}) /\ e \notin E
<1> DEFINE F == E \cup {e}
<1>0. /\ e \in Event /\ e.row \in Nat /\ e.source \in Nat /\ e.row > 0
      /\ \A d \in E : d.row < e.row /\ d.row \in Nat /\ d \in Event
  BY EventType DEF Fresh, Ledger, Placed
<1>1. e \notin E
  BY <1>0
<1>2. \A c, d \in F : c.row = d.row => c = d
  BY <1>0 DEF Ledger, Placed
<1>3. ASSUME NEW d \in E PROVE ~ Source(e, d)
  <2>1. CASE d.kind \in Standalone
    BY <1>0, <2>1 DEF Ledger, Placed, Source
  <2>2. CASE d.kind \notin Standalone
    <3>1. PICK s \in E : Source(s, d)
      BY <2>2 DEF Ledger, Placed
    <3> QED BY <1>0, <3>1 DEF Source
  <2> QED BY <2>1, <2>2
<1>4. ASSUME e.kind \notin Standalone
      PROVE  /\ Row(F, e.source) \in E /\ Source(Row(F, e.source), e)
             /\ Row(F, e.source).row < e.row /\ Row(F, e.source).recordedAt <= e.recordedAt
             /\ \A s \in F : Source(s, e) => s = Row(F, e.source)
  <2>1. PICK s \in F : s.row = e.source /\ s.recordedAt <= e.recordedAt
    BY <1>4 DEF validateReferenceClosure, AfterSource
  <2>2. s.row < e.row
    BY <1>4, <2>1 DEF Fresh
  <2>3. s \in E
    BY <1>0, <2>1, <2>2
  <2>4. Row(F, e.source) = s
    BY <1>2, <2>1 DEF Row
  <2>5. \A u \in F : Source(u, e) => u = s
    BY <1>2, <2>1 DEF Source
  <2> QED BY <2>1, <2>2, <2>3, <2>4, <2>5 DEF Source
<1>5. IsFiniteSet(F) /\ F \in SUBSET Event
  BY <1>0, FS_AddElement DEF Ledger, Placed
<1>6. Placed(F)
  <2>1. \A d \in F : d.row <= e.row
    BY <1>0
  <2>2. ASSUME NEW d \in F, d.kind \notin Standalone
        PROVE  \E s \in F : Source(s, d) /\ s.row < d.row /\ s.recordedAt <= d.recordedAt
    BY <1>4, <2>2 DEF Ledger, Placed
  <2>3. \A d \in F : d.kind \in Standalone => d.source = 0 /\ d.amount >= 0
    BY DEF Ledger, Placed, Fresh
  <2>4. \A d \in F : d.kind \in Reductions => d.amount >= 0
    BY DEF Ledger, Placed, Fresh
  <2>5. \A d \in F : d.row > 0
    BY <1>0 DEF Ledger, Placed
  <2> HIDE DEF F
  <2> QED BY <1>0, <1>2, <1>5, <2>1, <2>2, <2>3, <2>4, <2>5 DEF Placed
<1>7. ASSUME e.kind = "price_corrected"
      PROVE  /\ Row(F, e.source).kind \in Priced /\ e.amount = e.next - Asserted(Row(F, e.source))
             /\ e.next >= 0 /\ On(F, "price_corrected", e.source) = {e}
  <2>1. ValidCorrection(F, e)
    BY <1>7 DEF validateReferenceClosure, Standalone
  <2> HIDE DEF F
  <2> QED BY <2>1 DEF ValidCorrection, Priced, Asserted
<1>8. e.kind = "fx_translated" => Row(F, e.source).kind \in {"charge_estimated", "fx_translated"}
  BY DEF validateReferenceClosure, Standalone, ValidTranslation
<1>9. Chained(F)
  <2>1. ASSUME NEW s \in F, NEW d \in F, d.kind = "price_corrected", Source(s, d)
        PROVE  s.kind \in Priced /\ d.amount = d.next - Asserted(s)
    <3>1. CASE d = e
      <4>1. s = Row(F, e.source)
        BY <1>4, <2>1, <3>1 DEF Standalone
      <4> QED BY <1>7, <2>1, <3>1, <4>1
    <3>2. CASE d \in E
      BY <1>3, <2>1, <3>2 DEF Ledger, Chained
    <3> QED BY <3>1, <3>2
  <2>2. \A d \in F : d.kind = "price_corrected" => d.next >= 0
    BY <1>7 DEF Ledger, Chained
  <2>3. ASSUME NEW c \in F, NEW d \in F, c.kind = "price_corrected", d.kind = "price_corrected",
               c.source = d.source
        PROVE  c = d
    <3>1. CASE c \in E /\ d \in E
      BY <2>3, <3>1 DEF Ledger, Chained
    <3>2. CASE c = e \/ d = e
      <4>1. e.kind = "price_corrected" /\ c.source = e.source /\ d.source = e.source
        BY <2>3, <3>2
      <4>2. c \in On(F, "price_corrected", e.source) /\ d \in On(F, "price_corrected", e.source)
        BY <2>3, <4>1 DEF On, Of
      <4> QED BY <1>7, <4>1, <4>2
    <3> QED BY <3>1, <3>2
  <2>4. ASSUME NEW s \in F, NEW d \in F, d.kind = "fx_translated", Source(s, d)
        PROVE  s.kind \in {"charge_estimated", "fx_translated"}
    <3>1. CASE d = e
      <4>1. s = Row(F, e.source)
        BY <1>4, <2>4, <3>1 DEF Standalone
      <4> QED BY <1>8, <2>4, <3>1, <4>1
    <3>2. CASE d \in E
      BY <1>3, <2>4, <3>2 DEF Ledger, Chained
    <3> QED BY <3>1, <3>2
  <2> HIDE DEF F
  <2> QED BY <2>1, <2>2, <2>3, <2>4 DEF Chained
<1>10. Part(E, F)
  BY <1>3 DEF Part
<1> QED BY <1>1, <1>6, <1>9, <1>10 DEF Ledger

\* The new row is the only one that a sum over rows of its kind may gain.
LEMMA NewOn ==
    ASSUME NEW E, NEW e, NEW kind, NEW row
    PROVE  On(E \cup {e}, kind, row) =
             On(E, kind, row) \cup (IF e.kind = kind /\ e.source = row THEN {e} ELSE {})
  BY DEF On, Of

LEMMA NewCorrections ==
    ASSUME NEW E, NEW e, Ledger(E \cup {e}), Part(E, E \cup {e}), NEW charge,
           e.kind # "price_corrected" \/ translationRoot(E \cup {e}, e) # charge
    PROVE  Corrections(E \cup {e}, charge) = Corrections(E, charge)
<1> DEFINE F == E \cup {e}
<1>1. Corrections(E, charge) = Corrections(F, charge) \cap E
  BY PartCorrections
<1>2. e \notin Corrections(F, charge)
  BY DEF Corrections, Of
<1>3. Corrections(F, charge) \subseteq F
  BY DEF Corrections, Of
<1> HIDE DEF F
<1>4. F = E \cup {e}
  BY DEF F
<1> QED BY <1>1, <1>2, <1>3, <1>4 DEF F

\* Nothing is taken from, nor corrected in, a row that is the last.
LEMMA NothingOnLast ==
    ASSUME NEW E, NEW e, Ledger(E \cup {e}), Fresh(E, e)
    PROVE  /\ \A kind \in Reductions \cup Linked : On(E \cup {e}, kind, e.row) = {}
           /\ e.kind = "charge_estimated" => Corrections(E \cup {e}, e) = {}
<1> DEFINE F == E \cup {e}
<1>1. \A d \in F : d \in Event /\ d.row \in Nat /\ d.row <= e.row
  BY EventType DEF Ledger, Placed, Fresh
<1>2. ASSUME NEW kind \in Reductions \cup Linked PROVE On(F, kind, e.row) = {}
  <2> SUFFICES ASSUME NEW d \in F, d.kind = kind, d.source = e.row PROVE FALSE
    BY DEF On, Of
  <2>1. d.kind \notin Standalone
    BY DEF Reductions, Linked, Standalone
  <2>2. Source(Row(F, d.source), d) /\ Row(F, d.source).row < d.row
    BY <2>1, SourceIs
  <2> QED BY <1>1, <2>2 DEF Source
<1>3. ASSUME e.kind = "charge_estimated", NEW d \in Corrections(F, e) PROVE FALSE
  <2>1. d \in F /\ d.kind \in Linked /\ translationRoot(F, d) = e
    BY <1>3 DEF Corrections, Of, Linked
  <2>2. e.row < d.row
    BY <2>1, RootIsCharge
  <2> QED BY <1>1, <2>1, <2>2
<1> QED BY <1>2, <1>3

\* A sum that gains a row of amount zero, or none, keeps its value.
LEMMA ZeroAdds ==
    ASSUME NEW S \in SUBSET Event, IsFiniteSet(S), NEW e \in Event, e \notin S, e.amount = 0
    PROVE  Total(S \cup {e}) = Total(S)
  BY TotalAdd, TotalType

\* The check of one row keeps every sum within its bound.
LEMMA NewSound ==
    ASSUME NEW E, Ledger(E), Sound(E), NEW e, Fresh(E, e), validateReferenceClosure(E \cup {e}, e)
    PROVE  Sound(E \cup {e})
<1> DEFINE F == E \cup {e}
<1>0. Ledger(F) /\ Part(E, F) /\ e \notin E /\ e \in F /\ \A d \in E : d \in F
  BY NewLedger
<1>1. /\ E \in SUBSET Event /\ IsFiniteSet(E) /\ e \in Event /\ e.amount \in Int
      /\ F \in SUBSET Event /\ IsFiniteSet(F)
  BY <1>0, EventType DEF Ledger, Placed, Fresh
<1>2. \A d \in E : translationRoot(F, d) = translationRoot(E, d) /\ translationRoot(E, d) \in E
  BY <1>0, RootInPart, RootAt
<1>3. ASSUME NEW s \in F, Source(s, e) PROVE s = Row(F, e.source)
  BY <1>0, <1>3, RowIs DEF Source
<1>4. ASSUME NEW s \in F, NEW d \in E, Source(s, d) PROVE s \in E
  BY <1>0, <1>4 DEF Part
<1>5. ASSUME NEW charge \in Of(F, "charge_estimated")
      PROVE  recordedNegativeAdjustments(F, charge) <= correctedChargeAmount(F, charge)
  <2> DEFINE Credits(L) == On(L, "credit_applied", charge.row)
  <2>1. CASE charge = e
    <3>1. Credits(F) = {} /\ Corrections(F, charge) = {}
      BY <1>0, <1>5, <2>1, NothingOnLast DEF Of, Reductions
    <3>2. charge.amount >= 0
      BY <1>5, <2>1 DEF Fresh, Of, Standalone
    <3>3. recordedNegativeAdjustments(F, charge) = Total({})
      BY <3>1, Zenon DEF recordedNegativeAdjustments
    <3>4. correctedChargeAmount(F, charge) = charge.amount + Total({})
      BY <3>1, Zenon DEF correctedChargeAmount
    <3> HIDE DEF F
    <3> QED BY <1>1, <2>1, <3>2, <3>3, <3>4, TotalEmpty
  <2>2. CASE charge # e /\ e.kind = "credit_applied" /\ e.source = charge.row /\ e.amount > 0
    <3>1. ValidCredit(F, e)
      BY <2>2 DEF validateReferenceClosure, Standalone
    <3>2. Row(F, e.source) = charge
      BY <1>0, <1>5, <2>2, RowIs DEF Of
    <3> HIDE DEF F
    <3> QED BY <2>2, <3>1, <3>2 DEF ValidCredit
  <2>3. CASE charge # e /\ e.kind = "price_corrected" /\ translationRoot(F, e) = charge
    <3>1. ValidCorrection(F, e)
      BY <2>3 DEF validateReferenceClosure, Standalone
    <3> HIDE DEF F
    <3> QED BY <2>3, <3>1 DEF ValidCorrection
  <2>4. CASE /\ charge # e
             /\ ~ (e.kind = "credit_applied" /\ e.source = charge.row /\ e.amount > 0)
             /\ ~ (e.kind = "price_corrected" /\ translationRoot(F, e) = charge)
    <3>1. charge \in Of(E, "charge_estimated")
      BY <1>5, <2>4 DEF Of
    <3>2. Corrections(F, charge) = Corrections(E, charge)
      BY <1>0, <2>4, NewCorrections
    <3>3. Credits(E) \in SUBSET Event /\ IsFiniteSet(Credits(E)) /\ e \notin Credits(E)
      <4>1. Credits(E) \subseteq E
        BY DEF On, Of
      <4> QED BY <1>0, <1>1, <4>1, SubsetFinite
    <3>4. Credits(F) = Credits(E) \/ (Credits(F) = Credits(E) \cup {e} /\ e.amount = 0)
      <4>1. CASE e.kind = "credit_applied" /\ e.source = charge.row
        <5>1. e.amount = 0
          BY <1>1, <2>4, <4>1 DEF Fresh, Reductions
        <5> QED BY <4>1, <5>1, NewOn
      <4>2. CASE ~ (e.kind = "credit_applied" /\ e.source = charge.row)
        BY <4>2, NewOn
      <4> QED BY <4>1, <4>2
    <3>5. Total(Credits(F)) = Total(Credits(E))
      <4> HIDE DEF Credits
      <4> QED BY <1>1, <3>3, <3>4, ZeroAdds
    <3>6. recordedNegativeAdjustments(E, charge) <= correctedChargeAmount(E, charge)
      BY <3>1 DEF Sound, Covered
    <3> QED BY <3>2, <3>5, <3>6 DEF recordedNegativeAdjustments, correctedChargeAmount
  <2> QED BY <2>1, <2>2, <2>3, <2>4
<1>6. ASSUME NEW a \in Of(F, "cost_allocated")
      PROVE  Total(On(F, "allocation_reversed", a.row)) <= a.amount
  <2>1. CASE a = e
    <3>1. On(F, "allocation_reversed", a.row) = {}
      BY <1>0, <2>1, NothingOnLast DEF Reductions
    <3>2. a.amount >= 0
      BY <1>6, <2>1 DEF Fresh, Of, Standalone
    <3> QED BY <3>1, <3>2, TotalEmpty
  <2>2. CASE a # e /\ e.kind = "allocation_reversed" /\ e.source = a.row
    <3>1. ValidReversal(F, e)
      BY <2>2 DEF validateReferenceClosure, Standalone
    <3>2. Row(F, e.source) = a
      BY <1>0, <1>6, <2>2, RowIs DEF Of
    <3> HIDE DEF F
    <3> QED BY <2>2, <3>1, <3>2 DEF ValidReversal
  <2>3. CASE a # e /\ ~ (e.kind = "allocation_reversed" /\ e.source = a.row)
    <3>1. a \in Of(E, "cost_allocated")
      BY <1>6, <2>3 DEF Of
    <3>2. On(F, "allocation_reversed", a.row) = On(E, "allocation_reversed", a.row)
      BY <2>3 DEF On, Of
    <3>3. Total(On(E, "allocation_reversed", a.row)) <= a.amount
      BY <3>1 DEF Sound, Conserved
    <3> HIDE DEF F
    <3> QED BY <3>2, <3>3
  <2> QED BY <2>1, <2>2, <2>3
<1>7. ASSUME NEW s \in F, NEW d \in F, Source(s, d)
      PROVE  /\ d.kind = "credit_applied" => s.kind = "charge_estimated"
             /\ d.kind = "fx_translated" => d.currency # s.currency
             /\ d.kind = "allocation_reversed" => s.kind = "cost_allocated" /\ d.amount <= s.amount
  <2>1. CASE d \in E
    <3>1. s \in E
      BY <1>4, <1>7, <2>1
    <3> QED BY <1>7, <2>1, <3>1 DEF Sound, Matched
  <2>2. CASE d = e
    <3>1. s = Row(F, e.source)
      BY <1>3, <1>7, <2>2
    <3>2. e.kind = "credit_applied" => ValidCredit(F, e)
      BY DEF validateReferenceClosure, Standalone
    <3>3. e.kind = "fx_translated" => ValidTranslation(F, e)
      BY DEF validateReferenceClosure, Standalone
    <3>4. e.kind = "allocation_reversed" => ValidReversal(F, e)
      BY DEF validateReferenceClosure, Standalone
    <3> HIDE DEF F
    <3> QED BY <2>2, <3>1, <3>2, <3>3, <3>4 DEF ValidCredit, ValidTranslation, ValidReversal
  <2> QED BY <2>1, <2>2
<1>8. ASSUME NEW t \in Of(F, "fx_translated"), NEW u \in Of(F, "fx_translated"), t # u, t.currency = u.currency
      PROVE  translationRoot(F, t) # translationRoot(F, u)
  <2>1. CASE t \in E /\ u \in E
    <3>1. t \in Of(E, "fx_translated") /\ u \in Of(E, "fx_translated")
      BY <1>8, <2>1 DEF Of
    <3> QED BY <1>2, <1>8, <2>1, <3>1 DEF Sound, Matched
  <2>2. CASE t = e \/ u = e
    <3>1. e.kind = "fx_translated"
      BY <1>8, <2>2 DEF Of
    <3>2. ValidTranslation(F, e)
      BY <3>1 DEF validateReferenceClosure, Standalone
    <3>3. \A v \in Of(F, "fx_translated") \ {e} :
            v.currency = e.currency => translationRoot(F, v) # translationRoot(F, e)
      BY <3>2 DEF ValidTranslation
    <3> HIDE DEF F
    <3> QED BY <1>8, <2>2, <3>3
  <2>3. t \in F /\ u \in F
    BY <1>8 DEF Of
  <2> QED BY <2>1, <2>2, <2>3
<1> HIDE DEF F
<1>9. Covered(F) /\ Conserved(F) /\ Matched(F)
  BY <1>5, <1>6, <1>7, <1>8 DEF Covered, Conserved, Matched
<1> QED BY <1>9 DEF Sound, F

-----------------------------------------------------------------------------
(* The steps: each appends one row that passed the check.                   *)

TypeInv == TypeOK /\ Ledger(rows)

\* The ledger as its first k rows.
First(E, k) == {e \in E : e.row <= k}

\* The inductive invariant: the ledger is sound, and its credits were covered
\* when it had fewer rows.
CoverInv == Sound(rows) /\ \A k \in 0 .. Cardinality(rows) : Covered(First(rows, k))

LEMMA RowsFinite == ASSUME TypeInv PROVE IsFiniteSet(rows) /\ Cardinality(rows) \in Nat
  BY FS_CardinalityType DEF TypeInv, Ledger, Placed

\* Every operation appends one event with the next number.
LEMMA NextAppends ==
    ASSUME TypeInv, Next
    PROVE  \E e \in Event : /\ e.row = Cardinality(rows) + 1 /\ Fresh(rows, e)
                            /\ validateReferenceClosure(rows \cup {e}, e)
                            /\ rows' = rows \cup {e}
<1> DEFINE n == Cardinality(rows)
           New(kind, t, source, amount, next, currency) ==
              [row |-> n + 1, kind |-> kind, recordedAt |-> t, source |-> source,
               amount |-> amount, next |-> next, currency |-> currency]
           Goal(e) == /\ e \in Event /\ e.row = n + 1 /\ Fresh(rows, e)
                      /\ validateReferenceClosure(rows \cup {e}, e) /\ rows' = rows \cup {e}
<1>0. n \in Nat
  BY RowsFinite
<1>1. \A d \in rows : d \in Event /\ d.row \in 1 .. n
  BY DEF TypeInv, TypeOK
<1>2. Amounts \subseteq Nat /\ Home \in Currencies
  BY ChargesAssumption
<1>3. ASSUME NEW kind \in Kinds, NEW t \in Instants, NEW source \in 0 .. n, NEW amount \in Int,
             NEW next \in Nat, NEW currency \in Currencies,
             append(New(kind, t, source, amount, next, currency)),
             kind \in Standalone => source = 0 /\ amount >= 0, kind \in Reductions => amount >= 0
      PROVE  \E e \in Event : Goal(e)
  <2> DEFINE e == New(kind, t, source, amount, next, currency)
  <2>1. e \in Event
    BY <1>0 DEF Event
  <2>2. /\ e.row = n + 1 /\ e.kind = kind /\ e.source = source /\ e.amount = amount
        /\ append(e)
    BY <1>3
  <2> HIDE DEF e
  <2>3. Fresh(rows, e)
    BY <1>0, <1>1, <1>3, <2>1, <2>2 DEF Fresh
  <2>4. Goal(e)
    BY <2>1, <2>2, <2>3 DEF append
  <2> QED BY <2>1, <2>4
<1> SUFFICES \E e \in Event : Goal(e)
  OBVIOUS
<1> HIDE DEF n, New, Goal
<1>4. PICK t \in Instants :
        \/ Charge(t) \/ Allocate(t)
        \/ \E s \in rows : Credit(t, s) \/ Correct(t, s) \/ Translate(t, s) \/ Reverse(t, s)
  BY DEF Next
<1>5. CASE Charge(t)
  <2>1. PICK a \in Amounts : append(New("charge_estimated", t, 0, a, 0, Home))
    BY <1>5 DEF Charge, NewEvent, n, New
  <2>2. 0 \in 0 .. n /\ 0 \in Nat /\ a \in Int /\ a >= 0 /\ Home \in Currencies
    BY <1>0, <1>2
  <2>3. "charge_estimated" \in Kinds /\ "charge_estimated" \notin Reductions
    BY DEF Kinds, Reductions
  <2> QED BY <1>3, <2>1, <2>2, <2>3, Zenon
<1>6. CASE Allocate(t)
  <2>1. PICK a \in Amounts : append(New("cost_allocated", t, 0, a, 0, Home))
    BY <1>6 DEF Allocate, NewEvent, n, New
  <2>2. 0 \in 0 .. n /\ 0 \in Nat /\ a \in Int /\ a >= 0 /\ Home \in Currencies
    BY <1>0, <1>2
  <2>3. "cost_allocated" \in Kinds /\ "cost_allocated" \notin Reductions
    BY DEF Kinds, Reductions
  <2> QED BY <1>3, <2>1, <2>2, <2>3, Zenon
<1>7. ASSUME NEW s \in rows, Credit(t, s) PROVE \E e \in Event : Goal(e)
  <2>1. PICK a \in Amounts : append(New("credit_applied", t, s.row, a, 0, Home))
    BY <1>7 DEF Credit, NewEvent, n, New
  <2>2. s.row \in 0 .. n
    BY <1>0, <1>1
  <2> QED BY <1>0, <1>2, <1>3, <2>1, <2>2 DEF Kinds, Reductions, Standalone
<1>8. ASSUME NEW s \in rows, Reverse(t, s) PROVE \E e \in Event : Goal(e)
  <2>1. PICK a \in Amounts : append(New("allocation_reversed", t, s.row, a, 0, Home))
    BY <1>8 DEF Reverse, NewEvent, n, New
  <2>2. s.row \in 0 .. n
    BY <1>0, <1>1
  <2> QED BY <1>0, <1>2, <1>3, <2>1, <2>2 DEF Kinds, Reductions, Standalone
<1>9. ASSUME NEW s \in rows, Translate(t, s) PROVE \E e \in Event : Goal(e)
  <2>1. PICK c \in Currencies : append(New("fx_translated", t, s.row, s.amount, 0, c))
    BY <1>9 DEF Translate, NewEvent, n, New
  <2>2. s.row \in 0 .. n /\ s.amount \in Int
    BY <1>0, <1>1, EventType
  <2> QED BY <1>0, <1>2, <1>3, <2>1, <2>2 DEF Kinds, Reductions, Standalone
<1>10. ASSUME NEW s \in rows, Correct(t, s) PROVE \E e \in Event : Goal(e)
  <2> DEFINE previous == IF s.kind = "price_corrected" THEN s.next ELSE s.amount
  <2>1. PICK a \in Replacements : append(New("price_corrected", t, s.row, a - previous, a, Home))
    BY <1>10 DEF Correct, NewEvent, n, New
  <2> DEFINE e == New("price_corrected", t, s.row, a - previous, a, Home)
  <2>2. s.row \in 0 .. n /\ previous \in Int
    BY <1>0, <1>1, EventType
  <2>3. validateReferenceClosure(rows \cup {e}, e) /\ e.kind = "price_corrected" /\ e.next = a
    BY <2>1 DEF append, New
  <2> HIDE DEF e
  <2>4. ValidCorrection(rows \cup {e}, e)
    BY <2>3 DEF validateReferenceClosure, Standalone
  <2>5. a >= 0
    BY <2>3, <2>4 DEF ValidCorrection
  <2> HIDE DEF previous
  <2>6. a \in Nat /\ a - previous \in Int
    BY <1>2, <2>2, <2>5 DEF Replacements
  <2> QED BY <1>0, <1>2, <1>3, <2>1, <2>2, <2>6 DEF Kinds, Reductions, Standalone
<1> QED BY <1>4, <1>5, <1>6, <1>7, <1>8, <1>9, <1>10

LEMMA InitType == Init => TypeInv
<1> SUFFICES ASSUME rows = {} PROVE TypeInv
  BY DEF Init
<1>1. IsFiniteSet({}) /\ Cardinality({}) = 0
  BY FS_EmptySet
<1>2. TypeOK
  BY <1>1 DEF TypeOK
<1>3. Ledger(rows)
  BY <1>1 DEF Ledger, Placed, Chained
<1> QED BY <1>2, <1>3 DEF TypeInv

LEMMA StepType == ASSUME TypeInv, CoverInv, [Next]_rows PROVE TypeInv'
<1>1. CASE Next
  <2> DEFINE n == Cardinality(rows)
  <2>1. PICK e \in Event : /\ e.row = n + 1 /\ Fresh(rows, e)
                           /\ validateReferenceClosure(rows \cup {e}, e) /\ rows' = rows \cup {e}
    BY <1>1, NextAppends
  <2>2. Ledger(rows') /\ e \notin rows
    BY <2>1, NewLedger DEF TypeInv
  <2>3. n \in Nat /\ Cardinality(rows') = n + 1
    BY <2>1, <2>2, RowsFinite, FS_AddElement
  <2>4. {d.row : d \in rows'} = {d.row : d \in rows} \cup {n + 1}
    BY <2>1
  <2>5. {d.row : d \in rows} = 1 .. n
    BY DEF TypeInv, TypeOK
  <2> HIDE DEF n
  <2>6. {d.row : d \in rows'} = 1 .. Cardinality(rows')
    BY <2>3, <2>4, <2>5
  <2>7. rows' \subseteq Event
    BY <2>2 DEF Ledger, Placed
  <2>8. ASSUME NEW d \in rows' PROVE IF d.kind \in Standalone THEN d.source = 0 ELSE d.source \in 1 .. d.row - 1
    <3>1. CASE d.kind \in Standalone
      BY <2>2, <3>1 DEF Ledger, Placed
    <3>2. CASE d.kind \notin Standalone
      <4> DEFINE s == Row(rows', d.source)
      <4>1. s \in rows' /\ Source(s, d) /\ s.row < d.row
        BY <2>2, <3>2, SourceIs
      <4> HIDE DEF s
      <4>2. s.row > 0 /\ s.row \in Nat /\ d.row \in Nat
        BY <2>2, <2>7, <4>1, EventType DEF Ledger, Placed
      <4>3. d.source \in 1 .. d.row - 1
        BY <4>1, <4>2 DEF Source
      <4> QED BY <3>2, <4>3
    <3> QED BY <3>1, <3>2
  <2>9. TypeOK'
    BY <2>6, <2>7, <2>8 DEF TypeOK
  <2>10. Ledger(rows)'
    BY <2>2
  <2> QED BY <2>9, <2>10 DEF TypeInv
<1>2. CASE UNCHANGED rows
  BY <1>2 DEF TypeInv, TypeOK
<1> QED BY <1>1, <1>2

LEMMA InitCover == Init => CoverInv
<1> SUFFICES ASSUME rows = {} PROVE CoverInv
  BY DEF Init
<1>1. Sound({})
  BY DEF Sound, Covered, Conserved, Matched, Of
<1>2. \A k : Covered(First({}, k))
  BY DEF Covered, First, Of
<1> QED BY <1>1, <1>2 DEF CoverInv

\* Of the first rows nothing changes, and all rows together are sound.
LEMMA StepCover == ASSUME TypeInv, CoverInv, [Next]_rows PROVE CoverInv'
<1>1. CASE Next
  <2> DEFINE n == Cardinality(rows)
  <2>1. PICK e \in Event : /\ e.row = n + 1 /\ Fresh(rows, e)
                           /\ validateReferenceClosure(rows \cup {e}, e) /\ rows' = rows \cup {e}
    BY <1>1, NextAppends
  <2>2. Sound(rows')
    BY <2>1, NewSound DEF TypeInv, CoverInv
  <2>3. n \in Nat /\ Cardinality(rows') = n + 1
    BY <2>1, NewLedger, RowsFinite, FS_AddElement DEF TypeInv
  <2>4. \A d \in rows : d.row \in 1 .. n
    BY DEF TypeInv, TypeOK
  <2> HIDE DEF n
  <2>5. ASSUME NEW k \in 0 .. n + 1 PROVE Covered(First(rows', k))
    <3>1. CASE k = n + 1
      <4>1. First(rows', k) = rows'
        BY <2>1, <2>3, <2>4, <3>1 DEF First
      <4> QED BY <2>2, <4>1 DEF Sound
    <3>2. CASE k # n + 1
      <4>1. First(rows', k) = First(rows, k) /\ k \in 0 .. n
        BY <2>1, <2>3, <2>4, <2>5, <3>2 DEF First
      <4> QED BY <4>1 DEF CoverInv, n
    <3> QED BY <3>1, <3>2
  <2>6. \A k \in 0 .. Cardinality(rows') : Covered(First(rows', k))
    BY <2>3, <2>5
  <2> QED BY <2>2, <2>6 DEF CoverInv
<1>2. CASE UNCHANGED rows
  <2>1. Cardinality(rows') = Cardinality(rows) /\ \A k : First(rows', k) = First(rows, k)
    BY <1>2
  <2> QED BY <1>2, <2>1 DEF CoverInv
<1> QED BY <1>1, <1>2

LEMMA Invariants == Spec => [](TypeInv /\ CoverInv)
<1>1. Init => TypeInv /\ CoverInv
  BY InitType, InitCover
<1>2. TypeInv /\ CoverInv /\ [Next]_rows => (TypeInv /\ CoverInv)'
  BY StepType, StepCover
<1> QED BY <1>1, <1>2, PTL DEF Spec

(***************************************************************************)
(* The ledger holds well-formed rows, numbered as they came, whose sources *)
(* came before them.                                                       *)
(***************************************************************************)
THEOREM TypeCorrect == Spec => []TypeOK
<1>1. TypeInv => TypeOK
  BY DEF TypeInv
<1> QED BY <1>1, Invariants, PTL

(***************************************************************************)
(* No accepted append makes an earlier row invalid: what a read checks of  *)
(* every row it has always found so (validateReferenceClosure, which       *)
(* append asks of the new row only), for any events in any order.          *)
(***************************************************************************)
THEOREM RowsStayValid == Spec => []EveryRowRevalidates
<1>1. TypeInv /\ CoverInv => EveryRowRevalidates
  BY SoundValidates DEF TypeInv, CoverInv, EveryRowRevalidates
<1> QED BY <1>1, Invariants, PTL

(***************************************************************************)
(* No more is taken back from an allocation than was allocated, in the     *)
(* replay of any instant, for any instants the callers gave.               *)
(***************************************************************************)
THEOREM AllocationsConserved == Spec => []AllocationConserved
<1>1. ASSUME TypeInv, CoverInv PROVE AllocationConserved
  <2> SUFFICES ASSUME NEW a \in Of(rows, "cost_allocated"), NEW t \in Instants
               PROVE  LET taken == On(Known(rows, t), "allocation_reversed", a.row)
                      IN  IF a.recordedAt <= t THEN Total(taken) <= a.amount ELSE taken = {}
    BY DEF AllocationConserved
  <2> DEFINE all == On(rows, "allocation_reversed", a.row)
             taken == On(Known(rows, t), "allocation_reversed", a.row)
  <2>1. Ledger(rows) /\ t \in Nat /\ a \in rows
    BY <1>1, ChargesAssumption DEF TypeInv, Of
  <2>2. taken \subseteq all /\ all \subseteq rows /\ \A e \in taken : e.recordedAt <= t
    BY DEF On, Of, Known
  <2>3. all \in SUBSET Event /\ IsFiniteSet(all) /\ \A e \in all : e.amount >= 0
    <3>1. rows \in SUBSET Event /\ IsFiniteSet(rows)
      BY <2>1 DEF Ledger, Placed
    <3>2. \A e \in all : e.kind \in Reductions
      BY DEF On, Of, Reductions
    <3> QED BY <2>1, <2>2, <3>1, <3>2, SubsetFinite DEF Ledger, Placed
  <2>4. Total(all) <= a.amount
    BY <1>1 DEF CoverInv, Sound, Conserved
  <2>5. CASE a.recordedAt <= t
    <3>1. taken \in SUBSET Event /\ IsFiniteSet(taken)
      BY <2>2, <2>3, SubsetFinite
    <3> HIDE DEF all, taken
    <3>2. Total(taken) <= Total(all)
      BY <2>2, <2>3, TotalGrows
    <3>3. Total(taken) \in Int /\ Total(all) \in Int /\ a.amount \in Int
      <4>1. a \in Event
        BY <2>1 DEF Ledger, Placed
      <4> QED BY <2>3, <3>1, <4>1, TotalType, EventType
    <3>4. Total(taken) <= a.amount
      BY <2>4, <3>2, <3>3
    <3> QED BY <2>5, <3>4 DEF taken
  <2>6. CASE ~ (a.recordedAt <= t)
    <3>1. ASSUME NEW e \in taken PROVE FALSE
      <4>1. e \in rows /\ e.kind \notin Standalone /\ e.source = a.row /\ e.recordedAt <= t
        BY DEF On, Of, Known, Standalone
      <4>2. Row(rows, e.source) = a
        BY <2>1, <4>1, RowIs
      <4>3. a.recordedAt <= e.recordedAt
        BY <2>1, <4>1, <4>2, SourceIs
      <4>4. a.recordedAt \in Nat /\ e.recordedAt \in Nat
        BY <2>1, <4>1, EventType DEF Ledger, Placed
      <4> QED BY <2>1, <2>6, <4>1, <4>3, <4>4
    <3> QED BY <2>6, <3>1
  <2> QED BY <2>5, <2>6
<1> QED BY <1>1, Invariants, PTL

\* A charge that is not known at t has no correction that is.
LEMMA UnknownUncorrected ==
    ASSUME NEW E, Ledger(E), NEW t \in Nat, NEW charge \in Of(E, "charge_estimated"), charge \notin Known(E, t)
    PROVE  /\ Corrections(E, charge) \cap Known(E, t) = {}
           /\ effectiveChargesFor(E, charge, t) = charge.amount
<1> DEFINE K == Known(E, t)
           C == Of(K, "price_corrected")
<1>1. Ledger(K) /\ Part(K, E)
  BY KnownPart, PartLedger
<1>2. Corrections(E, charge) \cap K = {}
  <2> SUFFICES ASSUME NEW c \in Corrections(E, charge), c \in K PROVE FALSE
    OBVIOUS
  <2>1. translationRoot(K, c) = charge
    BY <1>1, RootInPart DEF Corrections
  <2> QED BY <1>1, <2>1, RootAt
<1>3. charge \in E /\ charge \in Event /\ charge.amount \in Int
  BY EventType DEF Of, Ledger, Placed
<1>4. ASSUME NEW c \in C, c.source = charge.row PROVE FALSE
  <2>1. c \in K /\ c \in E /\ c.kind \notin Standalone
    BY DEF Of, Known, Standalone
  <2>2. Row(K, c.source) \in K /\ Source(Row(K, c.source), c)
    BY <1>1, <2>1, SourceIs
  <2>3. Row(K, c.source) = charge
    BY <1>1, <1>3, <1>4, <2>2 DEF Source, Part, Ledger, Placed
  <2> QED BY <2>2, <2>3
<1>5. Followed(C, charge)[charge.row] = 0
  <2>1. Followed(C, charge) = Follow(C, charge, Followed(C, charge))
    BY <1>1, <1>3, FollowedDef
  <2>2. ~ \E c \in C : c.source = charge.row
    BY <1>4
  <2> HIDE DEF C
  <2> QED BY <2>1, <2>2 DEF Follow
<1> QED BY <1>2, <1>3, <1>5, EffectiveIs

(***************************************************************************)
(* A replay charges what the last correction recorded by then asserted:    *)
(* effectiveChargesFor adds up deltas from the charge on, and the          *)
(* corrections of a charge form one chain, known from its start on.        *)
(***************************************************************************)
THEOREM LastAssertionCharged == Spec => []EffectiveIsLastAsserted
<1>1. ASSUME TypeInv PROVE EffectiveIsLastAsserted
  <2> SUFFICES ASSUME NEW charge \in Of(rows, "charge_estimated"), NEW t \in Instants
               PROVE  LET C == Corrections(rows, charge) \cap Known(rows, t)
                      IN  effectiveChargesFor(rows, charge, t) =
                            IF C = {} THEN charge.amount ELSE Row(C, Max({c.row : c \in C})).next
    BY DEF EffectiveIsLastAsserted
  <2> DEFINE K == Known(rows, t)
             C == Corrections(rows, charge) \cap K
             last == Last(K, charge)
  <2>1. Ledger(rows) /\ t \in Nat
    BY <1>1, ChargesAssumption DEF TypeInv
  <2>2. Ledger(K) /\ Part(K, rows) /\ Corrections(K, charge) = C
    BY <2>1, KnownPart, PartLedger, PartCorrections
  <2>3. CASE charge \notin K
    BY <2>1, <2>3, UnknownUncorrected
  <2>4. CASE charge \in K
    <3>1. charge \in Of(K, "charge_estimated")
      BY <2>4 DEF Of
    <3>2. effectiveChargesFor(rows, charge, t) = Asserted(last)
      BY <2>1, <3>1, EffectiveIsLast
    <3>3. /\ last \in {charge} \cup C /\ \A x \in {charge} \cup C : x.row <= last.row /\ x.row \in Nat /\ x \in K
          /\ \A x \in C : charge.row < x.row /\ x.kind = "price_corrected"
      BY <2>2, <3>1, LastIs, LinkTypes DEF Links
    <3> HIDE DEF last, C
    <3>4. CASE C = {}
      <4>1. Asserted(last) = charge.amount
        BY <3>1, <3>3, <3>4 DEF Asserted, Of
      <4> QED BY <3>2, <3>4, <4>1 DEF C
    <3>5. CASE C # {}
      <4>1. last \in C
        BY <3>3, <3>5
      <4> DEFINE S == {c.row : c \in C}
      <4>2. S \subseteq Nat /\ S # {} /\ last.row \in S /\ \A k \in S : k <= last.row
        BY <3>3, <4>1
      <4> HIDE DEF S
      <4>3. Max(S) \in S /\ \A k \in S : k <= Max(S)
        BY <4>2, MaxIs
      <4>4. Max(S) = last.row
        <5>1. Max(S) \in Nat /\ last.row \in Nat /\ Max(S) <= last.row /\ last.row <= Max(S)
          BY <4>2, <4>3, Zenon
        <5>2. \A a, b \in Nat : a <= b /\ b <= a => a = b
          OBVIOUS
        <5> QED BY <5>1, <5>2, Zenon
      <4>5. \A x \in C : x.row = last.row => x = last
        BY <2>2, <3>3 DEF Ledger, Placed
      <4>6. Row(C, Max(S)) = last
        BY <4>1, <4>4, <4>5 DEF Row
      <4>7. Asserted(last) = Row(C, Max(S)).next
        BY <3>3, <4>1, <4>6 DEF Asserted
      <4> QED BY <3>2, <3>5, <4>7 DEF C, S
    <3> QED BY <3>4, <3>5
  <2> QED BY <2>3, <2>4
<1> QED BY <1>1, Invariants, PTL

\* Where rows are stored in the order of their instants, what is known at an
\* instant are the first rows.
LEMMA KnownFirst ==
    ASSUME TypeInv, InOrder, NEW t \in Nat
    PROVE  \E k \in 0 .. Cardinality(rows) : Known(rows, t) = First(rows, k)
<1> DEFINE n == Cardinality(rows)
           K == Known(rows, t)
           S == {e.row : e \in K}
<1>1. \A e \in rows : e \in Event /\ e.row \in 1 .. n /\ e.recordedAt \in Nat
  BY EventType DEF TypeInv, TypeOK
<1>2. n \in Nat
  BY RowsFinite
<1> HIDE DEF n
<1>3. CASE K = {}
  <2>1. First(rows, 0) = {}
    BY <1>1, <1>2 DEF First
  <2> QED BY <1>2, <1>3, <2>1 DEF n
<1>4. CASE K # {}
  <2>1. S \subseteq Nat /\ S # {} /\ \A k \in S : k <= n
    BY <1>1, <1>2, <1>4 DEF Known
  <2>2. Max(S) \in S /\ \A k \in S : k <= Max(S)
    <3> HIDE DEF S
    <3> QED BY <1>2, <2>1, MaxIs
  <2>3. PICK m \in K : m.row = Max(S)
    BY <2>2
  <2>4. m \in rows /\ m.recordedAt <= t /\ \A e \in K : e.row <= m.row
    BY <2>2, <2>3 DEF Known
  <2> HIDE DEF S
  <2>5. ASSUME NEW e \in rows, e.row <= m.row PROVE e.recordedAt <= t
    <3>1. CASE e.row = m.row
      <4>1. e = m
        BY <2>4, <3>1 DEF TypeInv, Ledger, Placed
      <4> QED BY <2>4, <4>1
    <3>2. CASE e.row < m.row
      <4>1. e.recordedAt <= m.recordedAt
        BY <2>4, <3>2 DEF InOrder
      <4> QED BY <1>1, <2>4, <4>1
    <3> QED BY <1>1, <2>4, <2>5, <3>1, <3>2
  <2>6. K = First(rows, m.row)
    BY <2>4, <2>5 DEF Known, First
  <2>7. m.row \in 0 .. n
    BY <1>1, <1>2, <2>4
  <2> QED BY <2>6, <2>7 DEF n
<1> QED BY <1>3, <1>4

(***************************************************************************)
(* A charge with its corrections and credits never nets below zero: in the *)
(* ledger as it stands, and in any replay of one whose rows were stored in *)
(* the order of their instants.                                            *)
(***************************************************************************)
THEOREM NeverNegative == Spec => []PositionNeverNegative
<1>1. ASSUME TypeInv, CoverInv PROVE PositionNeverNegative
  <2> SUFFICES ASSUME NEW charge \in Of(rows, "charge_estimated"), NEW t \in Instants,
                      InOrder \/ rows = Known(rows, t), charge.recordedAt <= t
               PROVE  Nets(charge, t) >= 0
    BY DEF PositionNeverNegative
  <2> DEFINE K == Known(rows, t)
  <2>1. Ledger(rows) /\ t \in Nat /\ charge \in Of(K, "charge_estimated")
    BY <1>1, ChargesAssumption DEF TypeInv, Of, Known
  <2>2. Ledger(K) /\ effectiveChargesFor(rows, charge, t) = Asserted(Last(K, charge))
    BY <2>1, EffectiveIsLast
  <2>3. correctedChargeAmount(K, charge) = Asserted(Last(K, charge))
    BY <2>1, <2>2, CorrectedIsLast
  <2>4. Covered(K)
    <3>1. CASE rows = K
      BY <1>1, <3>1 DEF CoverInv, Sound
    <3>2. CASE InOrder
      <4>1. PICK k \in 0 .. Cardinality(rows) : K = First(rows, k)
        BY <1>1, <2>1, <3>2, KnownFirst
      <4> QED BY <1>1, <4>1 DEF CoverInv
    <3> QED BY <3>1, <3>2
  <2>5. Asserted(Last(K, charge)) \in Nat
    BY <2>1, <2>2, LastIs, LinkTypes
  <2> DEFINE credits == On(K, "credit_applied", charge.row)
  <2>6. Total(credits) \in Int
    <3>1. credits \subseteq K
      BY DEF On, Of
    <3>2. credits \in SUBSET Event /\ IsFiniteSet(credits)
      BY <2>2, <3>1, SubsetFinite DEF Ledger, Placed
    <3> QED BY <3>2, TotalType
  <2>7. Total(credits) <= Asserted(Last(K, charge))
    BY <2>1, <2>3, <2>4 DEF Covered, recordedNegativeAdjustments
  <2>8. Nets(charge, t) = Asserted(Last(K, charge)) - Total(credits)
    BY <2>2, Zenon DEF Nets
  <2> HIDE DEF K, credits
  <2> QED BY <2>5, <2>6, <2>7, <2>8
<1> QED BY <1>1, Invariants, PTL
=============================================================================
