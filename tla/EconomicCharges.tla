--------------------------- MODULE EconomicCharges ---------------------------
(***************************************************************************)
(* What the economic ledger asks of dependent events before it stores one, *)
(* and again of every stored one on every read: validateReferenceClosure   *)
(* of src/economics/ledger.ts.  One append is one transaction.  Left       *)
(* out: close controls (EconomicLedger has them), bases, the rates of a    *)
(* translation, adjustments that raise a charge, and fields that have to   *)
(* agree with the source's.  An adjustment names the one charge it lowers. *)
(***************************************************************************)
EXTENDS Integers, FiniteSets, FiniteSetsExt

CONSTANTS Amounts,     \* bound: amounts callers give, none negative
          Currencies,  \* bound: currencies a translation may choose
          Home,        \* the currency charges are in
          Instants,    \* bound: instants callers give as recordedAt
          MaxRows,     \* bound on the rows of the ledger
          MaxOfKind    \* bound: how many rows of each kind

VARIABLE rows   \* the table economic_events

Kinds == {"charge_estimated", "price_corrected", "credit_applied", "fx_translated",
          "cost_allocated", "allocation_reversed"}
Standalone == {"charge_estimated", "cost_allocated"}

ASSUME ChargesAssumption ==
    /\ Amounts \subseteq Nat /\ Instants \subseteq Nat /\ Home \in Currencies
    /\ MaxRows \in Nat /\ MaxOfKind \in [Kinds -> Nat]

\* `amount` is what the row asserts, what a credit or a reversal takes back, or
\* the delta of a correction.  `next` is for corrections, `source` 0 is none.
Event == [row : Nat, kind : Kinds, recordedAt : Instants, source : Nat,
          amount : Int, next : Nat, currency : Currencies]

Of(E, kind) == {e \in E : e.kind = kind}
On(E, kind, row) == {e \in Of(E, kind) : e.source = row}
Row(E, row) == CHOOSE e \in E : e.row = row
Total(E) == MapThenSumSet(LAMBDA e : e.amount, E)

\* The charge a correction or a translation goes back to, along its sources.
translationRoot(E, e) ==
    LET up[d \in E] == IF d.kind \in {"price_corrected", "fx_translated"}
                       THEN up[Row(E, d.source)] ELSE d
    IN  up[e]

Corrections(E, charge) == {c \in Of(E, "price_corrected") : translationRoot(E, c) = charge}
correctedChargeAmount(E, charge) == charge.amount + Total(Corrections(E, charge))
recordedNegativeAdjustments(E, charge) == Total(On(E, "credit_applied", charge.row))
-----------------------------------------------------------------------------
(* The conditions on one event of a ledger E that holds it. *)

AfterSource(E, e) == \E s \in E : s.row = e.source /\ s.recordedAt <= e.recordedAt

\* Against the amount first asserted, as before the rule on corrected charges.
ValidCredit_Asserted(E, e) ==
    LET charge == Row(E, e.source) IN
    /\ charge.kind = "charge_estimated"
    /\ e.amount > 0 => recordedNegativeAdjustments(E, charge) <= charge.amount

ValidCredit(E, e) ==
    LET charge == Row(E, e.source) IN
    /\ charge.kind = "charge_estimated"
    /\ e.amount > 0 => recordedNegativeAdjustments(E, charge) <= correctedChargeAmount(E, charge)

\* Its own next amount in place of the end of the chain.
ValidCorrection_OwnNext(E, e) ==
    LET source == Row(E, e.source) IN
    /\ source.kind \in {"charge_estimated", "price_corrected"}
    /\ LET previous == IF source.kind = "price_corrected" THEN source.next ELSE source.amount
       IN  previous >= 0 /\ e.next >= 0 /\ e.amount = e.next - previous
    /\ On(E, "price_corrected", e.source) = {e}
    /\ LET charge == translationRoot(E, e)
       IN  recordedNegativeAdjustments(E, charge) <= e.next

ValidCorrection(E, e) ==
    LET source == Row(E, e.source) IN
    /\ source.kind \in {"charge_estimated", "price_corrected"}
    /\ LET previous == IF source.kind = "price_corrected" THEN source.next ELSE source.amount
       IN  previous >= 0 /\ e.next >= 0 /\ e.amount = e.next - previous
    /\ On(E, "price_corrected", e.source) = {e}
    /\ LET charge == translationRoot(E, e)
       IN  recordedNegativeAdjustments(E, charge) <= correctedChargeAmount(E, charge)

ValidTranslation(E, e) ==
    /\ Row(E, e.source).kind \in {"charge_estimated", "fx_translated"}
    /\ e.currency # Row(E, e.source).currency
    /\ \A t \in Of(E, "fx_translated") \ {e} :
          t.currency = e.currency => translationRoot(E, t) # translationRoot(E, e)

\* Each reversal on its own, as before conservation became a rule on the set.
ValidReversal_PerEvent(E, e) ==
    LET target == Row(E, e.source) IN
    /\ target.kind = "cost_allocated" /\ target.amount >= 0
    /\ e.amount >= 0 /\ e.amount <= target.amount

ValidReversal(E, e) ==
    LET target == Row(E, e.source) IN
    /\ target.kind = "cost_allocated" /\ target.amount >= 0
    /\ e.amount >= 0 /\ e.amount <= target.amount
    /\ Total(On(E, "allocation_reversed", e.source)) <= target.amount

\* The order of recording is the caller's business.
validateReferenceClosure_AnyTime(E, e) ==
    e.kind \notin Standalone =>
        CASE e.kind = "credit_applied" -> ValidCredit(E, e)
          [] e.kind = "price_corrected" -> ValidCorrection(E, e)
          [] e.kind = "fx_translated" -> ValidTranslation(E, e)
          [] e.kind = "allocation_reversed" -> ValidReversal(E, e)

validateReferenceClosure(E, e) ==
    e.kind \notin Standalone =>
        /\ AfterSource(E, e)
        /\ CASE e.kind = "credit_applied" -> ValidCredit(E, e)
             [] e.kind = "price_corrected" -> ValidCorrection(E, e)
             [] e.kind = "fx_translated" -> ValidTranslation(E, e)
             [] e.kind = "allocation_reversed" -> ValidReversal(E, e)
-----------------------------------------------------------------------------
(* effectiveChargesFor: the chain of the corrections recorded by `time`. *)

Known(E, time) == {e \in E : e.recordedAt <= time}

effectiveChargesFor(E, charge, time) ==
    LET C == Of(Known(E, time), "price_corrected")
        after[r \in {charge.row} \cup {c.row : c \in C}] ==
            IF \E c \in C : c.source = r
            THEN LET c == CHOOSE d \in C : d.source = r IN c.amount + after[c.row]
            ELSE 0
    IN  charge.amount + after[charge.row]
-----------------------------------------------------------------------------
Init == rows = {}

\* append: valid in the ledger that would hold it.
append(e) ==
    /\ e \notin rows
    /\ validateReferenceClosure(rows \cup {e}, e)
    /\ rows' = rows \cup {e}

NewEvent(kind, time, source, amount, next, currency) ==
    [row |-> Cardinality(rows) + 1, kind |-> kind, recordedAt |-> time, source |-> source,
     amount |-> amount, next |-> next, currency |-> currency]

Charge(time) ==
    \E a \in Amounts : append(NewEvent("charge_estimated", time, 0, a, 0, Home))
Allocate(time) ==
    \E a \in Amounts : append(NewEvent("cost_allocated", time, 0, a, 0, Home))
Credit(time, s) ==
    \E a \in Amounts : append(NewEvent("credit_applied", time, s.row, a, 0, Home))
Reverse(time, s) ==
    \E a \in Amounts : append(NewEvent("allocation_reversed", time, s.row, a, 0, Home))
Translate(time, s) ==
    \E c \in Currencies : append(NewEvent("fx_translated", time, s.row, s.amount, 0, c))

\* What callers offer as a replacement: -1 is there to be refused.
Replacements == Amounts \cup {-1}

\* priceCorrectionEvent: the delta from what the predecessor last asserted.
Correct(time, s) ==
    \E a \in Replacements :
        LET previous == IF s.kind = "price_corrected" THEN s.next ELSE s.amount
        IN  append(NewEvent("price_corrected", time, s.row, a - previous, a, Home))

Room(kind) == Cardinality(rows) < MaxRows /\ Cardinality(Of(rows, kind)) < MaxOfKind[kind]

Next ==
    \E time \in Instants :
        \/ Room("charge_estimated") /\ Charge(time)
        \/ Room("cost_allocated") /\ Allocate(time)
        \/ \E s \in rows :
             \/ Room("credit_applied") /\ Credit(time, s)
             \/ Room("price_corrected") /\ Correct(time, s)
             \/ Room("fx_translated") /\ Translate(time, s)
             \/ Room("allocation_reversed") /\ Reverse(time, s)

Spec == Init /\ [][Next]_rows
-----------------------------------------------------------------------------
TypeOK ==
    /\ rows \subseteq Event
    /\ {e.row : e \in rows} = 1 .. Cardinality(rows)
    /\ \A e \in rows : IF e.kind \in Standalone THEN e.source = 0 ELSE e.source \in 1 .. e.row - 1

\* No accepted append makes an earlier row invalid: every stored event still passes
\* the closure check that every read repeats, so the ledger never closes itself
\* (ledger.ts, comment on the correction bound "from the other side").
EveryRowRevalidates == \A e \in rows : validateReferenceClosure(rows, e)

\* Rows stored in the order of their recordedAt, as a live recorder stores them.
InOrder == \A d, e \in rows : d.row < e.row => d.recordedAt <= e.recordedAt

Nets(charge, time) ==
    effectiveChargesFor(rows, charge, time)
        - Total(On(Known(rows, time), "credit_applied", charge.row))

\* A charge with its corrections and credits never nets below zero, now or in a
\* replay of any earlier instant, in whatever order they arrive: the "negative
\* position that no set of true facts can produce" of events.ts.
PositionNeverNegative ==
    \A charge \in Of(rows, "charge_estimated"), time \in Instants :
        (InOrder \/ rows = Known(rows, time)) /\ charge.recordedAt <= time => Nets(charge, time) >= 0

\* The same of every replay, also where a credit was given an earlier instant than
\* the correction that made room for it.
ReplayNeverNegative ==
    \A charge \in Of(rows, "charge_estimated"), time \in Instants :
        charge.recordedAt <= time => Nets(charge, time) >= 0

\* No more is ever taken back from an allocation than was allocated, in any replay
\* and whatever instants the callers gave; the set counts, not the single reversal.
AllocationConserved ==
    \A allocation \in Of(rows, "cost_allocated"), time \in Instants :
        LET taken == On(Known(rows, time), "allocation_reversed", allocation.row)
        IN  IF allocation.recordedAt <= time
            THEN Total(taken) <= allocation.amount
            ELSE taken = {}

\* A replay charges what the last correction recorded by then asserted: corrections
\* of one charge form one chain, whose links become known in the chain's order.
EffectiveIsLastAsserted ==
    \A charge \in Of(rows, "charge_estimated"), time \in Instants :
        LET C == Corrections(rows, charge) \cap Known(rows, time)
        IN  effectiveChargesFor(rows, charge, time) =
              IF C = {} THEN charge.amount ELSE Row(C, Max({c.row : c \in C})).next
=============================================================================
