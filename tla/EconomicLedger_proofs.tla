------------------------ MODULE EconomicLedger_proofs ------------------------
(***************************************************************************)
(* Theorems about the economic ledger, for any periods, any instants the   *)
(* callers pass, and any number of rows.  The first invariant is about     *)
(* rows and their numbers; the second, resting on it, that every recorded  *)
(* close stays verifiable.  The others are about the controls of a period: *)
(* the replayed status is a fold over them in recorded order, and in order *)
(* one more control is one more step of the fold.                          *)
(***************************************************************************)
EXTENDS EconomicLedger, FiniteInduction

-----------------------------------------------------------------------------
(***************************************************************************)
(* Rows.                                                                   *)
(***************************************************************************)

\* Rows are numbered from 1 without reuse, so the next number is fresh.
Numbered == IsFiniteSet(rows) /\ \A e \in rows : e.row \in 1 .. Cardinality(rows)

TypeInv == TypeOK /\ Numbered

\* What every operation appends: a row of its own number whose sources are there.
IsNewRow(e) ==
    /\ e \in Entry \cup Control
    /\ e.row = NextRow
    /\ \A s \in e.sources : \E d \in rows : d.row = s

LEMMA NextRowFresh ==
    ASSUME TypeInv
    PROVE  /\ Cardinality(rows) \in Nat /\ NextRow \in Nat
           /\ \A e \in rows : e.row \in Nat /\ e.row < NextRow
  <1>1. Cardinality(rows) \in Nat
    BY FS_CardinalityType DEF TypeInv, Numbered
  <1> QED BY <1>1 DEF TypeInv, Numbered, NextRow

LEMMA AddRow ==
    ASSUME TypeInv, NEW e, IsNewRow(e), rows' = rows \cup {e},
           authored' = authored \/ (e.kind # "entry" /\ authored' = authored \cup {NextRow}),
           raw' = raw \/ raw' = raw \cup {NextRow}
    PROVE  TypeInv'
  <1>1. /\ Cardinality(rows) \in Nat /\ NextRow = Cardinality(rows) + 1
        /\ \A d \in rows : d.row \in Nat /\ d.row < NextRow
    BY NextRowFresh DEF NextRow
  <1>2. e \notin rows
    BY <1>1 DEF IsNewRow
  <1>3. IsFiniteSet(rows') /\ Cardinality(rows') = Cardinality(rows) + 1
    BY <1>2, FS_AddElement DEF TypeInv, Numbered
  <1>4. Numbered'
    <2>1. \A d \in rows : d.row \in 1 .. Cardinality(rows)
      BY DEF TypeInv, Numbered
    <2>2. \A d \in rows' : d.row \in 1 .. Cardinality(rows')
      BY <1>1, <1>3, <2>1 DEF IsNewRow
    <2> QED BY <1>3, <2>2 DEF Numbered
  <1>5. rows' \subseteq Entry \cup Control
    BY DEF TypeInv, TypeOK, IsNewRow
  <1>6. \A c, d \in rows' : c.row = d.row => c = d
    <2>1. \A c, d \in rows : c.row = d.row => c = d
      BY DEF TypeInv, TypeOK
    <2> QED BY <1>1, <2>1 DEF IsNewRow
  <1>7. \A d \in rows' : \A s \in d.sources : \E f \in rows' : f.row = s /\ f.row < d.row
    <2>1. \A d \in rows : \A s \in d.sources : \E f \in rows : f.row = s /\ f.row < d.row
      BY DEF TypeInv, TypeOK
    <2>2. \A s \in e.sources : \E f \in rows : f.row = s /\ f.row < e.row
      BY <1>1 DEF IsNewRow
    <2> QED BY <2>1, <2>2
  <1>8. authored' \subseteq {c.row : c \in Controls(rows')}
    <2>1. authored \subseteq {c.row : c \in Controls(rows)}
      BY DEF TypeInv, TypeOK
    <2>2. Controls(rows) \subseteq Controls(rows')
      BY DEF Controls
    <2>3. e.kind # "entry" => e \in Controls(rows')
      BY DEF Controls
    <2>4. authored \subseteq {c.row : c \in Controls(rows')}
      BY <2>1, <2>2
    <2>5. e.kind # "entry" => NextRow \in {c.row : c \in Controls(rows')}
      BY <2>3 DEF IsNewRow
    <2> QED BY <2>4, <2>5
  <1>9. raw' \subseteq {d.row : d \in rows'}
    <2>1. raw \subseteq {d.row : d \in rows}
      BY DEF TypeInv, TypeOK
    <2> QED BY <2>1 DEF IsNewRow
  <1> QED BY <1>4, <1>5, <1>6, <1>7, <1>8, <1>9 DEF TypeInv, TypeOK

\* Members of the ledger by kind.
LEMMA Kinds ==
    ASSUME TypeInv
    PROVE  /\ \A e \in rows : e.occurredAt \in Nat /\ e.recordedAt \in Nat /\ e.row \in Nat
           /\ \A c \in Of(rows, "close_finalized") : c \in Control /\ c.period \in Periods
           /\ \A c \in Of(rows, "close_finalized") : c \in Controls(rows)
  <1>1. rows \subseteq Entry \cup Control
    BY DEF TypeInv, TypeOK
  <1>2. \A c \in Of(rows, "close_finalized") : c \in Control /\ c \in Controls(rows)
    BY <1>1 DEF Of, Entry, Controls
  <1> QED BY <1>1, <1>2 DEF Entry, Control

LEMMA EntryIsNew ==
    ASSUME TypeInv, NEW t \in Occurred, NEW time \in Recorded,
           NEW S \in SUBSET rows
    PROVE  IsNewRow([row |-> NextRow, kind |-> "entry", occurredAt |-> t,
                     recordedAt |-> time, sources |-> {s.row : s \in S}])
  <1>1. NextRow \in Nat /\ t \in Nat /\ time \in Nat
    BY NextRowFresh, PeriodsAssumption
  <1>2. {s.row : s \in S} \in SUBSET Nat
    BY NextRowFresh
  <1> QED BY <1>1, <1>2 DEF IsNewRow, Entry

LEMMA ControlIsNew ==
    ASSUME TypeInv, NEW kind \in ControlKinds, NEW p \in Periods, NEW time \in Recorded,
           NEW S \in SUBSET {e.row : e \in rows}
    PROVE  /\ IsNewRow(NewControl(kind, p, time, S))
           /\ NewControl(kind, p, time, S).kind = kind
           /\ NewControl(kind, p, time, S).kind # "entry"
  <1>1. NextRow \in Nat /\ p.end \in Nat /\ time \in Nat
    BY NextRowFresh, PeriodsAssumption
  <1>2. S \in SUBSET Nat
    BY NextRowFresh
  <1>3. NewControl(kind, p, time, S) \in Control
    BY <1>1, <1>2 DEF NewControl, Control
  <1>4. \A s \in S : \E d \in rows : d.row = s
    OBVIOUS
  <1> QED BY <1>3, <1>4 DEF IsNewRow, NewControl, ControlKinds

LEMMA VisibleIsRows ==
    ASSUME NEW E, NEW p, NEW time
    PROVE  Visible(E, p, time) \in SUBSET {e.row : e \in E}
  BY DEF Visible

LEMMA TypeInit == Init => TypeInv
  <1> SUFFICES ASSUME Init PROVE TypeInv OBVIOUS
  <1>1. IsFiniteSet({})
    BY FS_EmptySet
  <1> QED BY <1>1 DEF Init, TypeInv, TypeOK, Numbered, Controls

LEMMA TypeNext == TypeInv /\ [Next]_vars => TypeInv'
  <1> SUFFICES ASSUME TypeInv, [Next]_vars PROVE TypeInv'
    OBVIOUS
  <1>1. ASSUME NEW time \in Recorded, NEW t \in Occurred,
               NEW S \in {{}} \cup {{s} : s \in Of(rows, "entry")}, AppendEntry(t, time, S)
        PROVE  TypeInv'
    <2>1. S \in SUBSET rows
      BY DEF Of
    <2> QED BY <1>1, <2>1, EntryIsNew, AddRow DEF AppendEntry, Add
  <1>2. ASSUME NEW time \in Recorded, NEW t \in Occurred, RawInsert(t, time)
        PROVE  TypeInv'
    <2>1. {s.row : s \in {}} = {}
      OBVIOUS
    <2> QED BY <1>2, <2>1, EntryIsNew, AddRow DEF RawInsert, Add
  <1>3. ASSUME NEW time \in Recorded, NEW p \in Periods, finalizePeriod(p, time)
        PROVE  TypeInv'
    BY <1>3, VisibleIsRows, ControlIsNew, AddRow DEF finalizePeriod, Add, ControlKinds
  <1>4. ASSUME NEW time \in Recorded, NEW p \in Periods, reopenPeriod(p, time)
        PROVE  TypeInv'
    <2>1. PICK c \in Closes(rows, p) : c.row = periodCloseStatus(rows, p).active
      BY <1>4 DEF reopenPeriod
    <2>2. {periodCloseStatus(rows, p).active} \in SUBSET {e.row : e \in rows}
      BY <2>1 DEF Closes, Of
    <2> QED BY <1>4, <2>2, ControlIsNew, AddRow DEF reopenPeriod, Add, ControlKinds
  <1>5. ASSUME NEW time \in Recorded, NEW c \in Of(rows, "close_finalized"),
               recoverBrickedPeriod(c, time)
        PROVE  TypeInv'
    <2>1. c.period \in Periods /\ {c.row} \in SUBSET {e.row : e \in rows}
      BY Kinds DEF Of
    <2> QED BY <1>5, <2>1, ControlIsNew, AddRow DEF recoverBrickedPeriod, Recovered, ControlKinds
  <1>6. ASSUME NEW time \in Recorded, NEW p \in Periods, AppendClose(p, time)
        PROVE  TypeInv'
    BY <1>6, VisibleIsRows, ControlIsNew, AddRow DEF AppendClose, Add, ControlKinds
  <1>7. ASSUME NEW time \in Recorded, NEW c \in Of(rows, "close_finalized"), AppendReopen(c, time)
        PROVE  TypeInv'
    <2>1. c.period \in Periods /\ {c.row} \in SUBSET {e.row : e \in rows}
      BY Kinds DEF Of
    <2> QED BY <1>7, <2>1, ControlIsNew, AddRow DEF AppendReopen, Add, ControlKinds
  <1>8. CASE UNCHANGED vars
    BY <1>8 DEF vars, TypeInv, TypeOK, Numbered, Controls
  <1> QED BY <1>1, <1>2, <1>3, <1>4, <1>5, <1>6, <1>7, <1>8 DEF Next

\* The ledger holds well-formed rows of distinct numbers whose sources came before them.
THEOREM RowsCorrect == Spec => []TypeOK
  <1>1. Init => TypeInv
    BY TypeInit
  <1>2. TypeInv /\ [Next]_vars => TypeInv'
    BY TypeNext
  <1>3. TypeInv => TypeOK
    BY DEF TypeInv
  <1> QED BY <1>1, <1>2, <1>3, PTL DEF Spec

-----------------------------------------------------------------------------
(***************************************************************************)
(* Closes.                                                                 *)
(***************************************************************************)

\* What a row of this time recorded at this instant would falsify.
Seen(c, t, time) == Within(t, c.period) /\ time <= c.recordedAt

\* A row that happened outside the period or was recorded after the instant is not seen.
LEMMA NotVisible ==
    ASSUME NEW E, NEW e, NEW p, NEW time, ~ (Within(e.occurredAt, p) /\ e.recordedAt <= time)
    PROVE  Visible(E \cup {e}, p, time) = Visible(E, p, time)
  BY DEF Visible

\* Such a row leaves every close before it standing, unless it invalidates one.
LEMMA CloseStands ==
    ASSUME NEW E, NEW e, NEW c, validateCloseEvent(E, c),
           ~ (Within(e.occurredAt, c.period) /\ e.recordedAt <= c.recordedAt),
           e.kind # "close_invalidated",
           e.kind = "entry" \/ e.row \notin c.sources
    PROVE  validateCloseEvent(E \cup {e}, c)
  <1>1. closeBindingMatches(E \cup {e}, c) <=> closeBindingMatches(E, c)
    BY NotVisible DEF closeBindingMatches
  <1>2. hasCloseInvalidation(E \cup {e}, c) <=> hasCloseInvalidation(E, c)
    BY DEF hasCloseInvalidation, Of
  <1>3. BindsControl(E \cup {e}, c) <=> BindsControl(E, c)
    BY DEF BindsControl, Controls
  <1> QED BY <1>1, <1>2, <1>3 DEF validateCloseEvent

\* An entry that the guard lets through leaves a readable ledger readable.
LEMMA EntryKeeps ==
    ASSUME TypeInv, Readable(rows), NEW t \in Nat, NEW time \in Nat, NEW S, NEW times,
           t \in times, assertPeriodOpenForEvent(times, time),
           NEW e, e = [row |-> NextRow, kind |-> "entry", occurredAt |-> t,
                       recordedAt |-> time, sources |-> S]
    PROVE  Readable(rows \cup {e})
  <1>1. e.kind = "entry" /\ e.occurredAt = t /\ e.recordedAt = time
    OBVIOUS
  <1>2. Of(rows \cup {e}, "close_finalized") = Of(rows, "close_finalized")
    BY <1>1 DEF Of
  <1>3. ASSUME NEW c \in Of(rows, "close_finalized")
        PROVE  validateCloseEvent(rows \cup {e}, c)
    <2>1. c \in Controls(rows) /\ c.recordedAt \in Nat /\ c \in Closes(rows, c.period)
      BY Kinds DEF Of, Closes
    <2>2. Within(t, c.period) => time > c.recordedAt
      BY <2>1 DEF assertPeriodOpenForEvent
    <2>3. ~ (Within(e.occurredAt, c.period) /\ e.recordedAt <= c.recordedAt)
      BY <1>1, <2>1, <2>2
    <2>4. validateCloseEvent(rows, c)
      BY DEF Readable
    <2>5. e.kind # "close_invalidated"
      BY <1>1
    <2> QED BY <1>1, <2>3, <2>4, <2>5, CloseStands
  <1> QED BY <1>2, <1>3 DEF Readable

\* A close's sources are rows that were there before it.
LEMMA FreshUnbound ==
    ASSUME TypeInv, NEW c \in Of(rows, "close_finalized")
    PROVE  NextRow \notin c.sources
  <1>1. c \in rows
    BY DEF Of
  <1>2. \A s \in c.sources : \E d \in rows : d.row = s
    BY <1>1 DEF TypeInv, TypeOK
  <1> QED BY <1>2, NextRowFresh

\* A period does not end inside itself.
LEMMA EndsOutside == \A p \in Periods : p.end \in Nat /\ ~ Within(p.end, p)
  BY PeriodsAssumption DEF Within

\* So does a control that no close sees, if it is a reopening or a close that binds
\* exactly what is visible and no control.
LEMMA ControlKeeps ==
    ASSUME TypeInv, Readable(rows), NEW p \in Periods, NEW time \in Recorded,
           \A c \in Of(rows, "close_finalized") : ~ Seen(c, p.end, time),
           NEW kind \in {"close_finalized", "close_reopened"}, NEW S,
           kind = "close_finalized" => S = Visible(rows, p, time) /\ MayBind(rows, p, time),
           NEW n, n = NewControl(kind, p, time, S)
    PROVE  Readable(rows \cup {n})
  <1>1. /\ n.kind = kind /\ n.occurredAt = p.end /\ n.recordedAt = time
        /\ n.sources = S /\ n.period = p /\ n.row = NextRow
    BY DEF NewControl
  <1>2. ASSUME NEW c \in Of(rows, "close_finalized")
        PROVE  validateCloseEvent(rows \cup {n}, c)
    <2>1. ~ (Within(n.occurredAt, c.period) /\ n.recordedAt <= c.recordedAt)
      BY <1>1 DEF Seen
    <2>2. n.row \notin c.sources
      BY <1>1, FreshUnbound
    <2>3. validateCloseEvent(rows, c)
      BY DEF Readable
    <2>4. n.kind # "close_invalidated"
      BY <1>1
    <2> QED BY <2>1, <2>2, <2>3, <2>4, CloseStands
  <1>3. ASSUME kind = "close_finalized"
        PROVE  validateCloseEvent(rows \cup {n}, n)
    <2>1. Visible(rows \cup {n}, p, time) = Visible(rows, p, time)
      BY <1>1, NotVisible, EndsOutside
    <2>2. closeBindingMatches(rows \cup {n}, n)
      BY <1>1, <1>3, <2>1 DEF closeBindingMatches
    <2>3. ~ hasCloseInvalidation(rows \cup {n}, n)
      <3>1. ASSUME NEW v \in Of(rows \cup {n}, "close_invalidated")
            PROVE  v.sources # {n.row}
        <4>1. v \in rows
          BY <1>1 DEF Of
        <4>2. \A s \in v.sources : \E d \in rows : d.row = s
          BY <4>1 DEF TypeInv, TypeOK
        <4> QED BY <1>1, <4>2, NextRowFresh
      <3> QED BY <3>1 DEF hasCloseInvalidation
    <2>4. ~ BindsControl(rows \cup {n}, n)
      <3>1. \A e \in Controls(rows) : e.row \notin n.sources
        BY <1>1, <1>3 DEF MayBind
      <3>2. n.row \notin n.sources
        <4>1. \A s \in Visible(rows, p, time) : \E d \in rows : d.row = s
          BY DEF Visible
        <4> QED BY <1>1, <1>3, <4>1, NextRowFresh
      <3>3. Controls(rows \cup {n}) \subseteq Controls(rows) \cup {n}
        BY DEF Controls
      <3> QED BY <3>1, <3>2, <3>3 DEF BindsControl
    <2> QED BY <2>2, <2>3, <2>4 DEF validateCloseEvent
  <1>4. \A c \in Of(rows \cup {n}, "close_finalized") :
            c \in Of(rows, "close_finalized") \/ (c = n /\ kind = "close_finalized")
    BY <1>1 DEF Of
  <1> QED BY <1>2, <1>3, <1>4 DEF Readable

\* Recoveries, and rows that the ledger did not refuse although a close sees them.
Settled == Cardinality(Of(rows, "close_invalidated"))
Written == Cardinality(Intruders)

LEMMA IntrudersAreRows == ASSUME TypeInv PROVE Intruders \subseteq {e.row : e \in rows}
  <1>1. raw \subseteq {e.row : e \in rows}
    BY DEF TypeInv, TypeOK
  <1>2. Backdated \subseteq {e.row : e \in rows}
    BY DEF Backdated, Controls
  <1> QED BY <1>1, <1>2 DEF Intruders

\* The controls backdated so far, and the new one if a close sees it.
LEMMA BackdatedStep ==
    ASSUME TypeInv, NEW n, n.row = NextRow, rows' = rows \cup {n}
    PROVE  Backdated' = Backdated \cup
               {r \in {NextRow} : n.kind # "entry" /\
                    \E c \in Of(rows, "close_finalized") : Seen(c, n.occurredAt, n.recordedAt)}
  <1>1. \A e \in rows : e.row \in Nat /\ e.row < NextRow
    BY NextRowFresh
  <1>2. NextRow \in Nat
    BY NextRowFresh
  <1> DEFINE F == Of(rows, "close_finalized")
             G == Of(rows', "close_finalized")
  <1>3. F \subseteq rows /\ F \subseteq G /\ G \subseteq F \cup {n}
    BY DEF Of
  <1>4. \A d \in rows' : ~ Falsifies(d, n)
    BY <1>1, <1>2 DEF Falsifies
  <1>5. \A c \in F : Falsifies(n, c) <=> Seen(c, n.occurredAt, n.recordedAt)
    BY <1>1, <1>3 DEF Falsifies, Seen
  <1>6. \A d \in rows' : (\E c \in G : Falsifies(d, c)) <=> (\E c \in F : Falsifies(d, c))
    BY <1>3, <1>4
  <1>7. Backdated' = {d.row : d \in {e \in Controls(rows') : \E c \in F : Falsifies(e, c)}}
    <2>1. {e \in Controls(rows') : \E c \in G : Falsifies(e, c)} = {e \in Controls(rows') : \E c \in F : Falsifies(e, c)}
      BY <1>6 DEF Controls
    <2> QED BY <2>1 DEF Backdated
  <1>8. Controls(rows') = Controls(rows) \cup {e \in {n} : e.kind # "entry"}
    BY DEF Controls
  <1> HIDE DEF F, G
  <1>9. Backdated = {d.row : d \in {e \in Controls(rows) : \E c \in F : Falsifies(e, c)}}
    BY DEF Backdated, F
  <1>10. {r \in {NextRow} : n.kind # "entry" /\ \E c \in F : Seen(c, n.occurredAt, n.recordedAt)}
            = {d.row : d \in {e \in {n} : e.kind # "entry" /\ \E c \in F : Falsifies(e, c)}}
    BY <1>5
  <1>11. Backdated' = Backdated \cup {r \in {NextRow} : n.kind # "entry" /\ \E c \in F : Seen(c, n.occurredAt, n.recordedAt)}
    BY <1>7, <1>8, <1>9, <1>10
  <1> QED BY <1>11 DEF F

\* So nothing stops being an intruder.
LEMMA IntrudersGrow ==
    ASSUME TypeInv, NEW n, n.row = NextRow, rows' = rows \cup {n}, raw \subseteq raw'
    PROVE  Intruders \subseteq Intruders'
  BY BackdatedStep DEF Intruders

LEMMA CountsAreNumbers ==
    ASSUME TypeInv
    PROVE  /\ IsFiniteSet(Intruders) /\ Written \in Nat
           /\ IsFiniteSet(Of(rows, "close_invalidated")) /\ Settled \in Nat
           /\ NextRow \notin Intruders
  <1>1. Intruders \subseteq {e.row : e \in rows}
    BY IntrudersAreRows
  <1>2. \A e \in rows : e.row \in 1 .. Cardinality(rows)
    BY DEF TypeInv, Numbered
  <1>3. Intruders \subseteq 1 .. Cardinality(rows)
    BY <1>1, <1>2
  <1>4. IsFiniteSet(1 .. Cardinality(rows))
    BY NextRowFresh, FS_Interval
  <1>5. IsFiniteSet(Intruders)
    BY <1>3, <1>4, FS_Subset
  <1>6. Of(rows, "close_invalidated") \in SUBSET rows
    BY DEF Of
  <1>7. IsFiniteSet(Of(rows, "close_invalidated"))
    BY <1>6, FS_Subset DEF TypeInv, Numbered
  <1>8. NextRow \notin Intruders
    BY <1>1, NextRowFresh
  <1> QED BY <1>5, <1>7, <1>8, FS_CardinalityType DEF Written, Settled

\* What is written around the ledger, or backdated, is one intruder more.
LEMMA OneMore ==
    ASSUME TypeInv, Intruders' = Intruders \cup {NextRow}
    PROVE  Written' = Written + 1
  BY CountsAreNumbers, FS_AddElement DEF Written

\* A new control is an intruder, or every close still sees what it saw.
LEMMA ControlCounts ==
    ASSUME TypeInv, NEW n, n.row = NextRow, n.kind # "entry", rows' = rows \cup {n}, raw' = raw
    PROVE  \/ /\ Intruders' = Intruders \cup {NextRow} /\ Written' = Written + 1
              /\ \E c \in Of(rows, "close_finalized") : Seen(c, n.occurredAt, n.recordedAt)
           \/ /\ Intruders' = Intruders /\ Written' = Written
              /\ \A c \in Of(rows, "close_finalized") : ~ Seen(c, n.occurredAt, n.recordedAt)
  <1>1. CASE \E c \in Of(rows, "close_finalized") : Seen(c, n.occurredAt, n.recordedAt)
    <2>1. Intruders' = Intruders \cup {NextRow}
      BY <1>1, BackdatedStep DEF Intruders
    <2> QED BY <1>1, <2>1, OneMore
  <1>2. CASE \A c \in Of(rows, "close_finalized") : ~ Seen(c, n.occurredAt, n.recordedAt)
    <2>1. Intruders' = Intruders
      BY <1>2, BackdatedStep DEF Intruders
    <2> QED BY <1>2, <2>1 DEF Written
  <1> QED BY <1>1, <1>2

\* An entry is an intruder if it is written around the ledger.
LEMMA EntryCounts ==
    ASSUME TypeInv, NEW n, n.row = NextRow, n.kind = "entry", rows' = rows \cup {n}
    PROVE  /\ raw' = raw => Intruders' = Intruders /\ Written' = Written
           /\ raw' = raw \cup {NextRow} => Intruders' = Intruders \cup {NextRow} /\ Written' = Written + 1
  <1>1. Backdated' = Backdated
    BY BackdatedStep
  <1>2. raw' = raw => Intruders' = Intruders
    BY <1>1 DEF Intruders
  <1>3. raw' = raw \cup {NextRow} => Intruders' = Intruders \cup {NextRow}
    BY <1>1 DEF Intruders
  <1>4. raw' = raw => Written' = Written
    BY <1>2 DEF Written
  <1> QED BY <1>2, <1>3, <1>4, OneMore

StandInv == Settled <= Written /\ (Settled = Written => Readable(rows))

\* Whatever is appended that is no recovery keeps the invariant if it is one more
\* intruder, or keeps Readable.
LEMMA AppendStands ==
    ASSUME TypeInv, StandInv, NEW n, n.kind # "close_invalidated", rows' = rows \cup {n},
           \/ Written' = Written + 1
           \/ Written' = Written /\ (Readable(rows) => Readable(rows'))
    PROVE  StandInv'
  <1>1. Of(rows', "close_invalidated") = Of(rows, "close_invalidated")
    BY DEF Of
  <1>2. Settled' = Settled /\ Settled \in Nat /\ Written \in Nat
    BY <1>1, CountsAreNumbers DEF Settled
  <1> QED BY <1>2 DEF StandInv

\* A reopening, or a close that binds what is visible and no control.
LEMMA ControlStands ==
    ASSUME TypeInv, StandInv, NEW p \in Periods, NEW time \in Recorded,
           NEW kind \in {"close_finalized", "close_reopened"}, NEW S,
           kind = "close_finalized" => S = Visible(rows, p, time) /\ MayBind(rows, p, time),
           NEW n, n = NewControl(kind, p, time, S), rows' = rows \cup {n}, raw' = raw
    PROVE  StandInv' /\ (Written' = Written /\ Readable(rows) => Readable(rows'))
  <1>1. n.row = NextRow /\ n.kind = kind /\ n.occurredAt = p.end /\ n.recordedAt = time
    BY DEF NewControl
  <1>2. n.kind # "entry" /\ n.kind # "close_invalidated"
    BY <1>1
  <1>3. \/ Written' = Written + 1
        \/ Written' = Written /\ \A c \in Of(rows, "close_finalized") : ~ Seen(c, p.end, time)
    <2> HIDE DEF Written
    <2> QED BY <1>1, <1>2, ControlCounts
  <1>4. Written \in Nat
    BY CountsAreNumbers
  <1>5. (\A c \in Of(rows, "close_finalized") : ~ Seen(c, p.end, time)) /\ Readable(rows) => Readable(rows')
    BY ControlKeeps
  <1>6. Written' = Written /\ Readable(rows) => Readable(rows')
    <2> HIDE DEF Written
    <2> QED BY <1>3, <1>4, <1>5
  <1> QED BY <1>2, <1>3, <1>5, <1>6, AppendStands

LEMMA StandInit == Init => StandInv
  <1> SUFFICES ASSUME Init PROVE StandInv OBVIOUS
  <1>1. Of(rows, "close_finalized") = {} /\ Of(rows, "close_invalidated") = {} /\ Intruders = {}
    BY DEF Init, Of, Intruders, Backdated, Controls
  <1>2. Settled = 0 /\ Written = 0
    BY <1>1, FS_EmptySet DEF Settled, Written
  <1> QED BY <1>1, <1>2 DEF StandInv, Readable

LEMMA StandNext == TypeInv /\ StandInv /\ [Next]_vars => StandInv'
  <1> SUFFICES ASSUME TypeInv, StandInv, [Next]_vars PROVE StandInv'
    OBVIOUS
  <1>1. ASSUME NEW time \in Recorded, NEW t \in Occurred,
               NEW S \in {{}} \cup {{s} : s \in Of(rows, "entry")}, AppendEntry(t, time, S)
        PROVE  StandInv'
    <2> DEFINE n == [row |-> NextRow, kind |-> "entry", occurredAt |-> t,
                     recordedAt |-> time, sources |-> {s.row : s \in S}]
               times == {t} \cup {s.occurredAt : s \in S}
    <2>1. /\ rows' = rows \cup {n} /\ raw' = raw /\ n.kind = "entry" /\ n.row = NextRow
          /\ assertPeriodOpenForEvent(times, time)
      BY <1>1 DEF AppendEntry, Add
    <2>2. t \in Nat /\ time \in Nat /\ t \in times
      BY PeriodsAssumption
    <2>3. Readable(rows) => Readable(rows \cup {n})
      <3> HIDE DEF times
      <3> QED BY <2>1, <2>2, EntryKeeps
    <2> HIDE DEF n
    <2>4. Written' = Written
      BY <2>1, EntryCounts
    <2> QED BY <2>1, <2>3, <2>4, AppendStands
  <1>2. ASSUME NEW time \in Recorded, NEW t \in Occurred, RawInsert(t, time)
        PROVE  StandInv'
    <2>1. PICK n : n.kind = "entry" /\ n.row = NextRow /\ rows' = rows \cup {n} /\ raw' = raw \cup {NextRow}
      BY <1>2 DEF RawInsert, Add
    <2>2. Written' = Written + 1
      BY <2>1, EntryCounts
    <2> QED BY <2>1, <2>2, AppendStands
  <1>3. ASSUME NEW time \in Recorded, NEW p \in Periods, finalizePeriod(p, time)
        PROVE  StandInv'
    <2> DEFINE n == NewControl("close_finalized", p, time, Visible(rows, p, time))
    <2>1. rows' = rows \cup {n} /\ raw' = raw /\ MayBind(rows, p, time)
      BY <1>3 DEF finalizePeriod, Add
    <2> QED BY <2>1, ControlStands
  <1>4. ASSUME NEW time \in Recorded, NEW p \in Periods, reopenPeriod(p, time)
        PROVE  StandInv'
    <2> DEFINE n == NewControl("close_reopened", p, time, {periodCloseStatus(rows, p).active})
    <2>1. rows' = rows \cup {n} /\ raw' = raw
      BY <1>4 DEF reopenPeriod, Add
    <2> QED BY <2>1, ControlStands
  <1>5. ASSUME NEW time \in Recorded, NEW c \in Of(rows, "close_finalized"),
               recoverBrickedPeriod(c, time)
        PROVE  StandInv'
    <2> DEFINE n == NewControl("close_invalidated", c.period, time, {c.row})
    <2>1. /\ rows' = rows \cup {n} /\ raw' = raw /\ Readable(rows')
          /\ n.kind = "close_invalidated" /\ n.kind # "entry" /\ n.row = NextRow
          /\ ~ hasCloseInvalidation(rows, c) /\ ~ closeBindingMatches(rows, c)
      BY <1>5 DEF recoverBrickedPeriod, CanRecover, Recovered, NewControl
    <2> HIDE DEF n
    <2>2. ~ Readable(rows)
      BY <2>1 DEF Readable, validateCloseEvent
    <2>3. Settled < Written
      BY <2>2, CountsAreNumbers DEF StandInv
    <2>4. Of(rows', "close_invalidated") = Of(rows, "close_invalidated") \cup {n}
      BY <2>1 DEF Of
    <2>5. n \notin Of(rows, "close_invalidated")
      BY <2>1, NextRowFresh DEF Of
    <2>6. Settled' = Settled + 1
      BY <2>4, <2>5, CountsAreNumbers, FS_AddElement DEF Settled
    <2>7. Written' = Written + 1 \/ Written' = Written
      BY <2>1, ControlCounts
    <2> QED BY <2>1, <2>3, <2>6, <2>7, CountsAreNumbers DEF StandInv
  <1>6. ASSUME NEW time \in Recorded, NEW p \in Periods, AppendClose(p, time)
        PROVE  StandInv'
    <2> DEFINE n == NewControl("close_finalized", p, time, Visible(rows, p, time))
    <2>1. rows' = rows \cup {n} /\ raw' = raw /\ MayBind(rows, p, time)
      BY <1>6 DEF AppendClose, Add
    <2> QED BY <2>1, ControlStands
  <1>7. ASSUME NEW time \in Recorded, NEW c \in Of(rows, "close_finalized"), AppendReopen(c, time)
        PROVE  StandInv'
    <2> DEFINE n == NewControl("close_reopened", c.period, time, {c.row})
    <2>1. rows' = rows \cup {n} /\ raw' = raw
      BY <1>7 DEF AppendReopen, Add
    <2>2. c.period \in Periods
      BY Kinds
    <2> QED BY <2>1, <2>2, ControlStands
  <1>8. CASE UNCHANGED vars
    BY <1>8 DEF vars, StandInv, Settled, Written, Intruders, Backdated, Falsifies, Of, Readable, validateCloseEvent,
                closeBindingMatches, hasCloseInvalidation, BindsControl, Controls, Visible
  <1> QED BY <1>1, <1>2, <1>3, <1>4, <1>5, <1>6, <1>7, <1>8 DEF Next

\* Every recorded close stays verifiable for any periods, consecutive and overlapping
\* ones included, any callers and any instants, once each row the ledger did not refuse
\* although a close sees it was answered by a recovery; none was, the ledger reads.
THEOREM ClosesStand == Spec => []EveryCloseStands
  <1>1. Init => TypeInv /\ StandInv
    BY TypeInit, StandInit
  <1>2. TypeInv /\ StandInv /\ [Next]_vars => (TypeInv /\ StandInv)'
    BY TypeNext, StandNext
  <1>3. TypeInv /\ StandInv => EveryCloseStands
    BY CountsAreNumbers DEF StandInv, EveryCloseStands, Settled, Written
  <1> QED BY <1>1, <1>2, <1>3, PTL DEF Spec

-----------------------------------------------------------------------------
(***************************************************************************)
(* The fold over a period's controls.                                      *)
(***************************************************************************)

\* One unfolding of the fold's recursion along q, over the sets in D.
Take(q, D, f) == [s \in D |-> IF s = {} THEN Unclosed ELSE Follow(f[s \ {Max(s)}], q[Max(s)])]
Taken(q) == CHOOSE f : f = Take(q, SUBSET DOMAIN q, f)

\* The library's fold is the value of that recursion at all indices.
LEMMA FoldIs == ASSUME NEW q PROVE FoldLeft(Follow, Unclosed, q) = Taken(q)[DOMAIN q]
  BY DEF FoldLeft, MapThenFoldSet, Take, Taken

\* A nonempty set of naturals up to n has a largest one.
LEMMA MaxIn ==
    ASSUME NEW n \in Nat, NEW S \in SUBSET (1 .. n), S # {}
    PROVE  Max(S) \in S /\ \A x \in S : x <= Max(S)
<1> DEFINE L == {n - x : x \in S}
<1>1. \A x \in S : x \in Nat /\ n - x \in Nat
  OBVIOUS
<1>2. L \subseteq Nat /\ L # {}
  BY <1>1
<1> HIDE DEF L
<1>3. PICK m \in L : \A k \in L : m <= k
  BY <1>2, Least
<1>4. PICK b \in S : m = n - b
  BY DEF L
<1>5. \A x \in S : n - x \in L
  BY DEF L
<1>6. \A x \in S : b >= x
  BY <1>1, <1>3, <1>4, <1>5
<1>7. Max(S) \in S /\ \A x \in S : Max(S) >= x
  BY <1>6 DEF Max
<1> QED BY <1>1, <1>7

\* Of the first k numbers k is the largest.
LEMMA MaxOfFirst == ASSUME NEW k \in Nat, k # 0 PROVE Max(1 .. k) = k
<1> DEFINE S == 1 .. k
<1>1. S \in SUBSET (1 .. k) /\ k \in S /\ S # {}
  OBVIOUS
<1> HIDE DEF S
<1>2. Max(S) \in S /\ k <= Max(S)
  BY <1>1, MaxIn
<1> QED BY <1>2 DEF S

\* The recursion has a solution on the sets of fewer than m of the first n numbers.
LEMMA TakeStage ==
    ASSUME NEW n \in Nat, NEW q, NEW m \in Nat
    PROVE  \E f : f = Take(q, Upto(1 .. n, m), f)
<1> DEFINE S == 1 .. n
           G == {k \in Nat : \E f : f = Take(q, Upto(S, k), f)}
<1>0. IsFiniteSet(S) /\ \A s \in SUBSET S : s # {} => Max(s) \in s
  <2>1. IsFiniteSet(S)
    BY FS_Interval
  <2>2. \A s \in SUBSET S : s # {} => Max(s) \in s
    BY MaxIn
  <2> QED BY <2>1, <2>2
<1> HIDE DEF S
<1>1. ASSUME NEW k \in Nat, \A j \in Nat : j < k => j \in G PROVE k \in G
  <2>1. CASE k = 0
    <3>1. Upto(S, k) = {}
      <4>1. \A s \in SUBSET S : Cardinality(s) \in Nat
        BY <1>0, FS_Subset, FS_CardinalityType
      <4> QED BY <2>1, <4>1 DEF Upto
    <3>2. \A f, g : Take(q, Upto(S, k), f) = Take(q, Upto(S, k), g)
      BY <3>1 DEF Take
    <3>3. \E f : f = Take(q, Upto(S, k), f)
      BY <3>2, Zenon
    <3> QED BY <3>3
  <2>2. CASE k # 0
    <3>1. k - 1 \in Nat /\ k - 1 < k
      BY <2>2
    <3>2. k - 1 \in G
      BY <3>1, <1>1
    <3>3. PICK f : f = Take(q, Upto(S, k - 1), f)
      BY <3>2
    <3> DEFINE g == Take(q, Upto(S, k), f)
    <3>4. \A s \in Upto(S, k) : s # {} => s \ {Max(s)} \in Upto(S, k - 1)
      <4> SUFFICES ASSUME NEW s \in Upto(S, k), s # {} PROVE s \ {Max(s)} \in Upto(S, k - 1)
        OBVIOUS
      <4>1. s \in SUBSET S /\ Cardinality(s) < k /\ Max(s) \in s
        BY <1>0 DEF Upto
      <4>2. IsFiniteSet(s)
        BY <1>0, <4>1, FS_Subset
      <4>4. Cardinality(s \ {Max(s)}) = Cardinality(s) - 1 /\ Cardinality(s) \in Nat
        BY <4>1, <4>2, FS_RemoveElement, FS_CardinalityType
      <4>5. s \ {Max(s)} \in SUBSET S
        BY <4>1
      <4>6. Cardinality(s \ {Max(s)}) < k - 1
        BY <4>1, <4>4
      <4> QED BY <4>5, <4>6 DEF Upto
    <3>5. \A s \in Upto(S, k - 1) : s \in Upto(S, k)
      <4>1. \A s \in SUBSET S : Cardinality(s) \in Nat
        BY <1>0, FS_Subset, FS_CardinalityType
      <4> QED BY <4>1, <3>1 DEF Upto
    <3>6. \A s \in Upto(S, k - 1) : f[s] = IF s = {} THEN Unclosed ELSE Follow(f[s \ {Max(s)}], q[Max(s)])
      BY <3>3 DEF Take
    <3>7. \A s \in Upto(S, k) : g[s] = IF s = {} THEN Unclosed ELSE Follow(f[s \ {Max(s)}], q[Max(s)])
      BY DEF Take
    <3>8. \A s \in Upto(S, k - 1) : g[s] = f[s]
      BY <3>5, <3>6, <3>7
    <3>9. g = Take(q, Upto(S, k), g)
      <4>1. \A s \in Upto(S, k) : s # {} => g[s \ {Max(s)}] = f[s \ {Max(s)}]
        BY <3>4, <3>8
      <4> HIDE DEF g
      <4>2. Take(q, Upto(S, k), f) = Take(q, Upto(S, k), g)
        BY <4>1 DEF Take
      <4> QED BY <4>2 DEF g
    <3> HIDE DEF g
    <3>10. \E h : h = Take(q, Upto(S, k), h)
      BY <3>9
    <3> QED BY <3>10
  <2> QED BY <2>1, <2>2
<1> HIDE DEF G
<1>2. Nat \subseteq G
  BY <1>1, Everywhere
<1> QED BY <1>2 DEF G, S

\* So the fold takes the elements one after the other.
LEMMA TakenAt ==
    ASSUME NEW n \in Nat, NEW q, DOMAIN q = 1 .. n
    PROVE  /\ Taken(q)[{}] = Unclosed
           /\ \A k \in 1 .. n : Taken(q)[1 .. k] = Follow(Taken(q)[1 .. (k - 1)], q[k])
<1> DEFINE S == 1 .. n
           f == Taken(q)
<1>0. IsFiniteSet(S)
  BY FS_Interval
<1>1. Cardinality(S) + 1 \in Nat /\ Cardinality(S) \in Nat
  BY <1>0, FS_CardinalityType
<1>2. Upto(S, Cardinality(S) + 1) = SUBSET S
  <2>1. \A s \in SUBSET S : Cardinality(s) <= Cardinality(S) /\ Cardinality(s) \in Nat
    BY <1>0, FS_Subset, FS_CardinalityType
  <2> HIDE DEF S
  <2>3. \A s \in SUBSET S : Cardinality(s) < Cardinality(S) + 1
    BY <1>1, <2>1
  <2> QED BY <2>3 DEF Upto
<1>3. \E h : h = Take(q, Upto(1 .. n, Cardinality(S) + 1), h)
  BY <1>1, TakeStage
<1>4. f = Take(q, SUBSET S, f)
  BY <1>2, <1>3 DEF Taken
<1> HIDE DEF f
<1>5. \A s \in SUBSET S : f[s] = IF s = {} THEN Unclosed ELSE Follow(f[s \ {Max(s)}], q[Max(s)])
  BY <1>4 DEF Take
<1>6. f[{}] = Unclosed
  BY <1>5
<1>7. ASSUME NEW k \in 1 .. n PROVE f[1 .. k] = Follow(f[1 .. (k - 1)], q[k])
  <2>1. 1 .. k \in SUBSET S /\ 1 .. k # {} /\ (1 .. k) \ {k} = 1 .. (k - 1)
    OBVIOUS
  <2>2. Max(1 .. k) = k
    BY MaxOfFirst
  <2>3. f[1 .. k] = Follow(f[(1 .. k) \ {Max(1 .. k)}], q[Max(1 .. k)])
    BY <2>1, <1>5
  <2> QED BY <2>1, <2>2, <2>3
<1> QED BY <1>6, <1>7 DEF f

\* Folding a sequence with one more element is one more step.
LEMMA FoldAppend ==
    ASSUME NEW n \in Nat, NEW q, NEW r, DOMAIN q = 1 .. n, DOMAIN r = 1 .. (n + 1),
           \A i \in 1 .. n : r[i] = q[i]
    PROVE  FoldLeft(Follow, Unclosed, r) = Follow(FoldLeft(Follow, Unclosed, q), r[n + 1])
<1> DEFINE G == {k \in Nat : k <= n => Taken(r)[1 .. k] = Taken(q)[1 .. k]}
<1>q. Taken(q)[{}] = Unclosed /\ \A k \in 1 .. n : Taken(q)[1 .. k] = Follow(Taken(q)[1 .. (k - 1)], q[k])
  BY TakenAt
<1>0. n + 1 \in Nat
  OBVIOUS
<1>r. Taken(r)[{}] = Unclosed /\ \A k \in 1 .. (n + 1) : Taken(r)[1 .. k] = Follow(Taken(r)[1 .. (k - 1)], r[k])
  BY <1>0, TakenAt
<1>1. /\ Taken(q)[{}] = Unclosed /\ \A k \in 1 .. n : Taken(q)[1 .. k] = Follow(Taken(q)[1 .. (k - 1)], q[k])
      /\ Taken(r)[{}] = Unclosed /\ \A k \in 1 .. (n + 1) : Taken(r)[1 .. k] = Follow(Taken(r)[1 .. (k - 1)], r[k])
  BY <1>q, <1>r
<1>2. ASSUME NEW k \in Nat, \A j \in Nat : j < k => j \in G PROVE k \in G
  <2>1. CASE k = 0
    <3>1. 1 .. k = {}
      BY <2>1
    <3> QED BY <1>1, <3>1
  <2>2. CASE k # 0 /\ k <= n
    <3>1. k - 1 \in Nat /\ k - 1 < k /\ k - 1 <= n /\ k \in 1 .. n /\ k \in 1 .. (n + 1)
      BY <2>2
    <3>2. Taken(r)[1 .. (k - 1)] = Taken(q)[1 .. (k - 1)]
      BY <3>1, <1>2
    <3> QED BY <3>1, <3>2, <1>1
  <2> QED BY <2>1, <2>2
<1> HIDE DEF G
<1>3. Nat \subseteq G
  BY <1>2, Everywhere
<1>4. Taken(r)[1 .. n] = Taken(q)[1 .. n]
  BY <1>3 DEF G
<1>5. Taken(r)[1 .. (n + 1)] = Follow(Taken(r)[1 .. ((n + 1) - 1)], r[n + 1]) /\ (n + 1) - 1 = n
  BY <1>1
<1> QED BY <1>4, <1>5, FoldIs

-----------------------------------------------------------------------------
(***************************************************************************)
(* The life of a period.                                                   *)
(***************************************************************************)

\* A step appends an entry, or a control: of another author, or one of the
\* ledger's own that the status of its period allows.
NewEntry(e) ==
    /\ e.kind = "entry" /\ e.row = NextRow
    /\ rows' = rows \cup {e} /\ authored' = authored /\ raw \subseteq raw'
NewOwn(n) ==
    LET s == periodCloseStatus(rows, n.period)
    IN  \/ n.kind = "close_finalized" /\ ~ Closed(rows, n.period)
        \/ n.kind = "close_reopened" /\ s.status = "finalized" /\ n.sources = {s.active}
        \/ n.kind = "close_invalidated" /\ \E c \in Closes(rows, n.period) : n.sources = {c.row}
NewPeriodRow(n) ==
    /\ n \in Control /\ n.row = NextRow
    /\ rows' = rows \cup {n} /\ raw' = raw
    /\ authored' = authored \cup {n.row} \/ (authored' = authored /\ NewOwn(n))

LEMMA StepKinds ==
    ASSUME TypeInv, [Next]_vars
    PROVE  UNCHANGED vars \/ (\E e : NewEntry(e)) \/ (\E n : NewPeriodRow(n))
<1>0. "close_finalized" \in ControlKinds /\ "close_reopened" \in ControlKinds /\ "close_invalidated" \in ControlKinds
  BY DEF ControlKinds
<1>1. ASSUME NEW kind \in ControlKinds, NEW p \in Periods, NEW time \in Recorded, NEW S \in SUBSET {e.row : e \in rows}
      PROVE  LET n == NewControl(kind, p, time, S)
             IN  n \in Control /\ n.row = NextRow /\ n.kind = kind /\ n.period = p /\ n.sources = S
  <2> DEFINE n == NewControl(kind, p, time, S)
  <2>1. IsNewRow(n) /\ n.kind # "entry"
    BY ControlIsNew
  <2>2. n.row = NextRow /\ n.kind = kind /\ n.period = p /\ n.sources = S
    BY DEF NewControl
  <2>3. n \in Control
    BY <2>1 DEF IsNewRow, Entry
  <2> QED BY <2>2, <2>3
<1>2. ASSUME NEW time \in Recorded, NEW t \in Occurred, NEW S, AppendEntry(t, time, S)
      PROVE  \E e : NewEntry(e)
  BY <1>2 DEF AppendEntry, Add, NewEntry
<1>3. ASSUME NEW time \in Recorded, NEW t \in Occurred, RawInsert(t, time)
      PROVE  \E e : NewEntry(e)
  BY <1>3 DEF RawInsert, Add, NewEntry
<1>4. ASSUME NEW time \in Recorded, NEW p \in Periods, finalizePeriod(p, time) \/ AppendClose(p, time)
      PROVE  \E n : NewPeriodRow(n)
  <2> DEFINE n == NewControl("close_finalized", p, time, Visible(rows, p, time))
  <2>1. n \in Control /\ n.row = NextRow /\ n.kind = "close_finalized" /\ n.period = p
    BY <1>0, <1>1, VisibleIsRows
  <2>2. /\ rows' = rows \cup {n} /\ raw' = raw
        /\ authored' = authored \cup {NextRow} \/ (authored' = authored /\ ~ Closed(rows, p))
    BY <1>4 DEF finalizePeriod, AppendClose, Add
  <2> HIDE DEF n
  <2>3. NewPeriodRow(n)
    BY <2>1, <2>2 DEF NewPeriodRow, NewOwn
  <2> QED BY <2>3
<1>5. ASSUME NEW time \in Recorded, NEW p \in Periods, reopenPeriod(p, time)
      PROVE  \E n : NewPeriodRow(n)
  <2> DEFINE s == periodCloseStatus(rows, p)
             n == NewControl("close_reopened", p, time, {s.active})
  <2>1. PICK c \in Closes(rows, p) : c.row = s.active
    BY <1>5 DEF reopenPeriod
  <2>2. {s.active} \in SUBSET {e.row : e \in rows}
    BY <2>1 DEF Closes, Of
  <2>3. n \in Control /\ n.row = NextRow /\ n.kind = "close_reopened" /\ n.period = p /\ n.sources = {s.active}
    BY <1>0, <1>1, <2>2
  <2>4. rows' = rows \cup {n} /\ raw' = raw /\ authored' = authored /\ s.status = "finalized"
    BY <1>5 DEF reopenPeriod, Add
  <2> HIDE DEF n
  <2>5. NewPeriodRow(n)
    BY <2>3, <2>4 DEF NewPeriodRow, NewOwn
  <2> QED BY <2>5
<1>6. ASSUME NEW time \in Recorded, NEW c \in Of(rows, "close_finalized"), recoverBrickedPeriod(c, time)
      PROVE  \E n : NewPeriodRow(n)
  <2> DEFINE n == NewControl("close_invalidated", c.period, time, {c.row})
  <2>1. c.period \in Periods /\ {c.row} \in SUBSET {e.row : e \in rows} /\ c \in Closes(rows, c.period)
    BY Kinds DEF Of, Closes
  <2>2. n \in Control /\ n.row = NextRow /\ n.kind = "close_invalidated" /\ n.period = c.period /\ n.sources = {c.row}
    BY <1>0, <1>1, <2>1
  <2>3. rows' = rows \cup {n} /\ raw' = raw /\ authored' = authored
    BY <1>6 DEF recoverBrickedPeriod, Recovered
  <2> HIDE DEF n
  <2>4. NewPeriodRow(n)
    BY <2>1, <2>2, <2>3 DEF NewPeriodRow, NewOwn
  <2> QED BY <2>4
<1>7. ASSUME NEW time \in Recorded, NEW c \in Of(rows, "close_finalized"), AppendReopen(c, time)
      PROVE  \E n : NewPeriodRow(n)
  <2> DEFINE n == NewControl("close_reopened", c.period, time, {c.row})
  <2>1. c.period \in Periods /\ {c.row} \in SUBSET {e.row : e \in rows}
    BY Kinds DEF Of
  <2>2. n \in Control /\ n.row = NextRow
    BY <1>0, <1>1, <2>1
  <2>3. rows' = rows \cup {n} /\ raw' = raw /\ authored' = authored \cup {NextRow}
    BY <1>7 DEF AppendReopen, Add
  <2> HIDE DEF n
  <2>4. NewPeriodRow(n)
    BY <2>2, <2>3 DEF NewPeriodRow
  <2> QED BY <2>4
<1> QED BY <1>2, <1>3, <1>4, <1>5, <1>6, <1>7 DEF Next

\* A period's controls in order were so before.
LEMMA InOrderBefore ==
    ASSUME NEW p, rows \subseteq rows', authored \subseteq authored', InOrder(p)'
    PROVE  InOrder(p)
<1>1. ControlsOf(rows, p) \subseteq ControlsOf(rows', p)
  BY DEF ControlsOf, Controls
<1> QED BY <1>1 DEF InOrder

\* A row that is no control of p leaves its controls and its status as they were.
LEMMA OthersKeep ==
    ASSUME NEW p, NEW e, rows' = rows \cup {e}, e.kind = "entry" \/ e.period # p
    PROVE  /\ ControlsOf(rows', p) = ControlsOf(rows, p) /\ Closes(rows', p) = Closes(rows, p)
           /\ periodCloseStatus(rows', p) = periodCloseStatus(rows, p)
<1>1. ControlsOf(rows', p) = ControlsOf(rows, p)
  BY DEF ControlsOf, Controls
<1>2. Closes(rows', p) = Closes(rows, p)
  BY DEF Closes, Of
<1> QED BY <1>1, <1>2 DEF periodCloseStatus

\* A control that was recorded last is the last to be folded.
LEMMA RecordedLast ==
    ASSUME NEW C \in SUBSET Control, IsFiniteSet(C), NEW n \in Control, n \notin C,
           \A c \in C : c.recordedAt < n.recordedAt
    PROVE  /\ Cardinality(C) \in Nat
           /\ DOMAIN AsRecorded(C) = 1 .. Cardinality(C)
           /\ DOMAIN AsRecorded(C \cup {n}) = 1 .. (Cardinality(C) + 1)
           /\ \A i \in 1 .. Cardinality(C) : AsRecorded(C \cup {n})[i] = AsRecorded(C)[i]
           /\ AsRecorded(C \cup {n})[Cardinality(C) + 1] = n
<1> DEFINE D == C \cup {n}
           k == Cardinality(C)
           Before(S, c) == {d \in S : RecordedBefore(d, c)}
<1>0. \A c \in D : c.recordedAt \in Nat /\ ~ RecordedBefore(c, c)
  <2>1. \A c \in D : c.recordedAt \in Nat /\ c.row \in Nat /\ c.kind \in ControlKinds
    BY DEF Control
  <2>2. \A c \in D : IdRank(c.kind) \in Nat
    BY <2>1 DEF ControlKinds, IdRank
  <2> QED BY <2>1, <2>2 DEF RecordedBefore
<1>1. k \in Nat /\ Cardinality(D) = k + 1
  BY FS_AddElement, FS_CardinalityType
<1>2. \A c \in C : ~ RecordedBefore(n, c) /\ RecordedBefore(c, n)
  BY <1>0 DEF RecordedBefore
<1>4. \A c \in C : Before(D, c) = Before(C, c)
  BY <1>2
<1>5. Before(D, n) = C
  BY <1>0, <1>2
<1>6. ASSUME NEW c \in C PROVE Cardinality(Before(C, c)) \in Nat /\ Cardinality(Before(C, c)) < k
  <2>1. Before(C, c) \subseteq C \ {c}
    BY <1>0
  <2>2. IsFiniteSet(C \ {c}) /\ Cardinality(C \ {c}) = k - 1
    BY FS_RemoveElement
  <2> HIDE DEF Before, k
  <2> DEFINE B == Before(C, c)
             M == C \ {c}
  <2> HIDE DEF B, M
  <2>4. B \subseteq M /\ IsFiniteSet(M) /\ Cardinality(M) = k - 1
    BY <2>1, <2>2 DEF B, M
  <2>5. IsFiniteSet(B) /\ Cardinality(B) <= Cardinality(M)
    BY <2>4, FS_Subset
  <2>3. IsFiniteSet(Before(C, c)) /\ Cardinality(Before(C, c)) <= k - 1
    BY <2>4, <2>5 DEF B
  <2>6. Cardinality(Before(C, c)) \in Nat
    BY <2>3, FS_CardinalityType
  <2> QED BY <1>1, <2>3, <2>6
<1> DEFINE At(S, i) == {c \in S : Cardinality(Before(S, c)) = i - 1}
<1>7. ASSUME NEW i \in 1 .. k PROVE At(D, i) = At(C, i)
  <2>1. i - 1 # k
    BY <1>1
  <2>2. Cardinality(Before(D, n)) = k
    BY <1>5
  <2> HIDE DEF Before, k
  <2>3. \A c \in C : Cardinality(Before(D, c)) = Cardinality(Before(C, c))
    BY <1>4
  <2> QED BY <2>1, <2>2, <2>3
<1>8. At(D, k + 1) = {n}
  <2>1. (k + 1) - 1 = k
    BY <1>1
  <2>2. Cardinality(Before(D, n)) = k
    BY <1>5
  <2>3. \A c \in C : Cardinality(Before(D, c)) # k
    BY <1>1, <1>4, <1>6
  <2> HIDE DEF Before, k
  <2> QED BY <2>1, <2>2, <2>3
<1>9. AsRecorded(C) = [i \in 1 .. k |-> CHOOSE c \in C : Cardinality(Before(C, c)) = i - 1]
  BY DEF AsRecorded
<1>10. AsRecorded(D) = [i \in 1 .. (k + 1) |-> CHOOSE c \in D : Cardinality(Before(D, c)) = i - 1]
  BY <1>1 DEF AsRecorded
<1> HIDE DEF Before, D, k
<1>11. \A i : (CHOOSE c \in C : Cardinality(Before(C, c)) = i - 1) = (CHOOSE c : c \in At(C, i))
  OBVIOUS
<1>12. \A i : (CHOOSE c \in D : Cardinality(Before(D, c)) = i - 1) = (CHOOSE c : c \in At(D, i))
  OBVIOUS
<1> HIDE DEF At
<1>13. AsRecorded(C) = [i \in 1 .. k |-> CHOOSE c : c \in At(C, i)]
  BY <1>9, <1>11
<1>14. AsRecorded(D) = [i \in 1 .. (k + 1) |-> CHOOSE c : c \in At(D, i)]
  BY <1>10, <1>12
<1>15. \A i \in 1 .. k : AsRecorded(D)[i] = AsRecorded(C)[i]
  BY <1>1, <1>7, <1>13, <1>14
<1>16. AsRecorded(D)[k + 1] = n
  BY <1>1, <1>8, <1>14
<1> QED BY <1>1, <1>13, <1>14, <1>15, <1>16 DEF D, k

\* A new control of a period whose controls stay in order moves its status on.
LEMMA StatusStep ==
    ASSUME TypeInv, NEW n, NewPeriodRow(n), InOrder(n.period)'
    PROVE  /\ periodCloseStatus(rows', n.period) = Follow(periodCloseStatus(rows, n.period), n)
           /\ ControlsOf(rows', n.period) = ControlsOf(rows, n.period) \cup {n}
           /\ \A c \in ControlsOf(rows, n.period) : c.row \in Nat /\ c.row < n.row
           /\ Closes(rows, n.period) \subseteq ControlsOf(rows, n.period)
           /\ Closes(rows', n.period)
                = IF n.kind = "close_finalized" THEN Closes(rows, n.period) \cup {n} ELSE Closes(rows, n.period)
<1> DEFINE p == n.period
           C == ControlsOf(rows, p)
<1>0. /\ n \in Control /\ n.row = NextRow /\ rows' = rows \cup {n} /\ n.kind \in ControlKinds
  BY DEF NewPeriodRow, Control
<1>1. \A e \in rows : e.row \in Nat /\ e.row < NextRow
  BY NextRowFresh
<1>2. n.kind # "entry"
  BY <1>0 DEF ControlKinds
<1>3. ControlsOf(rows', p) = C \cup {n} /\ C \subseteq rows
  BY <1>0, <1>2 DEF ControlsOf, Controls
<1>4. \A c \in C : c.row \in Nat /\ c.row < n.row
  BY <1>0, <1>1, <1>3
<1>5. n \notin C
  BY <1>4
<1>6. \A c \in C : c.recordedAt \in Nat /\ c.recordedAt < n.recordedAt
  <2>1. \A c \in C : c.recordedAt \in Nat
    BY <1>3, Kinds
  <2>2. \A c \in C : c.recordedAt < n.recordedAt
    BY <1>3, <1>4 DEF InOrder
  <2> QED BY <2>1, <2>2
<1>7. IsFiniteSet(C)
  BY <1>3, FS_Subset DEF TypeInv, Numbered
<1>12. C \in SUBSET Control
  BY DEF TypeInv, TypeOK, ControlsOf, Controls, Entry
<1>9. periodCloseStatus(rows', p) = Follow(periodCloseStatus(rows, p), n)
  <2> DEFINE q == AsRecorded(C)
             r == AsRecorded(C \cup {n})
             k == Cardinality(C)
  <2> HIDE DEF C
  <2>1. /\ k \in Nat /\ DOMAIN q = 1 .. k /\ DOMAIN r = 1 .. (k + 1)
        /\ \A i \in 1 .. k : r[i] = q[i]
        /\ r[k + 1] = n
    BY <1>0, <1>5, <1>6, <1>7, <1>12, RecordedLast DEF C
  <2> HIDE DEF q, r, k
  <2>2. FoldLeft(Follow, Unclosed, r) = Follow(FoldLeft(Follow, Unclosed, q), n)
    BY <2>1, FoldAppend
  <2>3. periodCloseStatus(rows', p) = FoldLeft(Follow, Unclosed, r)
    BY <1>3 DEF periodCloseStatus, r
  <2>4. periodCloseStatus(rows, p) = FoldLeft(Follow, Unclosed, q)
    BY DEF periodCloseStatus, q, C
  <2> QED BY <2>2, <2>3, <2>4
<1>10. Closes(rows, p) \subseteq C
  BY DEF Closes, Of, ControlsOf, Controls
<1>11. Closes(rows', p) = IF n.kind = "close_finalized" THEN Closes(rows, p) \cup {n} ELSE Closes(rows, p)
  BY <1>0 DEF Closes, Of
<1> QED BY <1>3, <1>4, <1>9, <1>10, <1>11

-----------------------------------------------------------------------------
(***************************************************************************)
(* Late evidence.                                                          *)
(***************************************************************************)

\* A period that is not closed was reopened, or recovered, after each of its closes.
ReopenedSince(p) ==
    InOrder(p) /\ ~ Closed(rows, p) =>
        \A c \in Closes(rows, p) :
            \E r \in ControlsOf(rows, p) \ Closes(rows, p) : c.row < r.row

\* The inductive invariant: late evidence came when the period was not closed.
LateInv == (\A p \in Periods : ReopenedSince(p)) /\ LateEvidenceAfterReopen

\* There are no closes yet.
LEMMA InitLate == Init => LateInv
  BY DEF Init, LateInv, ReopenedSince, LateEvidenceAfterReopen, Closes, Of

\* A new close closes the period, any other new control comes after all closes.
LEMMA StepReopened ==
    ASSUME TypeInv, NEW p \in Periods, ReopenedSince(p), [Next]_vars
    PROVE  ReopenedSince(p)'
<1> SUFFICES ASSUME InOrder(p)', ~ Closed(rows', p), NEW c \in Closes(rows', p)
             PROVE  \E r \in ControlsOf(rows', p) \ Closes(rows', p) : c.row < r.row
  BY DEF ReopenedSince
<1>1. CASE UNCHANGED vars
  BY <1>1 DEF vars, ReopenedSince, InOrder
<1>2. ASSUME NEW e, rows' = rows \cup {e}, authored \subseteq authored', e.kind = "entry" \/ e.period # p
      PROVE  \E r \in ControlsOf(rows', p) \ Closes(rows', p) : c.row < r.row
  <2>1. InOrder(p)
    BY <1>2, InOrderBefore
  <2> QED BY <1>2, <2>1, OthersKeep DEF ReopenedSince, Closed
<1>3. ASSUME NEW n, NewPeriodRow(n), n.period = p
      PROVE  \E r \in ControlsOf(rows', p) \ Closes(rows', p) : c.row < r.row
  <2>1. /\ periodCloseStatus(rows', p) = Follow(periodCloseStatus(rows, p), n)
        /\ ControlsOf(rows', p) = ControlsOf(rows, p) \cup {n}
        /\ \A d \in ControlsOf(rows, p) : d.row \in Nat /\ d.row < n.row
        /\ Closes(rows, p) \subseteq ControlsOf(rows, p)
        /\ Closes(rows', p) = IF n.kind = "close_finalized" THEN Closes(rows, p) \cup {n} ELSE Closes(rows, p)
    BY <1>3, StatusStep
  <2>2. n.kind # "close_finalized"
    <3>1. ASSUME n.kind = "close_finalized"
          PROVE  Follow(periodCloseStatus(rows, p), n).status \in {"finalized", "conflicted"}
      BY <3>1 DEF Follow
    <3> QED BY <2>1, <3>1 DEF Closed
  <2>3. n \notin Closes(rows, p)
    BY <2>2 DEF Closes, Of
  <2> QED BY <2>1, <2>2, <2>3
<1>4. CASE \E e : NewEntry(e)
  BY <1>2, <1>4 DEF NewEntry
<1>5. CASE \E n : NewPeriodRow(n)
  BY <1>2, <1>3, <1>5 DEF NewPeriodRow
<1> QED BY <1>1, <1>4, <1>5, StepKinds

\* An entry that is appended finds the periods it touches not closed.
LEMMA AppendsOpen ==
    ASSUME TypeInv, NEW t \in Occurred, NEW time \in Recorded, NEW S \in SUBSET rows, AppendEntry(t, time, S),
           NEW c \in Of(rows, "close_finalized"),
           NEW e \in rows', e.row = NextRow, Touches(e, c.period)'
    PROVE  ~ Closed(rows, c.period)
<1> DEFINE n == [row |-> NextRow, kind |-> "entry", occurredAt |-> t,
                 recordedAt |-> time, sources |-> {s.row : s \in S}]
<1>0. rows' = rows \cup {n} /\ n.row = NextRow /\ n.occurredAt = t /\ n.sources = {s.row : s \in S}
  BY DEF AppendEntry, Add
<1> HIDE DEF n
<1>1. \A d \in rows : d.row # NextRow
  BY NextRowFresh
<1>2. e = n
  BY <1>0, <1>1
<1>3. PICK d \in rows' : (d = n \/ d.row \in n.sources) /\ Within(d.occurredAt, c.period)
  BY <1>2 DEF Touches
<1>4. d.occurredAt \in {t} \cup {s.occurredAt : s \in S}
  <2>1. CASE d = n
    BY <2>1, <1>0
  <2>2. CASE d.row \in n.sources
    <3>1. PICK s \in S : d.row = s.row
      BY <2>2, <1>0
    <3>2. s \in rows /\ d \in rows
      BY <3>1, <1>0, <1>1
    <3>3. d = s
      BY <3>1, <3>2 DEF TypeInv, TypeOK
    <3> QED BY <3>3
  <2> QED BY <1>3, <2>1, <2>2
<1>5. c \in Controls(rows) /\ Controls(rows) # {}
  BY Kinds
<1>6. assertPeriodOpenForEvent({t} \cup {s.occurredAt : s \in S}, time)
  BY DEF AppendEntry
<1> DEFINE times == {t} \cup {s.occurredAt : s \in S}
<1> HIDE DEF times
<1>7. assertPeriodOpenForEvent(times, time) /\ d.occurredAt \in times
  BY <1>4, <1>6 DEF times
<1> QED BY <1>3, <1>5, <1>7 DEF assertPeriodOpenForEvent

\* So late evidence has a reopening or a recovery before it.
LEMMA StepLate == ASSUME TypeInv, LateInv, [Next]_vars PROVE LateInv'
<1>1. (\A p \in Periods : ReopenedSince(p))'
  BY StepReopened DEF LateInv
<1> SUFFICES ASSUME NEW c \in Of(rows', "close_finalized"), NEW e \in Of(rows', "entry"),
                    c.row < e.row, Touches(e, c.period)', e.row \notin raw', InOrder(c.period)'
             PROVE  \E r \in ControlsOf(rows', c.period) \ Closes(rows', c.period) : c.row < r.row /\ r.row < e.row
  BY <1>1 DEF LateInv, LateEvidenceAfterReopen
<1> DEFINE p == c.period
<1>2. CASE UNCHANGED vars
  BY <1>2 DEF vars, LateInv, LateEvidenceAfterReopen, Touches, InOrder
<1>3. CASE (\E a : NewEntry(a)) \/ (\E n : NewPeriodRow(n))
  <2>0. PICK a : /\ rows' = rows \cup {a} /\ a.row = NextRow /\ authored \subseteq authored' /\ raw \subseteq raw'
                 /\ a.kind = "entry" \/ NewPeriodRow(a)
    BY <1>3 DEF NewEntry, NewPeriodRow
  <2>1. \A d \in rows : d.row \in Nat /\ d.row < a.row
    BY <2>0, NextRowFresh
  <2>2. c \in rows /\ c \in Of(rows, "close_finalized") /\ c \in Closes(rows, p) /\ p \in Periods
    <3>1. c \in rows' /\ c.kind = "close_finalized" /\ e \in rows'
      BY DEF Of
    <3>2. a.row \in Nat
      BY <2>0, NextRowFresh
    <3>3. c # a
      BY <2>0, <2>1, <3>1, <3>2
    <3>4. c \in Of(rows, "close_finalized")
      BY <2>0, <3>1, <3>3 DEF Of
    <3> QED BY <3>1, <3>4, Kinds DEF Of, Closes
  <2>3. InOrder(p)
    BY <2>0, InOrderBefore
  <2>4. ASSUME NEW r \in ControlsOf(rows, p) \ Closes(rows, p) PROVE r \in ControlsOf(rows', p) \ Closes(rows', p)
    BY <2>0 DEF ControlsOf, Controls, Closes, Of
  <2>5. CASE e \in rows
    <3>1. Touches(e, p)
      <4>1. PICK d \in rows' : (d = e \/ d.row \in e.sources) /\ Within(d.occurredAt, p)
        BY DEF Touches
      <4>2. \A s \in e.sources : \E f \in rows : f.row = s
        BY <2>5 DEF TypeInv, TypeOK
      <4>3. a.row \notin e.sources
        BY <2>0, <2>1, <4>2, NextRowFresh
      <4>4. d \in rows
        BY <2>0, <2>5, <4>1, <4>3
      <4> QED BY <4>1, <4>4 DEF Touches
    <3>2. e \in Of(rows, "entry") /\ e.row \notin raw
      BY <2>0, <2>5 DEF Of
    <3>3. \E r \in ControlsOf(rows, p) \ Closes(rows, p) : c.row < r.row /\ r.row < e.row
      BY <2>2, <2>3, <3>1, <3>2 DEF LateInv, LateEvidenceAfterReopen
    <3> QED BY <2>4, <3>3
  <2>6. CASE e = a
    <3>1. e.kind = "entry" /\ e.row = NextRow /\ e \notin rows /\ e \in rows'
      BY <2>0, <2>1, <2>6, NextRowFresh DEF Of
    <3>2. PICK t \in Occurred, time \in Recorded, S \in SUBSET rows : AppendEntry(t, time, S)
      <4>1. ASSUME NEW kind, NEW q, NEW time, NEW X, rows' = rows \cup {NewControl(kind, q, time, X)}
            PROVE  kind = "entry"
        <5>1. NewControl(kind, q, time, X).kind = kind
          BY DEF NewControl
        <5> HIDE DEF NewControl
        <5>2. e = NewControl(kind, q, time, X)
          BY <4>1, <3>1
        <5> QED BY <3>1, <5>1, <5>2
      <4>2. ASSUME NEW t \in Occurred, NEW time \in Recorded, RawInsert(t, time) PROVE FALSE
        BY <3>1, <4>2 DEF RawInsert
      <4>3. ~ UNCHANGED vars
        BY <3>1 DEF vars
      <4>4. ASSUME NEW time \in Recorded, NEW q \in Periods,
                   finalizePeriod(q, time) \/ reopenPeriod(q, time) \/ AppendClose(q, time)
            PROVE  FALSE
        BY <4>1, <4>4 DEF finalizePeriod, reopenPeriod, AppendClose, Add
      <4>5. ASSUME NEW time \in Recorded, NEW x, recoverBrickedPeriod(x, time) \/ AppendReopen(x, time)
            PROVE  FALSE
        BY <4>1, <4>5 DEF recoverBrickedPeriod, Recovered, AppendReopen, Add
      <4>6. \A S \in {{}} \cup {{s} : s \in Of(rows, "entry")} : S \in SUBSET rows
        BY DEF Of
      <4> QED BY <4>2, <4>3, <4>4, <4>5, <4>6 DEF Next
    <3>3. ~ Closed(rows, p)
      BY <2>2, <3>1, <3>2, AppendsOpen
    <3>4. PICK r \in ControlsOf(rows, p) \ Closes(rows, p) : c.row < r.row
      BY <2>2, <2>3, <3>3 DEF LateInv, ReopenedSince
    <3>5. r \in rows
      BY DEF ControlsOf, Controls
    <3> QED BY <2>1, <2>4, <2>6, <3>4, <3>5
  <2> QED BY <2>0, <2>5, <2>6 DEF Of
<1> QED BY <1>2, <1>3, StepKinds

\* Evidence about a period that is appended after one of its closes was appended
\* after a reopening or a recovery that came in between, for any periods, whether
\* the entry's own time or its source's lies inside.
THEOREM LateIsReopened == Spec => []LateEvidenceAfterReopen
<1>1. Init => TypeInv /\ LateInv
  BY TypeInit, InitLate
<1>2. TypeInv /\ LateInv /\ [Next]_vars => (TypeInv /\ LateInv)'
  BY TypeNext, StepLate
<1>3. LateInv => LateEvidenceAfterReopen
  BY DEF LateInv
<1> QED BY <1>1, <1>2, <1>3, PTL DEF Spec

-----------------------------------------------------------------------------
(***************************************************************************)
(* What a period's controls add up to.                                     *)
(***************************************************************************)

\* A close that says something else than the ledger, and was not recovered.
Stale(E, c) == ~ closeBindingMatches(E, c) /\ ~ hasCloseInvalidation(E, c)

\* What the fold over the controls of a period returns.
Statuses == [status : {"open", "finalized", "reopened", "conflicted"}, active : Nat, latest : Nat]

\* A period whose recoveries are of latest closes is what its last control made it.
Told(p) ==
    LET C == ControlsOf(rows, p)
        s == periodCloseStatus(rows, p)
    IN  InOrder(p) /\ RecoversLatest(p) =>
            /\ s \in Statuses
            /\ C = {} => s = Unclosed
            /\ C # {} => \E last \in C :
                             /\ \A c \in C : c.row <= last.row
                             /\ s.status = IF last.kind = "close_finalized" THEN "finalized" ELSE "reopened"
            /\ \A c \in Closes(rows, p) : c.row <= s.latest
            /\ Closes(rows, p) # {} => \E c \in Closes(rows, p) : c.row = s.latest

\* One intruder leaves no close standing after a stale one.
StaleTogether(p) ==
    InOrder(p) /\ Written <= 1 =>
        \A c, d \in Closes(rows, p) : c.row < d.row /\ Stale(rows, c) => Stale(rows, d)

\* So recoveries have been of latest closes.
Recoveries(p) == InOrder(p) /\ Written <= 1 => RecoversLatest(p)

\* The inductive invariant, on top of StandInv.
LastInv == \A p \in Periods : Told(p) /\ StaleTogether(p) /\ Recoveries(p)

\* The fold over no control returns an open period.
LEMMA InitLast == Init => LastInv
<1> SUFFICES ASSUME Init, NEW p \in Periods PROVE Told(p) /\ StaleTogether(p) /\ Recoveries(p)
  BY DEF LastInv
<1>1. rows = {}
  BY DEF Init
<1>2. ControlsOf(rows, p) = {} /\ Closes(rows, p) = {}
  BY <1>1 DEF ControlsOf, Controls, Closes, Of
<1>3. periodCloseStatus(rows, p) = Unclosed
  <2> DEFINE q == AsRecorded({})
  <2>1. DOMAIN q = 1 .. 0
    BY FS_EmptySet DEF AsRecorded
  <2>2. 1 .. 0 = {}
    OBVIOUS
  <2> HIDE DEF q
  <2>3. FoldLeft(Follow, Unclosed, q) = Taken(q)[{}] /\ Taken(q)[{}] = Unclosed
    BY <2>1, <2>2, TakenAt, FoldIs
  <2>4. periodCloseStatus(rows, p) = FoldLeft(Follow, Unclosed, q)
    BY <1>2 DEF periodCloseStatus, q
  <2> QED BY <2>3, <2>4
<1> QED BY <1>2, <1>3 DEF Told, StaleTogether, Recoveries, RecoversLatest, Unclosed, Statuses

\* Recoveries that are of latest closes were so before.
LEMMA RecoversBefore ==
    ASSUME NEW p, rows \subseteq rows', RecoversLatest(p)'
    PROVE  RecoversLatest(p)
<1>1. ControlsOf(rows, p) \subseteq ControlsOf(rows', p) /\ Closes(rows, p) \subseteq Closes(rows', p)
  BY DEF ControlsOf, Controls, Closes, Of
<1> QED BY <1>1 DEF RecoversLatest

\* The ledger's own guards make each control move the status as it is meant to:
\* finalizePeriod refuses a closed period, reopenPeriod names the active close.
LEMMA StepTold ==
    ASSUME TypeInv, NEW p \in Periods, Told(p), [Next]_vars
    PROVE  Told(p)'
<1> SUFFICES ASSUME InOrder(p)', RecoversLatest(p)' PROVE Told(p)'
  BY DEF Told
<1>1. CASE UNCHANGED vars
  BY <1>1 DEF vars, Told, InOrder, RecoversLatest
<1>2. ASSUME NEW e, rows' = rows \cup {e}, authored \subseteq authored', e.kind = "entry" \/ e.period # p
      PROVE  Told(p)'
  <2>1. InOrder(p) /\ RecoversLatest(p)
    BY <1>2, InOrderBefore, RecoversBefore
  <2> QED BY <1>2, <2>1, OthersKeep DEF Told
<1>3. ASSUME NEW n, NewPeriodRow(n), n.period = p
      PROVE  Told(p)'
  <2> DEFINE C == ControlsOf(rows, p)
             s == periodCloseStatus(rows, p)
             K == Closes(rows, p)
  <2>0. InOrder(p) /\ RecoversLatest(p) /\ n.row \notin authored'
    <3>1. rows \subseteq rows' /\ authored \subseteq authored'
      BY <1>3 DEF NewPeriodRow
    <3>2. n \in ControlsOf(rows', p)
      BY <1>3 DEF NewPeriodRow, ControlsOf, Controls, Control, ControlKinds
    <3> QED BY <3>1, <3>2, InOrderBefore, RecoversBefore DEF InOrder
  <2>1. /\ periodCloseStatus(rows', p) = Follow(s, n)
        /\ ControlsOf(rows', p) = C \cup {n}
        /\ \A d \in C : d.row \in Nat /\ d.row < n.row
        /\ K \subseteq C
        /\ Closes(rows', p) = IF n.kind = "close_finalized" THEN K \cup {n} ELSE K
    BY <1>3, StatusStep
  <2>2. /\ s \in Statuses
        /\ C = {} => s = Unclosed
        /\ C # {} => \E last \in C :
                         /\ \A c \in C : c.row <= last.row
                         /\ s.status = IF last.kind = "close_finalized" THEN "finalized" ELSE "reopened"
        /\ \A c \in K : c.row <= s.latest
        /\ K # {} => \E c \in K : c.row = s.latest
    BY <2>0 DEF Told
  <2>s. s \in Statuses
    BY <2>2
  <2>3. NewOwn(n) /\ n.row \in Nat
    BY <1>3, <2>0, NextRowFresh DEF NewPeriodRow
  <2>4. \A c \in C \cup {n} : c.row <= n.row
    BY <2>1, <2>3
  <2>5. SUFFICES /\ Follow(s, n).status = IF n.kind = "close_finalized" THEN "finalized" ELSE "reopened"
                 /\ Follow(s, n).latest = IF n.kind = "close_finalized" THEN n.row ELSE s.latest
                 /\ Follow(s, n) \in Statuses
    <3> DEFINE u == Follow(s, n)
    <3> HIDE DEF u, C, K, s
    <3>1. /\ u.status = IF n.kind = "close_finalized" THEN "finalized" ELSE "reopened"
          /\ u.latest = IF n.kind = "close_finalized" THEN n.row ELSE s.latest
          /\ u \in Statuses
      BY <2>5 DEF u, s
    <3>2. periodCloseStatus(rows', p) = u
      BY <2>1 DEF u, s
    <3>3. \A c \in Closes(rows', p) : c.row <= u.latest
      BY <2>1, <2>2, <2>3, <3>1
    <3>4. Closes(rows', p) # {} => \E c \in Closes(rows', p) : c.row = u.latest
      BY <2>1, <2>2, <3>1
    <3>5. ControlsOf(rows', p) # {} /\ \E last \in ControlsOf(rows', p) :
              /\ \A c \in ControlsOf(rows', p) : c.row <= last.row
              /\ u.status = IF last.kind = "close_finalized" THEN "finalized" ELSE "reopened"
      BY <2>1, <2>4, <3>1
    <3> QED BY <3>1, <3>2, <3>3, <3>4, <3>5 DEF Told
  <2>6. CASE n.kind = "close_finalized"
    <3>1. s.status \notin {"finalized", "conflicted"}
      BY <1>3, <2>3, <2>6 DEF NewOwn, Closed
    <3> HIDE DEF s
    <3>2. Follow(s, n) = [status |-> "finalized", active |-> n.row, latest |-> n.row]
      BY <2>6, <3>1 DEF Follow
    <3> QED BY <2>3, <2>6, <3>2 DEF Statuses
  <2>7. CASE n.kind = "close_reopened"
    <3>1. s.status = "finalized" /\ n.sources = {s.active}
      BY <1>3, <2>3, <2>7 DEF NewOwn
    <3> HIDE DEF s
    <3>2. Follow(s, n) = [status |-> "reopened", active |-> 0, latest |-> s.latest]
      BY <2>7, <3>1 DEF Follow
    <3>8. [status |-> "reopened", active |-> 0, latest |-> s.latest] \in Statuses
      BY <2>s DEF Statuses
    <3> QED BY <2>7, <3>2, <3>8
  <2>8. CASE n.kind = "close_invalidated"
    <3>1. PICK c \in K : n.sources = {c.row}
      BY <1>3, <2>3, <2>8 DEF NewOwn
    <3>2. n \in ControlsOf(rows', p) /\ Closes(rows', p) = K
      BY <2>1, <2>8
    <3>3. \A d \in K : d.row < n.row => d.row <= c.row
      BY <2>8, <3>1, <3>2 DEF RecoversLatest
    <3>4. \A d \in K : d.row \in Nat /\ d.row <= c.row
      BY <2>1, <3>3
    <3>5. s.latest = c.row
      BY <2>2, <3>1, <3>4
    <3> HIDE DEF s
    <3>6. Follow(s, n) = [status |-> "reopened", active |-> 0, latest |-> s.latest]
      BY <2>8, <3>1, <3>5 DEF Follow
    <3>8. [status |-> "reopened", active |-> 0, latest |-> s.latest] \in Statuses
      BY <2>s DEF Statuses
    <3> QED BY <2>8, <3>6, <3>8
  <2> QED BY <2>3, <2>6, <2>7, <2>8 DEF NewOwn
<1>4. CASE \E e : NewEntry(e)
  BY <1>2, <1>4 DEF NewEntry
<1>5. CASE \E n : NewPeriodRow(n)
  BY <1>2, <1>3, <1>5 DEF NewPeriodRow
<1> QED BY <1>1, <1>4, <1>5, StepKinds

\* The one intruder that a close sees is seen by every later
\* close, and no operation but a recovery goes on before it is dealt with.
LEMMA StepStale ==
    ASSUME TypeInv, StandInv, NEW p \in Periods, StaleTogether(p), [Next]_vars
    PROVE  StaleTogether(p)'
<1> SUFFICES ASSUME InOrder(p)', Written' <= 1, NEW c \in Closes(rows', p), NEW d \in Closes(rows', p),
                    c.row < d.row, Stale(rows', c)
             PROVE  Stale(rows', d)
  BY DEF StaleTogether
<1>0. \A q \in Of(rows', "close_finalized") : Stale(rows', q) => ~ Readable(rows')
  BY DEF Readable, validateCloseEvent, Stale
<1>1. CASE Readable(rows')
  BY <1>0, <1>1 DEF Closes, Of
\* A row that no close of p sees and that recovers none.
<1>2. ASSUME NEW e, e.row = NextRow, rows' = rows \cup {e}, authored \subseteq authored', raw' = raw,
             e.kind \in {"entry", "close_finalized", "close_reopened"},
             e.kind # "close_finalized" \/ e.period # p,
             \A q \in Of(rows, "close_finalized") : ~ Seen(q, e.occurredAt, e.recordedAt)
      PROVE  Stale(rows', d)
  <2>0. Written \in Nat /\ (Written' = Written \/ Written' = Written + 1)
    <3>1. CASE e.kind = "entry"
      BY <1>2, <3>1, EntryCounts, CountsAreNumbers
    <3>2. CASE e.kind # "entry"
      BY <1>2, <3>2, ControlCounts, CountsAreNumbers
    <3> QED BY <3>1, <3>2
  <2>1. InOrder(p) /\ Written <= 1
    BY <1>2, <2>0, InOrderBefore
  <2>2. Closes(rows', p) = Closes(rows, p)
    BY <1>2 DEF Closes, Of
  <2>3. \A q \in Closes(rows, p) : Stale(rows', q) <=> Stale(rows, q)
    <3>1. \A q \in Closes(rows, p) : closeBindingMatches(rows', q) <=> closeBindingMatches(rows, q)
      <4>1. \A q \in Closes(rows, p) : ~ (Within(e.occurredAt, q.period) /\ e.recordedAt <= q.recordedAt)
        BY <1>2 DEF Closes, Seen
      <4> QED BY <1>2, <4>1, NotVisible DEF closeBindingMatches
    <3>2. \A q \in Closes(rows, p) : hasCloseInvalidation(rows', q) <=> hasCloseInvalidation(rows, q)
      BY <1>2 DEF hasCloseInvalidation, Of
    <3> QED BY <3>1, <3>2 DEF Stale
  <2> QED BY <2>1, <2>2, <2>3 DEF StaleTogether
<1>3. ASSUME NEW time \in Recorded, NEW t \in Occurred,
             NEW S \in {{}} \cup {{s} : s \in Of(rows, "entry")}, AppendEntry(t, time, S)
      PROVE  Stale(rows', d)
  <2> DEFINE n == [row |-> NextRow, kind |-> "entry", occurredAt |-> t,
                   recordedAt |-> time, sources |-> {s.row : s \in S}]
             times == {t} \cup {s.occurredAt : s \in S}
  <2>1. /\ rows' = rows \cup {n} /\ n.kind = "entry" /\ assertPeriodOpenForEvent(times, time)
    BY <1>3 DEF AppendEntry, Add
  <2>2. t \in Nat /\ time \in Nat /\ t \in times
    BY PeriodsAssumption
  <2>3. c \in Of(rows, "close_finalized")
    BY <2>1 DEF Closes, Of
  <2>4. Controls(rows) # {}
    BY <2>3, Kinds
  <2>5. Readable(rows \cup {n})
    <3> HIDE DEF times
    <3>1. Readable(rows)
      BY <2>1, <2>4 DEF assertPeriodOpenForEvent
    <3> QED BY <2>1, <2>2, <3>1, EntryKeeps
  <2> QED BY <1>1, <2>1, <2>5
\* The first intruder, which is no close of p if it happened in p.
<1>4. ASSUME NEW n, n.row = NextRow, rows' = rows \cup {n}, authored \subseteq authored', Written' = Written + 1,
             n.kind \in {"entry", "close_finalized", "close_reopened"}, n.recordedAt \in Nat,
             n.kind # "close_finalized" \/ n.period # p \/ ~ Within(n.occurredAt, p)
      PROVE  Stale(rows', d)
  <2>2. Written = 0 /\ Settled = 0
    BY <1>4, CountsAreNumbers DEF StandInv
  <2>3. Readable(rows)
    BY <2>2 DEF StandInv
  <2>4. Of(rows, "close_invalidated") = {}
    BY <2>2, CountsAreNumbers, FS_EmptySet DEF Settled
  <2>5. Of(rows', "close_invalidated") = {} /\ Closes(rows', p) \subseteq Closes(rows, p) \cup {n}
    BY <1>4, <2>4 DEF Of, Closes
  <2>6. \A q \in Closes(rows, p) : closeBindingMatches(rows, q)
    BY <2>3, <2>4 DEF Readable, validateCloseEvent, hasCloseInvalidation, Closes, Of
  <2>a. c \in rows' /\ d \in rows' /\ c.period = p /\ d.period = p
        /\ c.kind = "close_finalized" /\ d.kind = "close_finalized"
    BY DEF Closes, Of
  <2>b. \A e \in rows : e.row \in Nat /\ e.row < n.row
    BY <1>4, NextRowFresh
  <2>c. c \in Closes(rows, p)
    <3>1. n.row \in Nat
      BY <1>4, NextRowFresh
    <3>2. c # n
      BY <1>4, <2>a, <2>b, <3>1
    <3> QED BY <2>5, <3>2
  <2>8. Within(n.occurredAt, p) /\ n.recordedAt <= c.recordedAt
    <3>1. ~ closeBindingMatches(rows', c)
      BY DEF Stale
    <3>2. closeBindingMatches(rows, c)
      BY <2>6, <2>c
    <3>3. Visible(rows', p, c.recordedAt) # Visible(rows, p, c.recordedAt)
      BY <2>a, <3>1, <3>2 DEF closeBindingMatches
    <3> QED BY <1>4, <3>3, NotVisible
  <2>7. d \in Closes(rows, p) /\ c \in rows /\ d \in rows
    <3>1. d # n
      BY <1>4, <2>8, <2>a
    <3> QED BY <2>5, <2>c, <3>1 DEF Closes, Of
  <2>9. c.recordedAt \in Nat /\ d.recordedAt \in Nat /\ c.recordedAt < d.recordedAt
    <3>1. c \in ControlsOf(rows', p) /\ d \in ControlsOf(rows', p)
      BY DEF Closes, Of, ControlsOf, Controls
    <3>2. c.recordedAt < d.recordedAt
      BY <3>1 DEF InOrder
    <3> QED BY <2>7, <3>2, Kinds
  <2>10. n.recordedAt <= d.recordedAt
    BY <1>4, <2>8, <2>9
  <2>11. NextRow \in Visible(rows', p, d.recordedAt)
    BY <1>4, <2>8, <2>10 DEF Visible
  <2>12. NextRow \notin d.sources
    BY <2>7, FreshUnbound DEF Closes, Of
  <2>13. ~ closeBindingMatches(rows', d)
    BY <2>a, <2>11, <2>12 DEF closeBindingMatches
  <2> QED BY <2>5, <2>13 DEF Stale, hasCloseInvalidation
\* A control of the ledger's own, appended to a readable ledger.
<1>c. ASSUME NEW kind \in {"close_finalized", "close_reopened"}, NEW q \in Periods, NEW time \in Recorded, NEW S,
             kind = "close_finalized" => S = Visible(rows, q, time) /\ MayBind(rows, q, time),
             rows' = rows \cup {NewControl(kind, q, time, S)}, authored \subseteq authored', raw' = raw,
             Readable(rows) \/ kind # "close_finalized" \/ q # p
      PROVE  Stale(rows', d)
  <2> DEFINE n == NewControl(kind, q, time, S)
  <2>1. /\ n.kind = kind /\ n.period = q /\ n.row = NextRow /\ n.occurredAt = q.end /\ n.recordedAt = time
        /\ n.kind # "entry"
    BY DEF NewControl
  <2>2. rows' = rows \cup {n} /\ (Written' = Written /\ Readable(rows) => Readable(rows'))
    BY <1>c, ControlStands
  <2> HIDE DEF n
  <2>3. time \in Nat /\ ~ Within(p.end, p)
    BY PeriodsAssumption, EndsOutside
  <2>4. CASE Written' = Written + 1
    BY <1>4, <1>c, <2>1, <2>2, <2>3, <2>4
  <2>5. CASE Written' = Written /\ \A x \in Of(rows, "close_finalized") : ~ Seen(x, n.occurredAt, n.recordedAt)
    <3>1. CASE Readable(rows)
      BY <1>1, <2>2, <2>5, <3>1
    <3>2. CASE kind # "close_finalized" \/ q # p
      BY <1>2, <1>c, <2>1, <2>2, <2>5, <3>2
    <3> QED BY <1>c, <3>1, <3>2
  <2> HIDE DEF Written
  <2> QED BY <1>c, <2>1, <2>2, <2>4, <2>5, ControlCounts
<1>r. ASSUME NEW time \in Recorded, NEW t \in Occurred, RawInsert(t, time)
      PROVE  Stale(rows', d)
  <2> DEFINE n == [row |-> NextRow, kind |-> "entry", occurredAt |-> t, recordedAt |-> time, sources |-> {}]
  <2>1. /\ rows' = rows \cup {n} /\ raw' = raw \cup {NextRow} /\ authored' = authored
        /\ n.kind = "entry" /\ n.row = NextRow /\ n.recordedAt \in Nat
    BY <1>r, PeriodsAssumption DEF RawInsert, Add
  <2> HIDE DEF n
  <2>2. Written' = Written + 1
    BY <2>1, EntryCounts
  <2> QED BY <1>4, <2>1, <2>2
<1>5. ASSUME NEW time \in Recorded, NEW q \in Periods, finalizePeriod(q, time)
      PROVE  Stale(rows', d)
  BY <1>c, <1>5 DEF finalizePeriod, Add
<1>6. ASSUME NEW time \in Recorded, NEW q \in Periods, reopenPeriod(q, time)
      PROVE  Stale(rows', d)
  BY <1>c, <1>6 DEF reopenPeriod, Add
<1>7. ASSUME NEW time \in Recorded, NEW x, recoverBrickedPeriod(x, time)
      PROVE  Stale(rows', d)
  BY <1>1, <1>7 DEF recoverBrickedPeriod, CanRecover
<1>8. ASSUME NEW time \in Recorded, NEW q \in Periods, AppendClose(q, time)
      PROVE  Stale(rows', d)
  <2> DEFINE n == NewControl("close_finalized", q, time, Visible(rows, q, time))
  <2>1. /\ rows' = rows \cup {n} /\ raw' = raw /\ authored' = authored \cup {NextRow}
        /\ n.kind = "close_finalized" /\ n.period = q /\ n.row = NextRow /\ n.occurredAt = q.end
    BY <1>8 DEF AppendClose, Add, NewControl
  <2> HIDE DEF n
  <2>2. q # p
    <3>1. q = p => n \in ControlsOf(rows', p)
      BY <2>1 DEF ControlsOf, Controls
    <3> QED BY <2>1, <3>1 DEF InOrder
  <2>3. MayBind(rows, q, time)
    BY <1>8 DEF AppendClose
  <2> QED BY <1>c, <2>1, <2>2, <2>3 DEF n
<1>9. ASSUME NEW time \in Recorded, NEW x \in Of(rows, "close_finalized"), AppendReopen(x, time)
      PROVE  Stale(rows', d)
  <2>1. x.period \in Periods
    BY Kinds
  <2> QED BY <1>c, <1>9, <2>1 DEF AppendReopen, Add
<1>10. CASE UNCHANGED vars
  BY <1>10 DEF vars, StaleTogether, InOrder, Written, Intruders, Backdated
<1> QED BY <1>3, <1>r, <1>5, <1>6, <1>7, <1>8, <1>9, <1>10 DEF Next

\* A recovery of an older close would leave the latest one stale, and the ledger
\* unreadable: it does not commit.
LEMMA StepRecoveries ==
    ASSUME TypeInv, NEW p \in Periods, StaleTogether(p), Recoveries(p), [Next]_vars
    PROVE  Recoveries(p)'
<1> SUFFICES ASSUME InOrder(p)', Written' <= 1 PROVE RecoversLatest(p)'
  BY DEF Recoveries
<1>1. CASE UNCHANGED vars
  BY <1>1 DEF vars, Recoveries, InOrder, Written, Intruders, Backdated, RecoversLatest
\* Of the new rows only a recovery says something about closes before it.
<1>2. ASSUME NEW n, rows' = rows \cup {n}, authored \subseteq authored', Written <= 1,
             n.row = NextRow, n.kind # "close_invalidated" \/ n.period # p
      PROVE  RecoversLatest(p)'
  <2>1. RecoversLatest(p)
    BY <1>2, InOrderBefore DEF Recoveries
  <2>2. \A r \in rows : r.row \in Nat /\ r.row < n.row
    BY <1>2, NextRowFresh
  <2>3. \A v \in ControlsOf(rows', p) : v.kind = "close_invalidated" => v \in ControlsOf(rows, p) /\ v \in rows
    BY <1>2 DEF ControlsOf, Controls
  <2>4. \A c \in Closes(rows', p) : c \in Closes(rows, p) \/ c = n
    BY <1>2 DEF Closes, Of
  <2>5. n.row \in Nat
    BY <1>2, NextRowFresh
  <2> QED BY <2>1, <2>2, <2>3, <2>4, <2>5 DEF RecoversLatest
<1>3. ASSUME NEW time \in Recorded, NEW x \in Of(rows, "close_finalized"), recoverBrickedPeriod(x, time)
      PROVE  RecoversLatest(p)'
  <2> DEFINE n == NewControl("close_invalidated", x.period, time, {x.row})
  <2>1. /\ rows' = rows \cup {n} /\ raw' = raw /\ authored' = authored
        /\ n.kind = "close_invalidated" /\ n.kind # "entry" /\ n.occurredAt = x.period.end /\ n.sources = {x.row}
        /\ n.row = NextRow /\ n.period = x.period
        /\ Readable(rows') /\ Stale(rows, x)
    BY <1>3 DEF recoverBrickedPeriod, CanRecover, Recovered, NewControl, Stale
  <2> HIDE DEF n
  <2>2. Written <= 1 /\ InOrder(p)
    <3>1. Written' = Written + 1 \/ Written' = Written
      BY <2>1, ControlCounts
    <3> QED BY <2>1, <3>1, InOrderBefore, CountsAreNumbers
  <2>3. CASE x.period # p
    BY <1>2, <2>1, <2>2, <2>3
  <2>4. CASE x.period = p
    <3>1. RecoversLatest(p) /\ x \in Closes(rows, p)
      BY <2>2, <2>4 DEF Recoveries, Closes
    <3>2. Closes(rows', p) = Closes(rows, p)
      BY <2>1 DEF Closes, Of
    <3>3. ASSUME NEW c \in Closes(rows, p), x.row < c.row PROVE FALSE
      <4>1. Stale(rows, c)
        BY <2>1, <2>2, <3>1, <3>3 DEF StaleTogether
      <4>2. ~ Within(n.occurredAt, p) /\ c.period = p
        BY <2>1, <2>4, EndsOutside DEF Closes
      <4>3. ~ closeBindingMatches(rows', c)
        BY <2>1, <4>1, <4>2, NotVisible DEF Stale, closeBindingMatches
      <4>4. x.row \in Nat /\ c.row \in Nat /\ x.row # c.row
        BY <3>1, <3>3, Kinds DEF Closes, Of
      <4>5. ~ hasCloseInvalidation(rows', c)
        BY <2>1, <4>1, <4>4 DEF Stale, hasCloseInvalidation, Of
      <4>6. c \in Of(rows', "close_finalized")
        BY <3>2 DEF Closes
      <4> QED BY <2>1, <4>3, <4>5, <4>6 DEF Readable, validateCloseEvent
    <3>4. \A c \in Closes(rows, p) : c.row \in Nat /\ x.row \in Nat /\ c.row <= x.row
      <4>1. \A c \in Closes(rows, p) : c.row \in Nat /\ x.row \in Nat
        BY <3>1, Kinds DEF Closes, Of
      <4> QED BY <3>3, <4>1
    <3>5. \A v \in ControlsOf(rows', p) : v \in ControlsOf(rows, p) \/ v = n
      BY <2>1 DEF ControlsOf, Controls
    <3> QED BY <2>1, <3>1, <3>2, <3>4, <3>5 DEF RecoversLatest
  <2> QED BY <2>3, <2>4
<1>4. ASSUME NEW time \in Recorded, NEW t \in Occurred, NEW S, AppendEntry(t, time, S)
      PROVE  RecoversLatest(p)'
  <2> DEFINE n == [row |-> NextRow, kind |-> "entry", occurredAt |-> t,
                   recordedAt |-> time, sources |-> {s.row : s \in S}]
  <2>1. rows' = rows \cup {n} /\ n.kind = "entry" /\ n.row = NextRow
    BY <1>4 DEF AppendEntry, Add
  <2> HIDE DEF n
  <2>2. authored' = authored /\ raw' = raw
    BY <1>4 DEF AppendEntry
  <2>3. Written' = Written
    BY <2>1, <2>2, EntryCounts
  <2> QED BY <1>2, <2>1, <2>2, <2>3
<1>5. ASSUME NEW time \in Recorded, NEW t \in Occurred, RawInsert(t, time)
      PROVE  RecoversLatest(p)'
  <2> DEFINE n == [row |-> NextRow, kind |-> "entry", occurredAt |-> t, recordedAt |-> time, sources |-> {}]
  <2>1. /\ rows' = rows \cup {n} /\ n.kind = "entry" /\ n.row = NextRow
        /\ authored' = authored /\ raw' = raw \cup {NextRow}
    BY <1>5 DEF RawInsert, Add
  <2> HIDE DEF n
  <2>2. Written' = Written + 1 /\ Written \in Nat
    BY <2>1, EntryCounts, CountsAreNumbers
  <2> QED BY <1>2, <2>1, <2>2
<1>6. ASSUME NEW kind \in {"close_finalized", "close_reopened"}, NEW q, NEW time, NEW S,
             rows' = rows \cup {NewControl(kind, q, time, S)}, authored \subseteq authored', raw' = raw
      PROVE  RecoversLatest(p)'
  <2> DEFINE n == NewControl(kind, q, time, S)
  <2>1. n.row = NextRow /\ n.kind \notin {"entry", "close_invalidated"}
    BY DEF NewControl
  <2>2. rows' = rows \cup {n}
    BY <1>6
  <2> HIDE DEF n
  <2>3. Written <= 1
    <3>1. Written' = Written + 1 \/ Written' = Written
      BY <1>6, <2>1, <2>2, ControlCounts
    <3> QED BY <3>1, CountsAreNumbers
  <2> QED BY <1>2, <1>6, <2>1, <2>2, <2>3
<1>7. ASSUME NEW time \in Recorded, NEW q \in Periods,
             finalizePeriod(q, time) \/ reopenPeriod(q, time) \/ AppendClose(q, time)
      PROVE  RecoversLatest(p)'
  BY <1>6, <1>7 DEF finalizePeriod, reopenPeriod, AppendClose, Add
<1>8. ASSUME NEW time \in Recorded, NEW x, AppendReopen(x, time)
      PROVE  RecoversLatest(p)'
  BY <1>6, <1>8 DEF AppendReopen, Add
<1> QED BY <1>1, <1>3, <1>4, <1>5, <1>7, <1>8 DEF Next

\* Every step keeps the three parts of the invariant.
LEMMA StepLast ==
    ASSUME TypeInv, StandInv, LastInv, [Next]_vars
    PROVE  LastInv'
<1> SUFFICES ASSUME NEW p \in Periods PROVE Told(p)' /\ StaleTogether(p)' /\ Recoveries(p)'
  BY DEF LastInv
<1> QED BY StepTold, StepStale, StepRecoveries DEF LastInv

\* Where the instants of a period's controls rise with their rows and the ledger
\* wrote them all, the replayed status is what the last of them made of it, for any
\* closes, reopenings and recoveries of any periods, consecutive and overlapping ones
\* included; up to one intruder this needs no condition on the recoveries.
THEOREM LastDecides == Spec => []LastControlDecides
<1>1. Init => TypeInv /\ StandInv /\ LastInv
  BY TypeInit, StandInit, InitLast
<1>2. TypeInv /\ StandInv /\ LastInv /\ [Next]_vars => (TypeInv /\ StandInv /\ LastInv)'
  BY TypeNext, StandNext, StepLast
<1>3. ASSUME LastInv PROVE LastControlDecides
  <2> SUFFICES ASSUME NEW p \in Periods, InOrder(p), Cardinality(Intruders) <= 1 \/ RecoversLatest(p)
               PROVE  LET C == ControlsOf(rows, p)
                          status == periodCloseStatus(rows, p).status
                      IN  IF C = {} THEN status = "open"
                          ELSE \E last \in C :
                                  /\ \A c \in C : c.row <= last.row
                                  /\ status = IF last.kind = "close_finalized" THEN "finalized" ELSE "reopened"
    BY DEF LastControlDecides
  <2>1. RecoversLatest(p) /\ Told(p)
    BY <1>3 DEF LastInv, Recoveries, Written
  <2> QED BY <2>1 DEF Told, Unclosed
<1>4. LastInv => LastControlDecides
  BY <1>3
<1> QED BY <1>1, <1>2, <1>4, PTL DEF Spec
=============================================================================
