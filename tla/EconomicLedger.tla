---------------------------- MODULE EconomicLedger ----------------------------
(***************************************************************************)
(* The append-only economic ledger, src/economics/ledger.ts: entries       *)
(* and the period lifecycle recorded among them.  Every operation is one   *)
(* BEGIN IMMEDIATE transaction, so one step.  A row is known by its rowid; *)
(* what it says never changes, so a close's projection digest stands for   *)
(* the set of rows it binds.  An entry (any kind but a close control) has  *)
(* the time it happened and the time it was recorded, both the caller's.   *)
(* An append of a row already there changes nothing and is left out.       *)
(***************************************************************************)
EXTENDS Naturals, FiniteSets, SequencesExt

CONSTANTS Periods,   \* half-open periods [start, end] that get closed
          Occurred,  \* bound: instants at which something happened
          Recorded,  \* bound: instants callers give as recordedAt
          MaxRows,   \* bound on the rows of the ledger
          MaxEntries,   \* bound on the rows that are entries
          MaxAuthored,  \* bound on close controls that come through append
          MaxRaw     \* bound on rows written around the ledger

ASSUME PeriodsAssumption ==
    /\ Periods \subseteq [start : Nat, end : Nat]
    /\ Occurred \subseteq Nat /\ Recorded \subseteq Nat
    /\ {MaxRows, MaxEntries, MaxAuthored, MaxRaw} \subseteq Nat

VARIABLES rows,      \* the table economic_events with its source links
          authored,  \* history: rowids of close controls that came through append
          raw        \* history: rowids of rows written around the ledger

vars == <<rows, authored, raw>>

ControlKinds == {"close_finalized", "close_reopened", "close_invalidated"}
Entry == [row : Nat, kind : {"entry"}, occurredAt : Nat, recordedAt : Nat, sources : SUBSET Nat]
Control == [row : Nat, kind : ControlKinds, occurredAt : Nat, recordedAt : Nat,
            sources : SUBSET Nat, period : Periods]

NextRow == Cardinality(rows) + 1
Controls(E) == {e \in E : e.kind # "entry"}
Of(E, kind) == {e \in E : e.kind = kind}
ControlsOf(E, p) == {c \in Controls(E) : c.period = p}
Closes(E, p) == {e \in Of(E, "close_finalized") : e.period = p}
Within(time, p) == p.start <= time /\ time < p.end
-----------------------------------------------------------------------------
(* Whether a stored close still says what the ledger holds. *)

\* The rows a close of p recorded at `time` has to bind, controls of other periods included.
Visible(E, p, time) == {e.row : e \in {f \in E : Within(f.occurredAt, p) /\ f.recordedAt <= time}}

closeBindingMatches(E, c) == c.sources = Visible(E, c.period, c.recordedAt)
hasCloseInvalidation(E, c) == \E v \in Of(E, "close_invalidated") : v.sources = {c.row}
BindsControl(E, c) == \E e \in Controls(E) : e.row \in c.sources

validateCloseEvent(E, c) ==
    IF hasCloseInvalidation(E, c)
    THEN ~ closeBindingMatches(E, c)
    ELSE closeBindingMatches(E, c) /\ ~ BindsControl(E, c)

\* events() returns: it validates every row, and only a close can fail by rows added later.
Readable(E) == \A c \in Of(E, "close_finalized") : validateCloseEvent(E, c)
-----------------------------------------------------------------------------
(* periodCloseStatus: the fold over a period's controls as recorded. *)

\* ORDER BY recorded_at, event_id: `economic:close-invalidation:` sorts before
\* `economic:close:`, that before `economic:reopen:`, and numbers count up.
IdRank(kind) == CASE kind = "close_invalidated" -> 0
                  [] kind = "close_finalized" -> 1
                  [] kind = "close_reopened" -> 2

RecordedBefore(c, d) ==
    \/ c.recordedAt < d.recordedAt
    \/ c.recordedAt = d.recordedAt /\ IdRank(c.kind) < IdRank(d.kind)
    \/ c.recordedAt = d.recordedAt /\ c.kind = d.kind /\ c.row < d.row

AsRecorded(C) ==
    [i \in 1 .. Cardinality(C) |->
        CHOOSE c \in C : Cardinality({d \in C : RecordedBefore(d, c)}) = i - 1]

Unclosed == [status |-> "open", active |-> 0, latest |-> 0]

\* A period's state after one more control.  `active` and `latest` are rowids, 0 is null.
Follow(s, c) ==
    CASE c.kind = "close_finalized" ->
           IF s.status \in {"finalized", "conflicted"}
           THEN [status |-> "conflicted", active |-> s.active, latest |-> c.row]
           ELSE [status |-> "finalized", active |-> c.row, latest |-> c.row]
      [] c.kind = "close_reopened" ->
           IF s.status = "finalized" /\ c.sources = {s.active}
           THEN [status |-> "reopened", active |-> 0, latest |-> s.latest]
           ELSE [s EXCEPT !.status = "conflicted"]
      [] c.kind = "close_invalidated" ->
           IF c.sources = {s.latest}
           THEN [status |-> "reopened", active |-> 0, latest |-> s.latest]
           ELSE [s EXCEPT !.status = "conflicted"]

periodCloseStatus(E, p) ==
    FoldLeft(Follow, Unclosed, AsRecorded(ControlsOf(E, p)))

Closed(E, p) == periodCloseStatus(E, p).status \in {"finalized", "conflicted"}
-----------------------------------------------------------------------------
Init == rows = {} /\ authored = {} /\ raw = {}

Add(e) == rows' = rows \cup {e}
NewControl(kind, p, time, sources) ==
    [row |-> NextRow, kind |-> kind, occurredAt |-> p.end, recordedAt |-> time,
     sources |-> sources, period |-> p]

\* Only the period's state now is asked, as before the rule about recordedAt.
assertPeriodOpenForEvent_StateOnly(times, recordedAt) ==
    Readable(rows) /\ \A p \in {c.period : c \in Controls(rows)} :
        (\E t \in times : Within(t, p)) => ~ Closed(rows, p)

\* assertPeriodOpenForEvent: an entry whose time, or a source's, lies in a closed
\* period waits for a reopening; in a period ever closed, recordedAt may not be
\* at or before any of its closes.
assertPeriodOpenForEvent(times, recordedAt) ==
    Controls(rows) # {} =>
        /\ Readable(rows)
        /\ \A p \in {c.period : c \in Controls(rows)} :
             (\E t \in times : Within(t, p)) =>
                /\ ~ Closed(rows, p)
                /\ \A c \in Closes(rows, p) : recordedAt > c.recordedAt

\* A dependent entry asks for its own time only.
AppendEntry_OwnTime(occurredAt, recordedAt, S) ==
    /\ \A s \in S : s.recordedAt <= recordedAt
    /\ assertPeriodOpenForEvent({occurredAt}, recordedAt)
    /\ Add([row |-> NextRow, kind |-> "entry", occurredAt |-> occurredAt,
            recordedAt |-> recordedAt, sources |-> {s.row : s \in S}])
    /\ UNCHANGED <<authored, raw>>

\* append and appendWithinTransaction of an entry.
AppendEntry(occurredAt, recordedAt, S) ==
    /\ \A s \in S : s.recordedAt <= recordedAt
    /\ assertPeriodOpenForEvent({occurredAt} \cup {s.occurredAt : s \in S}, recordedAt)
    /\ Add([row |-> NextRow, kind |-> "entry", occurredAt |-> occurredAt,
            recordedAt |-> recordedAt, sources |-> {s.row : s \in S}])
    /\ UNCHANGED <<authored, raw>>

\* What finalizePeriod asks besides the period's state: its own row has to be valid.
MayBind(E, p, time) == \A e \in Controls(E) : e.row \notin Visible(E, p, time)

finalizePeriod_AnyState(p, time) ==
    /\ time >= p.end /\ Readable(rows) /\ MayBind(rows, p, time)
    /\ Add(NewControl("close_finalized", p, time, Visible(rows, p, time)))
    /\ UNCHANGED <<authored, raw>>

finalizePeriod(p, time) ==
    /\ time >= p.end
    /\ Readable(rows)
    /\ ~ Closed(rows, p)
    /\ MayBind(rows, p, time)
    /\ Add(NewControl("close_finalized", p, time, Visible(rows, p, time)))
    /\ UNCHANGED <<authored, raw>>

reopenPeriod(p, time) ==
    LET state == periodCloseStatus(rows, p) IN
    /\ time >= p.end
    /\ Readable(rows)
    /\ state.status = "finalized"
    /\ \E c \in Closes(rows, p) : c.row = state.active /\ c.recordedAt <= time
    /\ Add(NewControl("close_reopened", p, time, {state.active}))
    /\ UNCHANGED <<authored, raw>>

\* recoverBrickedPeriod: the commit gate is that the whole ledger reads again.
Recovered(c, time) == rows \cup {NewControl("close_invalidated", c.period, time, {c.row})}
CanRecover(c, time) ==
    /\ time >= c.period.end /\ time >= c.recordedAt
    /\ ~ hasCloseInvalidation(rows, c)
    /\ ~ closeBindingMatches(rows, c)
    /\ Readable(Recovered(c, time))

recoverBrickedPeriod(c, time) ==
    /\ CanRecover(c, time)
    /\ rows' = Recovered(c, time)
    /\ UNCHANGED <<authored, raw>>

\* append of a close control another author wrote: valid on its own, whatever the state.
AppendClose(p, time) ==
    /\ time >= p.end
    /\ MayBind(rows, p, time)
    /\ Add(NewControl("close_finalized", p, time, Visible(rows, p, time)))
    /\ authored' = authored \cup {NextRow}
    /\ UNCHANGED raw

AppendReopen(c, time) ==
    /\ time >= c.period.end /\ time >= c.recordedAt
    /\ validateCloseEvent(rows, c)
    /\ Add(NewControl("close_reopened", c.period, time, {c.row}))
    /\ authored' = authored \cup {NextRow}
    /\ UNCHANGED raw

\* A canonical row written by an earlier release or by SQLite tooling: no guard runs.
RawInsert(occurredAt, recordedAt) ==
    /\ Add([row |-> NextRow, kind |-> "entry", occurredAt |-> occurredAt,
            recordedAt |-> recordedAt, sources |-> {}])
    /\ raw' = raw \cup {NextRow}
    /\ UNCHANGED authored

Room == NextRow <= MaxRows
Next ==
    /\ Room
    /\ \E time \in Recorded :
         \/ \E t \in Occurred :
              /\ Cardinality(Of(rows, "entry")) < MaxEntries
              /\ \/ \E S \in {{}} \cup {{s} : s \in Of(rows, "entry")} : AppendEntry(t, time, S)
                 \/ Cardinality(raw) < MaxRaw /\ RawInsert(t, time)
         \/ \E p \in Periods :
              \/ finalizePeriod(p, time)
              \/ reopenPeriod(p, time)
              \/ Cardinality(authored) < MaxAuthored /\ AppendClose(p, time)
         \/ \E c \in Of(rows, "close_finalized") :
              \/ recoverBrickedPeriod(c, time)
              \/ Cardinality(authored) < MaxAuthored /\ AppendReopen(c, time)

Spec == Init /\ [][Next]_vars
-----------------------------------------------------------------------------
TypeOK ==
    /\ rows \subseteq Entry \cup Control
    /\ \A d, e \in rows : d.row = e.row => d = e
    /\ \A e \in rows : \A s \in e.sources : \E d \in rows : d.row = s /\ d.row < e.row
    /\ authored \subseteq {c.row : c \in Controls(rows)} /\ raw \subseteq {e.row : e \in rows}

\* Rows the ledger does not refuse although they change what a close has to bind: those
\* written around it, and controls of a neighbouring period that end inside the closed
\* one and are recorded, after its close, for an instant at or before it.
Falsifies(d, c) == c.row < d.row /\ Within(d.occurredAt, c.period) /\ d.recordedAt <= c.recordedAt
Backdated == {d.row : d \in {e \in Controls(rows) : \E c \in Of(rows, "close_finalized") : Falsifies(e, c)}}
Intruders == raw \cup Backdated

\* Every recorded close stays verifiable, whatever recordedAt values the callers of append
\* pass: the ledger reads, and reads again for good once each intruder was dealt with by a
\* recovery (ledger.ts:1017-1040 tells of the append that broke this for ever).
EveryCloseStands ==
    Cardinality(Of(rows, "close_invalidated")) >= Cardinality(Intruders) => Readable(rows)

\* The same without exception for controls, which the code does not guarantee.
NeighboursKeepCloses ==
    Cardinality(Of(rows, "close_invalidated")) >= Cardinality(raw) => Readable(rows)

\* The controls of a period were recorded one after the other and by the ledger itself.
InOrder(p) ==
    /\ \A c, d \in ControlsOf(rows, p) : c.row < d.row => c.recordedAt < d.recordedAt
    /\ \A c \in ControlsOf(rows, p) : c.row \notin authored

\* Every recovery was of the period's latest close then.
RecoversLatest(p) ==
    \A v \in ControlsOf(rows, p), c \in Closes(rows, p) :
        v.kind = "close_invalidated" /\ c.row < v.row => \E s \in v.sources : c.row <= s

\* Where no clock ran backwards or stood still and nobody else wrote controls, the
\* replayed status is what the last operation on the period made of it, and never
\* "conflicted", however closes, reopenings and recoveries follow each other.  The
\* exception is a recovery of an older close, which takes two intruders: one for
\* the latest close, recovered first, and one for the older.
LastControlDecides ==
    \A p \in Periods : InOrder(p) /\ (Cardinality(Intruders) <= 1 \/ RecoversLatest(p)) =>
        LET C == ControlsOf(rows, p)
            status == periodCloseStatus(rows, p).status
        IN  IF C = {} THEN status = "open"
            ELSE \E last \in C :
                    /\ \A c \in C : c.row <= last.row
                    /\ status = IF last.kind = "close_finalized" THEN "finalized" ELSE "reopened"

Touches(e, p) ==
    \E d \in rows : (d = e \/ d.row \in e.sources) /\ Within(d.occurredAt, p)

\* Evidence about a period, its own or its source's time inside, that is appended
\* after a close of the period was appended after a reopening or a recovery of it.
LateEvidenceAfterReopen ==
    \A c \in Of(rows, "close_finalized"), e \in Of(rows, "entry") :
        c.row < e.row /\ Touches(e, c.period) /\ e.row \notin raw /\ InOrder(c.period) =>
            \E r \in ControlsOf(rows, c.period) \ Closes(rows, c.period) :
                c.row < r.row /\ r.row < e.row

\* CONTEXT.md: a finalization binds every non-control event; so a period that is over,
\* not closed and in a readable ledger can be closed now, whatever was closed before.
OpenPeriodCloses ==
    \A p \in Periods, time \in Recorded :
        time >= p.end /\ Readable(rows) /\ ~ Closed(rows, p) => MayBind(rows, p, time)

\* A ledger that no longer reads can be recovered: some close may be invalidated.
BrickedIsRecoverable ==
    ~ Readable(rows) => \E c \in Of(rows, "close_finalized"), time \in Recorded : CanRecover(c, time)
=============================================================================
