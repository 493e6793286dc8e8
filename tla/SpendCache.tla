----------------------------- MODULE SpendCache ------------------------------
(***************************************************************************)
(* The exact-spend cache of Store (src/store/db.ts, cachedExactSpend       *)
(* and what it calls) with AppendMark (src/util/statements.ts).  One       *)
(* process, the proxy, keeps the projection of one scope (the budget day   *)
(* or a session) and extends it by what was appended since.  Other         *)
(* processes (imports, a second proxy, reprice, prune) commit to the same  *)
(* SQLite file.  A read is a sequence of statements outside a transaction, *)
(* so a foreign commit may fall between any two of them; the process' own  *)
(* inserts cannot, its code is synchronous.                                *)
(*                                                                         *)
(* Every exact charge is worth 1 and a correction moves it by -1 or 1.     *)
(* The 64-entry eviction is left out: it only forces a full read.          *)
(***************************************************************************)
EXTENDS Integers, FiniteSets, Sequences, FiniteSetsExt, Functions

CONSTANTS Absent,
          FullCountReuse,   \* FULL_COUNT_REUSE_MS
          FullReproject,    \* FULL_REPROJECT_MS
          MaxClock, MaxRows, MaxCorrections, MaxPrunes,
          MaxIntrusions,    \* commits of others inside one read
          Ages              \* which rows importers add: recent ones (FALSE), old ones

ASSUME BoundsAssumption ==
    {FullCountReuse, FullReproject, MaxClock, MaxRows, MaxCorrections, MaxPrunes, MaxIntrusions} \subseteq Nat
ASSUME AgesAssumption == Ages \subseteq BOOLEAN

VARIABLES clock,
          table,    \* requests: rowid -> [id, scoped, old]
          issued,   \* how many requests were ever inserted; their ids
          events,   \* economic_events by rowid: [kind, id, delta, scoped]
          foreign,  \* commits of other connections, PRAGMA data_version
          prunes,   \* prunes so far
          base,     \* the two AppendMarks: "events", "requests" -> base or Absent
          cache,    \* the cached entry, or Absent
          pc,       \* the next statement of the read under way
          read,     \* what it has read so far
          taint     \* history: what other connections did to the read and to the cached entry

dbVars == <<table, issued, events, foreign, prunes>>
cacheVars == <<clock, dbVars, base, cache, pc, read, taint>>

Tables == {"events", "requests"}
Idle == [start |-> 0, version |-> 0, max |-> 0, mark |-> [t \in Tables |-> Absent],
         ids |-> {}, charges |-> {}, rows |-> {}, result |-> Absent]
-----------------------------------------------------------------------------
(* The database *)

RowIds(t) == IF t = "requests" THEN DOMAIN table ELSE DOMAIN events
MaxRowId(t) == IF RowIds(t) = {} THEN 0 ELSE Max(RowIds(t))
After(t, rowid) == {i \in RowIds(t) : i > rowid}

\* Charges of the scope with ids in S, and what they are worth after corrections.
ChargesOf(S) == {events[i].id : i \in {j \in S : events[j].kind = "charge" /\ events[j].scoped}}
Effective(id) ==
    1 + MapThenSumSet(LAMBDA i : events[i].delta,
                      {i \in DOMAIN events : events[i].kind = "price_corrected" /\ events[i].id = id})

\* exactSpendFromRows: rows without a charge are unresolved.
Project(ids, charges) ==
    [amount |-> MapThenSumSet(Effective, ids \cap charges),
     requests |-> Cardinality(ids), unresolved |-> Cardinality(ids \ charges)]

ScopedRows(S) == {table[i].id : i \in {j \in S : table[j].scoped}}

\* The projection of the whole scope, as it stands.
Full == Project(ScopedRows(DOMAIN table), ChargesOf(DOMAIN events))

Insert(scoped, old, priced) ==
    /\ issued < MaxRows
    /\ issued' = issued + 1
    /\ table' = [i \in DOMAIN table \cup {MaxRowId("requests") + 1} |->
                   IF i \in DOMAIN table THEN table[i]
                   ELSE [id |-> issued', scoped |-> scoped, old |-> old]]
    /\ events' = IF priced
                 THEN Append(events, [kind |-> "charge", id |-> issued', delta |-> 0, scoped |-> scoped])
                 ELSE events

\* The proxy's own rows are recent.
OwnInsert ==
    /\ pc = "idle"
    /\ \E scoped, priced \in BOOLEAN : Insert(scoped, FALSE, priced)
    /\ UNCHANGED <<clock, foreign, prunes, base, cache, pc, read, taint>>

\* A commit of another connection, between two reads or between two statements of one.
\* What fell inside a read is noted in taint, and so is, for the cached entry, that rows
\* it was projected from may be gone.
Foreign(effects) ==
    /\ pc # "idle" => foreign < read.start + MaxIntrusions
    /\ foreign' = foreign + 1
    /\ taint' = [read  |-> IF pc = "idle" THEN {} ELSE taint.read \cup {"commit"} \cup effects,
                 cache |-> taint.cache \cup (effects \cap {"removal"})]
    /\ UNCHANGED <<clock, base, cache, pc, read>>

\* Another proxy, or an importer, whose rows may be old.
ForeignInsert ==
    /\ Foreign({})
    /\ \E scoped, priced \in BOOLEAN, old \in Ages : Insert(scoped, old, priced)
    /\ UNCHANGED prunes

Corrections == {i \in DOMAIN events : events[i].kind = "price_corrected"}

\* reprice --apply: one correction per charge of a row that still exists.
RepriceApply ==
    /\ Foreign({})
    /\ Cardinality(Corrections) < MaxCorrections
    /\ \E id \in ScopedRows(DOMAIN table) \cap ChargesOf(DOMAIN events), d \in {-1, 1} :
          /\ \A i \in Corrections : events[i].id # id
          /\ events' = Append(events, [kind |-> "price_corrected", id |-> id, delta |-> d, scoped |-> TRUE])
    /\ UNCHANGED <<table, issued, prunes>>

\* segreant prune: the old rows are deleted; charge events stay.
Prune ==
    /\ Foreign({"removal"})
    /\ prunes < MaxPrunes
    /\ prunes' = prunes + 1
    /\ table' = Restrict(table, {i \in DOMAIN table : ~ table[i].old})
    /\ UNCHANGED <<issued, events>>

\* VACUUM after a prune may renumber the remaining rows.
Vacuum ==
    /\ Foreign({"removal", "renumbering"})
    /\ prunes > 0
    /\ DOMAIN table # 1 .. Cardinality(DOMAIN table)
    /\ table' = [n \in 1 .. Cardinality(DOMAIN table) |->
                   table[CHOOSE i \in DOMAIN table : Cardinality({j \in DOMAIN table : j <= i}) = n]]
    /\ UNCHANGED <<issued, events, prunes>>

ClockTick == clock < MaxClock /\ clock' = clock + 1 /\ UNCHANGED <<dbVars, base, cache, pc, read, taint>>
-----------------------------------------------------------------------------
(* A read: cachedExactSpend, statement by statement *)

Go(next, r) == pc' = next /\ read' = r /\ UNCHANGED <<clock, dbVars>>

Start == pc = "idle" /\ Go("events_version", [Idle EXCEPT !.start = foreign]) /\ UNCHANGED <<base, cache, taint>>

\* AppendMark.read of the two tables, the events first.
MarkSteps ==
    [events   |-> [version |-> "events_version", max |-> "events_max", count |-> "events_count"],
     requests |-> [version |-> "requests_version", max |-> "requests_max", count |-> "requests_count"]]
Step(t, s) == pc = MarkSteps[t][s]

ReadVersion(t) ==
    /\ Step(t, "version")
    /\ Go(MarkSteps[t].max, [read EXCEPT !.version = foreign])
    /\ UNCHANGED <<base, cache, taint>>

ReadMax(t) ==
    /\ Step(t, "max")
    /\ Go(MarkSteps[t].count, [read EXCEPT !.max = MaxRowId(t)])
    /\ UNCHANGED <<base, cache, taint>>

AfterMark(t) == IF t = "events" THEN "requests_version" ELSE "serve"

FullCount(t) ==
    LET b == [rowid |-> MaxRowId(t), count |-> Cardinality(RowIds(t)), at |-> clock, version |-> read.version]
    IN  /\ base' = [base EXCEPT ![t] = b]
        /\ Go(AfterMark(t), [read EXCEPT !.mark = [@ EXCEPT ![t] = [rowid |-> b.rowid, count |-> b.count]]])
        /\ UNCHANGED <<cache, taint>>

\* The base still stands: recent, no foreign commit since, no lower rowid.
Usable(b) ==
    /\ b # Absent
    /\ clock - b.at < FullCountReuse /\ clock >= b.at
    /\ read.version = b.version
    /\ read.max >= b.rowid

Recount(t) == Step(t, "count") /\ ~ Usable(base[t]) /\ FullCount(t)

\* In between, the rows above the base's rowid are counted.
CountSince(t) ==
    /\ Step(t, "count")
    /\ Usable(base[t])
    /\ Go(AfterMark(t),
          [read EXCEPT !.mark = [@ EXCEPT ![t] =
              [rowid |-> read.max, count |-> base[t].count + Cardinality(After(t, base[t].rowid))]]])
    /\ UNCHANGED <<base, cache, taint>>

Fresh == cache # Absent /\ clock - cache.at < FullReproject

\* Nothing was appended or removed: the cached projection stands.
ServeCached ==
    /\ pc = "serve"
    /\ Fresh /\ cache.mark = read.mark
    /\ Go("done", [read EXCEPT !.result = cache.projection])
    /\ UNCHANGED <<base, cache, taint>>

\* Too old or absent: rebuild.
Expired ==
    /\ pc = "serve"
    /\ ~ Fresh
    /\ Go("full_rows", read)
    /\ UNCHANGED <<base, cache, taint>>

Appended(t) == read.mark[t].count - cache.mark[t].count

OnlyCharges_AnyKind(S) == TRUE
OnlyCharges(S) == \A i \in S : events[i].kind = "charge"

\* appendedAfter: every appended event is accounted for and is a plain charge.
CheckEvents ==
    /\ pc = "serve"
    /\ Fresh /\ cache.mark # read.mark
    /\ LET new == After("events", cache.mark["events"].rowid)
       IN  Go(IF Cardinality(new) = Appended("events") /\ OnlyCharges(new)
              THEN "ids" ELSE "full_rows", read)
    /\ UNCHANGED <<base, cache, taint>>

\* The ids appended since the cached mark; a deletion shows in their number.
ListIds ==
    /\ pc = "ids"
    /\ LET new == After("requests", cache.mark["requests"].rowid)
       IN  Go(IF Cardinality(new) = Appended("requests") THEN "charges" ELSE "full_rows",
              [read EXCEPT !.ids = {table[i].id : i \in new}])
    /\ UNCHANGED <<base, cache, taint>>

NewCharges_Unchecked(new, ids) == TRUE

\* A charge of a request that the cache counted already needs a rebuild.
NewCharges(new, ids) == new \subseteq ids

ListCharges ==
    /\ pc = "charges"
    /\ LET new == ChargesOf(After("events", cache.mark["events"].rowid))
       IN  IF NewCharges(new, read.ids) THEN Go("rows", [read EXCEPT !.charges = new])
                                        ELSE Go("full_rows", [read EXCEPT !.ids = {}])
    /\ UNCHANGED <<base, cache, taint>>

ListRows ==
    /\ pc = "rows"
    /\ Go("extend", [read EXCEPT !.rows = ScopedRows(After("requests", cache.mark["requests"].rowid))])
    /\ UNCHANGED <<base, cache, taint>>

Plus(p, q) == [amount |-> p.amount + q.amount, requests |-> p.requests + q.requests,
               unresolved |-> p.unresolved + q.unresolved]

\* effectiveChargesFor the new rows; the sum becomes the cached projection.
Extend ==
    /\ pc = "extend"
    /\ LET p == Plus(cache.projection, Project(read.rows, read.charges))
       IN  /\ cache' = [mark |-> read.mark, projection |-> p, at |-> cache.at]
           /\ Go("done", [read EXCEPT !.result = p])
    /\ taint' = [taint EXCEPT !.cache = @ \cup taint.read]
    /\ UNCHANGED base

FullRows ==
    /\ pc = "full_rows"
    /\ Go("full_events", [read EXCEPT !.rows = ScopedRows(DOMAIN table), !.ids = {}, !.charges = {}])
    /\ UNCHANGED <<base, cache, taint>>

FullEvents ==
    /\ pc = "full_events"
    /\ Go("rebuild", [read EXCEPT !.charges = ChargesOf(DOMAIN events)])
    /\ UNCHANGED <<base, cache, taint>>

Rebuild ==
    /\ pc = "rebuild"
    /\ LET p == Project(read.rows, read.charges)
       IN  /\ cache' = [mark |-> read.mark, projection |-> p, at |-> clock]
           /\ Go("done", [read EXCEPT !.result = p])
    /\ taint' = [taint EXCEPT !.cache = taint.read]
    /\ UNCHANGED base

Return ==
    /\ pc = "done"
    /\ Go("idle", Idle)
    /\ taint' = [taint EXCEPT !.read = {}]
    /\ UNCHANGED <<base, cache>>

Read ==
    \/ Start \/ ServeCached \/ Expired \/ CheckEvents \/ ListIds \/ ListCharges
    \/ ListRows \/ Extend \/ FullRows \/ FullEvents \/ Rebuild \/ Return
    \/ \E t \in Tables : ReadVersion(t) \/ ReadMax(t) \/ Recount(t) \/ CountSince(t)

CacheInit ==
    /\ clock = 0
    /\ table = <<>> /\ issued = 0 /\ events = <<>> /\ foreign = 0 /\ prunes = 0
    /\ base = [t \in Tables |-> Absent]
    /\ cache = Absent
    /\ pc = "idle" /\ read = Idle /\ taint = [read |-> {}, cache |-> {}]

CacheNext ==
    \/ OwnInsert \/ ForeignInsert \/ RepriceApply \/ Prune \/ Vacuum
    \/ (pc = "idle" /\ ClockTick)
    \/ Read

CacheSpec == CacheInit /\ [][CacheNext]_cacheVars
-----------------------------------------------------------------------------
Projections == [amount : Nat, requests : Nat, unresolved : Nat]

Taints == SUBSET {"commit", "removal", "renumbering"}

\* Types; a mark never counts more rows than were inserted; a read was disturbed
\* exactly when the version of the database has moved on since it began.
CacheTypeOK ==
    /\ clock \in 0 .. MaxClock /\ foreign \in Nat /\ prunes \in 0 .. MaxPrunes
    /\ DOMAIN table \subseteq 1 .. MaxRows /\ issued \in 0 .. MaxRows
    /\ \A i \in DOMAIN table : table[i].id \in 1 .. issued
    /\ cache # Absent => cache.projection \in Projections /\ cache.at \in 0 .. clock
    /\ taint \in [read : Taints, cache : Taints]
    /\ pc # "idle" => (taint.read = {} <=> read.start = foreign)

\* A read during which nobody else committed.
Quiet == pc = "done" /\ read.start = foreign

\* extendExactSpend: "or return null when that would not equal a full
\* re-projection": what a quiet read returns is the projection of the whole scope.
ProjectionIsFull == Quiet => read.result = Full

\* The same of the entries that were put together undisturbed: if no commit fell inside
\* the reads that built the cached projection, and none of the rows in it was removed
\* since, a quiet read is exact, through extensions, corrections, reused counts, rows
\* that come back at an old rowid, and rebuilds.
UndisturbedIsFull == Quiet /\ taint.cache = {} => read.result = Full

\* statements.ts: what a cached figure misses "overstates spend: the safe side for
\* a cap".  A quiet read never returns less effective spend than the ledger holds.
NeverLess == Quiet => read.result.amount >= Full.amount

\* That holds whoever committed, inserted, corrected or pruned, between the reads the
\* cached projection was built from or inside them, except that no VACUUM renumbered
\* the rows inside one.
NeverShort == Quiet /\ "renumbering" \notin taint.cache => read.result.amount >= Full.amount

\* A projection that claims to be complete is: the guard then trusts it alone.
CompleteIsComplete == Quiet /\ read.result.unresolved = 0 => Full.unresolved = 0
=============================================================================
