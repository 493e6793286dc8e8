---------------------------- MODULE ProxyMetering ----------------------------
(***************************************************************************)
(* The metering proxy: handle() of src/proxy/server.ts with the budget     *)
(* guard of src/budget/guard.ts over the request ledger.  handle() runs     *)
(* on one event loop and gives it up at three awaits, so a request is at   *)
(* one of four points: not arrived, reading its body, dialing the provider *)
(* (egressFetch), receiving the answer.  Between two awaits nothing else   *)
(* runs: evaluating the budget and admitting is one step, the admitted     *)
(* request's cost is written two awaits later.                             *)
(*                                                                         *)
(* A row is [ts, cost, priced, estimated].  A priced row has an exact      *)
(* charge event; the store refuses one whose float disagrees with it and   *)
(* a reprice replaces both (store/realization.ts), so one number stands    *)
(* for both.  Soft caps, headers, proposals and token counting are left    *)
(* out: none of them changes what is admitted or written.                  *)
(***************************************************************************)
EXTENDS Integers, FiniteSets, FiniteSetsExt

CONSTANTS Requests,      \* the requests clients send
          Imports,       \* rows an importer may add (via = 'import')
          Sessions,      \* the session ids clients declare
          SessionOf,     \* the session of each request, or NoSession
          NoSession, None, Unset,
          Costs,         \* what an answered request may cost
          Pricings,      \* how it may be priced: <<exactly, by an estimate>>
          Configs,       \* the budgets the operator may save
          Midnights,     \* when the local days start, 0 among them
          DayMs,         \* 24 h
          WindowMs,      \* runawayWindowSec
          MaxTime, MaxFaults, MaxEdits, MaxRestarts

ASSUME CostsAssumption == Costs \subseteq Nat /\ Pricings \subseteq BOOLEAN \X BOOLEAN
ASSUME TimeAssumption ==
    /\ Midnights \subseteq Nat /\ 0 \in Midnights
    /\ {DayMs, WindowMs} \subseteq Nat \ {0}
    /\ {MaxTime, MaxFaults, MaxEdits, MaxRestarts} \subseteq Nat
ASSUME SessionAssumption == NoSession \notin Sessions /\ SessionOf \in [Requests \cup Imports -> Sessions \cup {NoSession}]
ASSUME ConfigsAssumption ==
    Configs \subseteq [daily : Nat \cup {Unset}, session : Nat \cup {Unset},
                       runaway : Nat \cup {Unset}, includeImported : BOOLEAN]

RowType == [ts : Nat, cost : Nat, priced : BOOLEAN, estimated : BOOLEAN]
Admission == [at : Nat, turn : Nat, beside : SUBSET Requests]

ASSUME NamesAssumption ==
    /\ IsFiniteSet(Requests) /\ IsFiniteSet(Imports) /\ Requests \cap Imports = {}
    /\ Unset \notin Nat /\ None \notin RowType /\ None \notin Admission

VARIABLES now,        \* Date.now()
          config,     \* the live budget, shared with the dashboard's settings
          rows,       \* the requests table: request or import -> row, or None
          stage,      \* how far handle() has come with each request
          startedAt,  \* Date.now() at entry, the ts of the row
          latch,      \* state.accountingFailure
          faults, edits, restarts,
          admitted,   \* history: when, in which turn and beside whom it was admitted
          ended       \* history: what this process had finished when it arrived

ghostVars == <<admitted, ended>>
boundVars == <<faults, edits, restarts>>
vars == <<now, config, rows, stage, startedAt, latch, boundVars, ghostVars>>

InFlight == {r \in Requests : stage[r] \in {"dialing", "receiving"}}
Finished == {r \in Requests : stage[r] \in {"blocked", "failed", "delivered", "broken"}}
-----------------------------------------------------------------------------
(* The guard *)

\* Rows a cap counts: by default only what arrived through the proxy.
Live(c) == {x \in (IF c.includeImported THEN Requests \cup Imports ELSE Requests) : rows[x] # None}

\* ts_epoch_ms >= lo AND ts_epoch_ms < hi
Between(c, lo, hi) == {x \in Live(c) : rows[x].ts \in lo .. hi - 1}
OfSession(c, s) == {x \in Live(c) : SessionOf[x] = s}

Total(S) == MapThenSumSet(LAMBDA x : rows[x].cost, S)

startOfLocalDay(t) == Max({m \in Midnights : m <= t})
endOfLocalDay(t) == startOfLocalDay(t) + DayMs

Enforced_ResolvedOnly(S) == Total({x \in S : rows[x].priced})

\* resolveEnforcedSpend: the exact projection when every row resolved, otherwise
\* the larger of what resolved and the float column.
Enforced(S) ==
    LET resolved == {x \in S : rows[x].priced}
    IN  IF resolved = S THEN Total(resolved) ELSE Max({Total(resolved), Total(S)})

Reached(S, cap) == cap # Unset /\ Enforced(S) >= cap

\* evaluate(): daily cap, session cap, runaway window; any of them blocks.
Blocked(r) ==
    \/ Reached(Between(config, startOfLocalDay(now), endOfLocalDay(now)), config.daily)
    \/ SessionOf[r] # NoSession /\ Reached(OfSession(config, SessionOf[r]), config.session)
    \/ Reached(Between(config, now - WindowMs, now + 1), config.runaway)
-----------------------------------------------------------------------------
(* The ledger *)

Row(r, cost, priced, estimated) ==
    [ts |-> startedAt[r], cost |-> cost, priced |-> priced, estimated |-> estimated]

\* A refused or failed attempt: no cost and no charge event.
ZeroRow(r) == Row(r, 0, FALSE, FALSE)

Fault == faults < MaxFaults /\ faults' = faults + 1

safeLog_KeepsServing(r, row) ==
    \/ rows' = [rows EXCEPT ![r] = row] /\ UNCHANGED <<latch, faults>>
    \/ Fault /\ UNCHANGED <<latch, rows>>

\* safeLog: the row and its charge event are one transaction.  If the write or
\* the hook after it throws, later requests are refused.
safeLog(r, row) ==
    \/ rows' = [rows EXCEPT ![r] = row] /\ UNCHANGED <<latch, faults>>
    \/ Fault /\ latch' = TRUE /\ UNCHANGED rows
    \/ Fault /\ latch' = TRUE /\ rows' = [rows EXCEPT ![r] = row]
-----------------------------------------------------------------------------
(* handle() *)

To(r, s) == stage' = [stage EXCEPT ![r] = s]

\* Entry: a latched proxy answers 503 before it reads anything.
Arrive(r) ==
    /\ stage[r] = "new"
    /\ To(r, IF latch THEN "dismissed" ELSE "reading")
    /\ startedAt' = [startedAt EXCEPT ![r] = now]
    /\ ended' = [ended EXCEPT ![r] = Finished]
    /\ UNCHANGED <<now, config, rows, latch, boundVars, admitted>>

\* Body too large or aborted, no provider route, or the session row cannot be
\* written: answered without a row.
Dismiss(r) ==
    /\ stage[r] = "reading"
    /\ To(r, "dismissed")
    /\ UNCHANGED <<now, config, rows, startedAt, latch, boundVars, ghostVars>>

\* The body is in and no cap is reached: forwarded at once.
Admit(r) ==
    /\ stage[r] = "reading"
    /\ ~ Blocked(r)
    /\ To(r, "dialing")
    /\ admitted' = [admitted EXCEPT ![r] =
                      [at |-> now, turn |-> Cardinality({x \in Requests : admitted[x] # None}), beside |-> InFlight]]
    /\ UNCHANGED <<now, config, rows, startedAt, latch, boundVars, ended>>

\* 429, and a row for the audit trail.
Block(r) ==
    /\ stage[r] = "reading"
    /\ Blocked(r)
    /\ To(r, "blocked")
    /\ safeLog(r, ZeroRow(r))
    /\ UNCHANGED <<now, config, startedAt, edits, restarts, ghostVars>>

\* evaluate() throws (unreadable ledger or cap): 503, the latch, and an attempt
\* to leave a row.
GuardFails(r) ==
    /\ stage[r] = "reading"
    /\ Fault
    /\ latch' = TRUE
    /\ To(r, "blocked")
    /\ rows' \in {rows, [rows EXCEPT ![r] = ZeroRow(r)]}
    /\ UNCHANGED <<now, config, startedAt, edits, restarts, ghostVars>>

\* egressFetch rejects: unreachable, timed out or refused by the egress policy.
UpstreamFails(r) ==
    /\ stage[r] = "dialing"
    /\ To(r, "failed")
    /\ safeLog(r, ZeroRow(r))
    /\ UNCHANGED <<now, config, startedAt, edits, restarts, ghostVars>>

Headers(r) ==
    /\ stage[r] = "dialing"
    /\ To(r, "receiving")
    /\ UNCHANGED <<now, config, rows, startedAt, latch, boundVars, ghostVars>>

\* The body is through, or a streaming client left: the usage so far is priced
\* (exactly, or by a rate with no exact form) and written under startedAt.
Complete(r) ==
    /\ stage[r] = "receiving"
    /\ To(r, "delivered")
    /\ \E c \in Costs, p \in Pricings : safeLog(r, Row(r, c, p[1], p[2]))
    /\ UNCHANGED <<now, config, startedAt, edits, restarts, ghostVars>>

\* A buffered answer over the size limit: 502 and a row without usage.
Overflow(r) ==
    /\ stage[r] = "receiving"
    /\ To(r, "failed")
    /\ safeLog(r, Row(r, 0, FALSE, TRUE))
    /\ UNCHANGED <<now, config, startedAt, edits, restarts, ghostVars>>

\* The provider's body errors: the rejection leaves handle() for createServer's
\* catch, which writes no row and sets no latch.
BreakMidBody(r) ==
    /\ stage[r] = "receiving"
    /\ To(r, "broken")
    /\ UNCHANGED <<now, config, rows, startedAt, latch, boundVars, ghostVars>>
-----------------------------------------------------------------------------
(* Around the proxy *)

\* Another process imports a transcript row of any age.
Import(i) ==
    /\ rows[i] = None
    /\ \E t \in 0 .. now, c \in Costs, p \in Pricings :
          rows' = [rows EXCEPT ![i] = [ts |-> t, cost |-> c, priced |-> p[1], estimated |-> p[2]]]
    /\ UNCHANGED <<now, config, stage, startedAt, latch, boundVars, ghostVars>>

Edit == edits < MaxEdits /\ edits' = edits + 1

\* segreant reprice --apply: an estimated row, once.
Reprice(x) ==
    /\ rows[x] # None
    /\ rows[x].estimated /\ rows[x].cost # 0
    /\ Edit
    /\ \E c \in Costs :
          rows' = [rows EXCEPT ![x] = [ts |-> rows[x].ts, cost |-> c,
                                       priced |-> rows[x].priced, estimated |-> FALSE]]
    /\ UNCHANGED <<now, config, stage, startedAt, latch, faults, restarts, ghostVars>>

\* Dashboard settings write the shared configuration object.
SaveBudget ==
    /\ Edit
    /\ config' \in Configs \ {config}
    /\ UNCHANGED <<now, rows, stage, startedAt, latch, faults, restarts, ghostVars>>

\* The process dies and is started again; open requests are gone.
Restart ==
    /\ restarts < MaxRestarts
    /\ restarts' = restarts + 1
    /\ latch' = FALSE
    /\ stage' = [r \in Requests |-> IF stage[r] = "new" THEN "new" ELSE "gone"]
    /\ UNCHANGED <<now, config, rows, startedAt, faults, edits, ghostVars>>

Tick ==
    /\ now < MaxTime
    /\ now' = now + 1
    /\ UNCHANGED <<config, rows, stage, startedAt, latch, boundVars, ghostVars>>

Init ==
    /\ now = 0
    /\ config \in Configs
    /\ rows = [x \in Requests \cup Imports |-> None]
    /\ stage = [r \in Requests |-> "new"]
    /\ startedAt = [r \in Requests |-> 0]
    /\ latch = FALSE
    /\ faults = 0 /\ edits = 0 /\ restarts = 0
    /\ admitted = [r \in Requests |-> None]
    /\ ended = [r \in Requests |-> {}]

Next ==
    \/ \E r \in Requests :
          \/ Arrive(r) \/ Dismiss(r) \/ Admit(r) \/ Block(r) \/ GuardFails(r)
          \/ UpstreamFails(r) \/ Headers(r)
          \/ Complete(r) \/ Overflow(r) \/ BreakMidBody(r)
    \/ \E i \in Imports : Import(i)
    \/ \E x \in Requests \cup Imports : Reprice(x)
    \/ SaveBudget \/ Restart \/ Tick

Spec == Init /\ [][Next]_vars
-----------------------------------------------------------------------------
Stages == {"new", "reading", "dismissed", "dialing", "receiving",
           "blocked", "failed", "delivered", "broken", "gone"}

\* Types; a row of the proxy carries its arrival time, and only requests that
\* were forwarded cost anything.
TypeOK ==
    /\ now \in 0 .. MaxTime
    /\ config \in Configs
    /\ stage \in [Requests -> Stages]
    /\ startedAt \in [Requests -> 0 .. now]
    /\ latch \in BOOLEAN
    /\ <<faults, edits, restarts>> \in (0 .. MaxFaults) \X (0 .. MaxEdits) \X (0 .. MaxRestarts)
    /\ \A x \in Requests \cup Imports : rows[x] # None =>
          rows[x] \in [ts : 0 .. now, cost : Costs \cup {0}, priced : BOOLEAN, estimated : BOOLEAN]
    /\ \A r \in Requests : rows[r] # None =>
          /\ rows[r].ts = startedAt[r]
          /\ admitted[r] # None \/ rows[r].cost = 0
    /\ \A r \in Requests :
          /\ ended[r] \subseteq Requests
          /\ admitted[r] # None => admitted[r].at \in startedAt[r] .. now

\* Fail closed: a request is forwarded only if all that this process answered
\* before it arrived is on the books.  (A body that broke off upstream is not:
\* see EveryForwardedRequestIsRecorded.)
AdmittedOnCompleteBooks ==
    \A q \in Requests : stage[q] \in {"dialing", "receiving", "failed", "delivered", "broken"} =>
        \A r \in ended[q] : rows[r] # None \/ stage[r] = "broken"

\* The proxied rows that arrived in lo .. hi - 1 and were admitted before hi.
Charged(lo, hi) ==
    {r \in Requests : rows[r] # None /\ admitted[r] # None /\ rows[r].ts \in lo .. hi - 1 /\ admitted[r].at < hi}
ChargedDay(d) == {r \in Charged(d, d + DayMs) : startOfLocalDay(admitted[r].at) = d}
ChargedTo(s) == {r \in Requests : rows[r] # None /\ admitted[r] # None /\ SessionOf[r] = s}

Latest(S) == CHOOSE r \in S : \A x \in S : admitted[x].turn <= admitted[r].turn

\* Without the last admitted request and those in flight beside it, the rows S
\* stay below the cap.
ContainedBy(S, cap) ==
    cap = Unset \/ S = {} \/ Total(S) < cap \/ Total(S \ ({Latest(S)} \cup admitted[Latest(S)].beside)) < cap

\* While the operator leaves budget and prices alone, what any cap is exceeded by
\* was in flight when the last request under it was admitted: no request that
\* was finished and on the books is ever overlooked, and nothing is admitted on
\* a cap that finished requests have used up, on days of 24 hours or less.  (Only
\* requests admitted in the period they arrived in: one whose body straddles
\* midnight is admitted on the new day's budget and charged to the old day.)
OvershootOnlyInFlight ==
    edits = 0 =>
        /\ \A d \in Midnights : ContainedBy(ChargedDay(d), config.daily)
        /\ \A s \in Sessions : ContainedBy(ChargedTo(s), config.session)
        /\ \A t \in 0 .. now : ContainedBy(Charged(t - WindowMs, t + 1), config.runaway)

\* GUIDE.md: "requests are blocked once today's spend hits N", for the local
\* calendar day, midnight to midnight, however long it is.
CalendarDayContained ==
    \A d \in Midnights :
        LET later == {m \in Midnights : m > d}
        IN  edits = 0 /\ later # {} => ContainedBy(Charged(d, Min(later)), config.daily)

\* ARCHITECTURE.md: "a single in-flight request can still complete above a cap":
\* without the last admitted one the day stays below it.
OneRequestOvershoot ==
    \A d \in Midnights :
        LET S == Charged(d, d + DayMs)
        IN  edits = 0 /\ config.daily # Unset /\ Total(S) >= config.daily
              => Total(S \ {Latest(S)}) < config.daily

\* ARCHITECTURE.md: "a budget read or request-record failure -> provider
\* forwarding refusal until repair/restart".
NothingForwardedWhileLatched ==
    [][latch /\ latch' => \A r \in Requests : stage'[r] = "dialing" => stage[r] = "dialing"]_vars

\* ARCHITECTURE.md: "Persist every request locally": one that was forwarded and
\* has ended has its row, or later requests are refused.
EveryForwardedRequestIsRecorded ==
    \A r \in Requests : stage[r] \in {"failed", "delivered", "broken"} => rows[r] # None \/ latch
=============================================================================
