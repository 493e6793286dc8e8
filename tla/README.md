# A formal model of Segreant

TLA+ models of the parts of Segreant (`src/`) whose correctness rests on the
order of steps: what happens when processes interleave, die between two writes,
fail half way, or act on something they read earlier. TLC checks each module on
a small instance; TLAPS proves the theorems of the `..._proofs` modules for any
number of processes, receipts, requests, rows, records and files.

    tlc -workers 2 -config EgressReceipts_safety.cfg MCEgressReceipts
    tlapm EgressFetch_proofs.tla

Source paths are relative to the repository; a TypeScript path without a leading
directory is under its `src/` (`egress/receipts.ts` is `src/egress/receipts.ts`).

## 1. The system

Segreant sits between coding agents and model providers. One Node process (the
*daemon*) runs a metering proxy and a dashboard over one SQLite ledger; CLI
commands are other processes on the same home directory. Everything that leaves
the machine goes through one egress function, which writes hash-chained receipts
before it dials. Beside the ledger, several files are shared between processes
under lock files: the receipt history, the configuration, the budget
controller's state and audit, and the published build.

| Component | State | Operations | Interacts with | What is hard | What makes it correct |
|---|---|---|---|---|---|
| Egress receipts (`egress/receipts.ts`) | history, checkpoint and lock files; per process a queue and a cached "trusted tail" | queue, group flush, inspect, append, publish checkpoint, release, verify | every egress fetch; other processes through the lock | several processes; torn writes; crash between append and checkpoint; stale trust | the chain never forks; damage is never extended; an answered receipt is on disk and its deletion shows |
| Egress transport (`egress/transport.ts`) | per fetch: its await, its socket | decide, resolve, dial, deliver, fail | receipts, DNS, sockets | aborts and errors during an await; death while waiting | no socket without its receipts; every fetch ends |
| Metering proxy and budget guard (`proxy/server.ts`, `budget/guard.ts`) | open requests, request rows, accounting latch, caps | preflight, admit, block, forward, price, record | store, egress, settings | check and booking are awaits apart; failing writes; local days | nothing is admitted on incomplete books; caps bound what finished |
| Exact-spend cache (`store/db.ts`, `util/statements.ts`) | cached projection, append marks, count bases | read marks, serve, extend, rebuild | other processes' inserts, reprices, prunes | statements outside a transaction; rowids that come back | a cached figure equals a full projection, and is never short |
| Online budget control (`budget/onlineControl.ts`, `cli/controlCmd.ts`, `budget/controlLock.ts`, `config.ts`) | config, pending record, state, audit, two locks | plan, write ahead, apply, roll back, recover; settings edits | operator, dashboard, CLI | death between five files; short writes; manual edits | cap, state and audit agree after recovery; a rolled-back policy does not act again |
| Publication lock (`bin/publication-lock.mjs`) | a directory with an owner record, quarantined directories | acquire, recover stale, quarantine, restore, release, abandon | builds and launchers | everything goes by path name; owner record comes late | one holder; whatever the dead left is recovered |
| Economic ledger (`economics/ledger.ts`): periods | append-only rows, close controls among them | append, finalize, reopen, invalidate, recover | billing, allocation, exports, CLI | callers choose `recordedAt`; periods touch; rows are written around the ledger | a close stays verifiable; late evidence needs a reopening |
| Economic ledger: charges | the same rows | charge, correct, credit, translate, allocate, reverse | statements, exports | dependent rows arrive in any order of arrival and of time | nothing nets below zero; no allocation is taken back twice |
| Epistemic ledger (`epistemic/`) | evidence, claims, witnesses, derivations, edges, revocations | append, batch, commit, revoke, replay | economics, decisions | debts settled at COMMIT; transitive effects over a DAG; three kinds of time | no claim says more than its evidence licenses; nothing stands on what is revoked |
| Causal measurement (`causal/`, `store/causal*.ts`) | registered protocols, assignments, alpha ledger | register, assign, look, conclude | decisions | repeated looks, lineage | error budget is not overspent |
| Decision control (`decision/control.ts`) | policy lifecycle with revisions | propose, commit, roll back | budget control, CLI | stale proposals | only the revision that was read is replaced |
| Backup and restore (`store/backup.ts`) | database file and manifest | back up, restore, inspect | operators | two files, no lock | a backup with a manifest is complete |
| Runtime snapshots (`bin/runtime-snapshot.mjs`, `scripts/build.mjs`) | published files, content-keyed snapshots, PID leases, two locks | build, publish, copy, lease, collect | publication lock | two checkouts share snapshots but not a lock; deletions and copies stop half way | a leased tree stays whole; it is one build; nothing published is rolled back |
| Billing, allocation, plugins, team server | batches, rules, invocations, submissions | import, allocate, invoke, submit | economics, network | retries, limits, rounding | idempotence; money is conserved |

`PROJECT.json` lists every component with its status; the rest (price tables,
importers, exports, git analysis, statistics, dashboard client, research
harnesses) is pure computation or presentation and is not modelled.

## 2. Modules

| Module | Models | Builds on |
|---|---|---|
| `ReceiptHistory` | what the receipt history promises its callers, without files, locks or processes | - |
| `EgressReceipts` | `egress/receipts.ts` | implements `ReceiptHistory` |
| `EgressFetch` | `egressFetchWithConfig` of `egress/transport.ts` | extends `EgressReceipts` |
| `ProxyMetering` | `handle()` of `proxy/server.ts` with `BudgetGuard.evaluate` | - |
| `SpendCache` | `cachedExactSpend`, `extendExactSpend`, `AppendMark` | - |
| `BudgetControl` | `segreant budget --control` and `mutateConfig` | - |
| `PublicationLock` | `acquirePublicationLock`, `releasePublicationLock` | - |
| `RuntimeSnapshots` | `scripts/build.mjs`, `bin/segreant.mjs` with `createRuntimeSnapshot` | the promise of `PublicationLock` |
| `EconomicLedger` | periods: `append`, `finalizePeriod`, `reopenPeriod`, `recoverBrickedPeriod` | - |
| `EconomicCharges` | `validateReferenceClosure` and the effective charges | - |
| `EpistemicLedger` | `epistemic/ledger.ts` with its graph, legality and revocation | - |
| `EgressFetch_proofs` | theorems about the receipt history and the fetches | `EgressFetch` and with it `EgressReceipts` |
| `Metering_proofs` | theorems about the proxy and its spend cache | `ProxyMetering`, `SpendCache` |
| `BudgetControl_proofs`, `RuntimeSnapshots_proofs`, `EconomicLedger_proofs`, `EconomicCharges_proofs`, `EpistemicLedger_proofs` | theorems | the modules they name |
| `FiniteInduction` | induction over finite sets, least closed sets, sums and recursion down a rank, as lemmas | - |
| `MC...` | constants, symmetry and policies for TLC | the module they name |

An operator whose name has a suffix (`Release_AnswersAnyway`, `SameFile_ObjectOnly`)
is the form a plausible bug would give the definition that follows it. It is not
part of the model; the list of mutants in `PROJECT.json` says which property
finds it.

### EgressReceipts and ReceiptHistory

State: `lock`, `file` (the history: its identity, records and a torn tail) and `ckpt`
on disk; per process `pc`, `job`, `queue`, `batch`, what it read of the history
(`hist`), the object it opened, and `trusted` (the identity and tail it
remembers, `trustedReceiptState`); `promise` is what each caller of
`queueEgressReceipt` has been told. Each file operation of `withReceiptLock`,
`inspectReceiptHistoryForAppend`, `persistReceiptLine`, `writeReceiptCheckpoint`
and `releaseReceiptLock` is an action, so a process may die between any two. A
receipt is an abstract value; a line holds its receipt, the one it is chained
to, which stands for the hash, and whether it is `ended` by its newline. `IoFault`
fails the operation a process is at, `LockTimeout` is the acquisition deadline. A
write may stop (`Cuts`) behind a line, inside a record, which leaves the file `torn`,
or just before a newline. `Valid` is what a scan accepts: as any newline sets
`sawTerminatingNewline`, the last of several records may lack its own, and the next
append shares its line. `verdict` is the `ok` and the `basis` a verification
returned; its `catch` answers `NotRun`, basis "no_record" without `ok`.
Operators may remove a dead process's lock, delete the history, or archive
history and checkpoint together.

`ReceiptHistory` has three operations: a receipt is queued, is recorded, and its
caller is settled; a caller is told "resolved" only of a recorded receipt.
`ImplementsHistory` is that specification under the mapping of the concrete
state.

### EgressFetch

`stage[r]` is the await a fetch stands at; `Await` queues the receipt of a step,
`Resume` is the code after it, which runs only while its process's event loop is
free (`pc` idle) and the receipt is settled. Responses, socket errors and aborts
may come at any moment. A fetch whose process dies is lost. `LogStep` is every
step of `EgressReceipts`.

### ProxyMetering

`stage[r]` follows one request through `handle()`: entry (`Arrive`, where the
latch is read), body read, evaluation (`Admit`, `Block`, `GuardFails`), upstream
(`UpstreamFails`, `Headers`), and its end (`Complete`, `Overflow`, `BreakMidBody`).
`rows` is the ledger: arrival time, cost, whether the exact charge resolved,
whether the price was an estimate. `latch` is `state.accountingFailure`.
`Import`, `Reprice`, `SaveBudget`, `Restart` and `Tick` are the surroundings.
`admitted` and `ended` are history variables for the properties only: who was in
flight at an admission and which requests had ended at an arrival.

### SpendCache

Every SQL statement of a read is a step. `table` maps rowids to rows, `events`
is the charge log, `foreign` is `PRAGMA data_version`. Other processes
commit between any two statements, of one read too (`MaxIntrusions` of them); the history
variable `taint` notes what they did inside the reads the cached entry is from, and
whether rows of it were removed since. Only rows of the
projected scope count; `delta` is a correction of a charge.

### BudgetControl

Each step of `cmdBudgetControl` that touches a file is an action: acquire both
locks, load, recover, plan, `pending`, `config`, `state`, audit line, clear,
release. `Fail` makes the file operation throw (the `finally` blocks release),
`Crash` leaves the locks. A write may come up short without an error, because
`writeSync`'s count is ignored: `Written` then marks the file in `torn`, so that whoever
reads it next fails, and `AppendAudit` leaves part of a line, or a line without its newline,
and goes on; `CutAppend` is the append that dies or whose `fsync` fails. A line behind an
unterminated one is glued to it, and the audit cannot be read from then on (`tail`,
`Readable`). The history variable `handovers` notes when the one state file passed to a
policy with another id. Lock files are taken as written whole, and what an operator does by
hand to a damaged file (restoring it from its `.bak`) is not modelled. Editors are `mutateConfig` callers. A recommendation, the
kill switch and expiry are inputs of `Plan`; what makes a certificate valid is
statistics and is left out.

### PublicationLock

`lock` is the directory at the canonical path: owner record, temporary records,
quarantine record, age. Every system call goes by path, so `WriteOwner`,
`Publish`, `Claim` and `Move` act on whatever directory is there by then. `aside`
is the directory a process has moved to a name of its own, `left` those nobody
uses. Rename follows POSIX: a directory may replace an empty one. `Age` is the
ten-second staleness limit; with `Slow` it may pass while a creator is alive.

### RuntimeSnapshots

State: per package root `source` (the generation of its sources), `dist` (the
generation each published file comes from) and `gate` (its publication lock);
machine-wide `lock` and `dir`, the temp directory with staging directories (one per
launcher) and shared snapshots (one per content). `build` and `launch` are what a
process holds in memory, `pc` its next file operation. A builder captures the
source fingerprint, compiles, enters the gate, compares again and replaces the
published files one by one; it retries once when the sources moved. A launcher
reaps what nobody uses, enters its root's gate, hashes `dist`, takes the snapshot
lock, reuses or copies, writes its lease, and runs until `Exit`. Removal goes entry
by entry in any order (`RemovePart`), copies go file by file. `BuilderEnds`, `Throw`,
`ThrowOutside`, `GiveUp` and `Crash` stop a process at any of its steps, in the middle
of a publication, a copy or a removal too; `RemovalFails` is the `rmSync` whose error
`removeTree` swallows, half a tree left behind. `MaxMishaps` bounds their number. A
launcher may be held up for so long that its staging without an owner record counts
as abandoned (`Examine`), which costs no mishap. At the start a complete snapshot of
an earlier build may be there.

Three history variables say what damage there is, for the properties' exceptions:
`half` the roots whose last publication stopped in the middle, `cut` the trees an
unfinished removal has left a part of, `found` what each launch hashed and leased.
Without the exceptions both properties are refuted (section 4); with them they
say that no other harm comes of it: a half tree or a mixture is only ever what was there before
the launch looked, and nothing of what it found complete is taken away later.

Both locks are taken as their promise here, one holder, and what a dead process
held is free; how far `bin/publication-lock.mjs` keeps that promise is the subject
of `PublicationLock`. Process identifiers are not reused, a key is its content, and
ages are free choices. `--web` builds, which by design publish a part of `dist/` only,
are left out.

### EconomicLedger

`rows` is the table, `authored` and `raw` remember how a row came there. Every
operation is one `BEGIN IMMEDIATE` transaction and so one step. A close binds the rows visible
at its boundary; rows never change, so the set stands for its digest.
`Readable` is what `events()` demands of every close on every read, and
`periodCloseStatus` the fold of a period's controls by `recordedAt` and id. `AppendEntry`
has the guard `assertPeriodOpenForEvent`, `AppendClose` and `AppendReopen` are close controls a caller
brings through `append`, `RawInsert` is a row written around the ledger.

### EconomicCharges

`rows` again, here with charges, corrections, credits, translations, allocations
and their reversals. `validateReferenceClosure` is the check of one event against the
rest of the ledger; an append makes it for the new row, a read for every row, so
the ledger is readable only while each row added keeps all earlier ones valid.

### EpistemicLedger

`db` are the committed tables, `work` the tables as the open transaction sees them,
`frame` what it still owes (`StrengtheningFrame`). The constant `Item` is a
catalogue of the records that may be offered under each id; appends come in any
order, in batches, and a refused append or a crash rolls everything back. A claim
may be stronger than its evidence when it is appended; the derivation with its
witnesses that licenses it must be there at `Commit`. Derivations are legal or
refused by the witnesses they bring, chains of causal steps are bounded, revocation
runs along the graph, and `replayAsOf` is the ledger as it stood at an instant.
`appendNode` refuses evidence, claims and assumptions but not a witness: such a node has
no payload (`bare`), and `graph`, which every read and every append but a revocation
calls, throws from then on (`Readable`). The properties of the replay are about a ledger
that reads.

## 3. Runs

| Run | Instance | What it shows |
|---|---|---|
| `receipts_safety` | 2 processes, 3 receipts, 2 faults, 2 operator actions | `SectionExclusive`, `ChainLinked`, `DeletionLeavesTrace`, `VerdictHonest`, `DamagedNeverExtended`, and `ImplementsHistory`, the refinement |
| `fetch_live` | 1 fetch, 2 processes at the lock, 1 fault, 1 operator action | `NoDialWithoutReceipt`, `EvidenceCausal`, `EveryFetchEnds`, `EveryCallerAnswered` |
| `proxy_failures` | 2 requests, 1 imported row, each kind of cap, 2 failing writes, 1 edit, 1 restart, a 23-hour day | `AdmittedOnCompleteBooks`, `OvershootOnlyInFlight` |
| `cache_pruned` | 2 rows, 1 correction, both reuse limits, 1 prune and its renumbering, 1 commit inside each read | `UndisturbedIsFull`, `NeverShort` |
| `control_safety` | 4 runs, 2 versions of a policy and one of another id, 2 faults, 1 edit | `EverySaveAccounted`, `AuditExplainsCap`, `EveryRevisionAudited`, `RecoveryProvesAlone`, `RearmedOnlyByHandover`, `NoLostUpdate` |
| `publock_survivor` | 2 processes, 4 calls, 1 crash, slow creators | `SurvivorAcquires` |
| `publock_exclusion` | 3 processes, one call each, no crash | `MutualExclusion` is violated |
| `snapshots_launch` | 2 roots, 2 builders of one of them, a launcher of each, 2 files, 1 mishap of any kind, stalls | `LeasedTreeIsWhole`, `OneGeneration`, `NoRollback` |
| `ledger_periods` | 2 consecutive periods, 6 rows (2 entries, 1 close of another author, 1 row written around the ledger), 3 instants | `EveryCloseStands`, `LastControlDecides`, `LateEvidenceAfterReopen` |
| `ledger_inturn` | 2 consecutive periods | `OpenPeriodCloses` is violated |
| `charges_closure` | 5 rows of 6 kinds, amounts 0 to 2, 2 instants, 2 currencies | `EveryRowRevalidates`, `PositionNeverNegative`, `AllocationConserved`, `EffectiveIsLastAsserted` |
| `epistemic_issue` | 13 records, 9 derivations (2 at a time), 1 dependency, 1 revocation of either of 2 records, 2 event ids of which 2 envelopes declare one, any witness without payload, batches of 4, 3 instants | `CausalGrounded`, `MoneyWitnessed`, `ChainHolds`, `EventNamesOneTarget`, `OneRevision`, `RevocationReaches`, `HistoryStable`, `RevocationPermanent` |

Type invariants are proved where a module has proofs, and are not repeated in the
runs; elsewhere `INVARIANT TypeOK` may be added to any configuration.

**Bounds.** All of them are constants of the modules. Faults and operator
actions are counted (`MaxFaults`, `MaxInterventions`, `MaxCrashes`, ...): two
faults allow a failure during the recovery of another. Three receipts over two
processes give a group, a predecessor and a competitor; a chain longer than
that differs from it only in lines nobody reads again. Two requests and an
imported row are enough for a cap to be exceeded by something in flight; two
rows for a cached part and an appended one, or a removed row and the one that takes its rowid. Four controller runs
are arm, apply, roll back and the attempt to re-arm, or a crash and its recovery
twice. Two roots with the same build are what makes a shared snapshot with two
publication locks; a second builder is what can publish out of order. Six rows let
a period be closed, falsified from outside, recovered, reopened and closed again.
The thirteen records are one study with a rebased price, an identified and a
transported effect, a correction and a provider's withdrawal: every kind of debt and of
discharge occurs, alone and chained.

`CHECK_DEADLOCK FALSE` is set where every request, run, call or row may be used up
(`ProxyMetering`, `SpendCache`, `BudgetControl`, `PublicationLock`,
`RuntimeSnapshots`, `EconomicLedger`, `EconomicCharges`); the others check for
deadlock: a flush or a verification, or a transaction, can always be started.
Symmetry is used for safety only.

**Fairness.** `FairSpec` of `EgressFetch` is weak fairness of a process's own
progress (code between two awaits runs to its end) and strong fairness of the
start of a flush and of a fetch's continuations, which the event loop runs only
while no flush holds it and queues otherwise. DNS answers or fails, and a
dialed request is answered or aborted by its caller's time-out
(`upstreamTimeoutMs` of the proxy). No fault, operator action or crash is
ever forced. In `PublicationLock`, calls in progress proceed and time passes;
nobody has to call, to give up or to die.

## 4. Counterexamples

Two findings are runs of the project:

- **`publock_exclusion`**: a lock that vanishes between EEXIST and its inspection
  is taken for stale (`bin/publication-lock.mjs:216`), and the directory a third
  process has just made is removed instead; two processes then hold the lock.
  Two processes and three calls are enough.
- **`ledger_inturn`**: `finalizePeriod` (`economics/ledger.ts:1103`) records a close at
  the exclusive end of its period, which is inside the next period; closing that one
  binds the neighbour's control and is refused for it. Of two
  consecutive periods only one can be closed.

The modules state more claims that the code does not meet. The named configuration
gives the counterexample:

| Property (configuration) | Claim | What happens |
|---|---|---|
| `CalendarDayContained` (`ProxyMetering_long_day`) | `docs/GUIDE.md:200`: "requests are blocked once today's spend hits `N`" | `endOfLocalDay` (`budget/guard.ts:227`) adds 24 hours; on a 25-hour day the last hour's spend is outside the window the cap reads |
| `OneRequestOvershoot` (`ProxyMetering_failures` with this invariant) | `docs/ARCHITECTURE.md:447`: "a single in-flight request can still complete above a cap" | all requests in flight passed the same check; each completes |
| `NothingForwardedWhileLatched` (`ProxyMetering_latched`) | `docs/ARCHITECTURE.md:285`: a failed budget read means "provider forwarding refusal" | the latch is read before the body is awaited and not again |
| `EveryForwardedRequestIsRecorded` (`ProxyMetering_failures` with this invariant) | `docs/ARCHITECTURE.md:13`: "Persist every request locally" | an upstream body that errors leaves neither row nor latch |
| `UnendedNeverExtended` (`EgressReceipts_safety` with this property) | `receipts.ts:674`: "repair the truncated final record before retrying"; `test/egress-receipt-integrity.test.ts:240`: a "record without a terminating newline refuses before any dial" | the flag is set by any newline, so only a history of one line is refused; behind a longer one the next group is glued to the unfinished line, and the scan after that finds the chain broken |
| `NoRecordMeansNone` (`EgressReceipts_safety` with this property) | `receipts.ts:71`, of the basis "no_record": "No history file, and no checkpoint contradicting that" | a verification that could not take the lock or read the file answers with the same basis (`ok` and `state` tell them apart) |
| `ErroredIsNotDelivered` (`EgressFetch_aborted`) | `egress/transport.ts:337`: "The request already failed ... release the socket" | `settled` is set only after a later receipt, so the branch is never taken |
| `ProjectionIsFull` (`SpendCache_doublecount`) | `store/db.ts:1268`: "return null when that would not equal a full re-projection" | the marks are read before the rows; a foreign commit in between is counted twice until the next rebuild (the safe side of a cap) |
| `NeverLess` (`SpendCache_pruned` with this invariant, `MaxRows = 3`, `MaxClock = 0`, `MaxCorrections = 0`, `MaxIntrusions = 1`) | `util/statements.ts:50`: a figure that missed a removal "overstates spend: the safe side" | a VACUUM, after a prune, between two statements of a read: the appended row is missed and its mark kept, and later reads are short by it |
| `CompleteIsComplete` (`SpendCache_prunedcomplete`) | `util/statements.ts:50`: a missed removal only overstates spend | after a prune and as many inserts the marks are equal, and unpriced rows are missed |
| `NeverRearmed` (`BudgetControl_twoids`) | `budget/onlineControl.ts:287`: "rolled_back remains terminal" | the one state file knows only the last policy; a run with another id lets a rolled-back one arm itself again |
| `OverrideTerminates` (`BudgetControl_override`) | `onlineControl.ts:349`: a manual edit "terminates autonomous authority" | the phase stays `controlling`, and a second edit gives it back |
| `RecoveryProves` (`BudgetControl_claimed`) | `cli/controlCmd.ts:287`: recovery "can prove" which side the configuration reached | it infers from the value, which the operator may have written |
| `RecoveryReads` (`BudgetControl_unreadable`) | the same comment | a short intent does not parse, and behind an audit line without its newline `loadAudit` refuses: every later run throws before it can prove anything |
| `NotLeftHeld` (`PublicationLock_orphan`) | `publication-lock.mjs:465`: a proved owner does not leave the lock held | its directory is restored after its release found nothing |
| `SurvivorAcquires` (`PublicationLock_stuck`, 2 crashes) | `publication-lock.mjs:160`: "the lock is still recoverable" | two records of two dead processes in one directory block each other |
| `NeighboursKeepCloses` (`EconomicLedger_backdated`) | `economics/ledger.ts:1030`: "The invariant to keep is that a recorded close stays verifiable" | the control of a period that ends where a closed one starts, recorded before that close, is inside it; `events()` refuses from then on |
| `BrickedIsRecoverable` (`EconomicLedger_twobricked`) | `economics/ledger.ts:1187`: recovery is the way out of a bricked period | it commits only if every close reads; with two falsified closes each recovery fails on the other |
| `ReplayNeverNegative` (`EconomicCharges_backdated`) | `economics/CONTEXT.md:88`: adjustments never total more than the charge, in any arrival order | the bound reads corrections of any `recordedAt`, a replay only those recorded by its boundary |
| `HindsightSafe` (`EpistemicLedger_hindsight`) | `epistemic/ledger.ts:975`: "later observations or corrections cannot leak into the historical view" | edges have no time: a dependency added today between old records is in yesterday's replay |
| `EventIsOneRevocation` (`EpistemicLedger_issue` with this invariant) | `epistemic/ledger.ts:369`: "the same `eventId` string could mean two contradictory things" is what the checks are to prevent | each check compares the table with envelopes (`:388`, `:788`); two envelopes of two records may declare one event |
| `StaysReadable` (`EpistemicLedger_issue` with this invariant) | `epistemic/ledger.ts:349`: only canonical kinds are refused, to be appended with their payload | kind `witness` is let through without one, and `graph` (`:900`) throws on every later read and append |
| `ReplayIdempotent` (`EpistemicLedger_replay`) | `epistemic/ledger.ts:6`: "Exact replays are idempotent" | a stored derivation is assessed anew when offered again, and may be refused |
| `LeasedIsTheBuild` (`RuntimeSnapshots_stalled`) | `runtime-snapshot.mjs:17`: "A content-keyed copy is never modified after it is complete"; `:154`: no owner record "can exist solely in the sliver between `mkdtemp` and the owner write" | a complete copy has none between the removal of its owner record (`:233`) and its rename (`:234`) either: a sweep condemns it meanwhile, and goes on removing after the rename or leaves a part; the same comes of a removal of a shared tree that fails or dies half way and leaves the marker (`:223`) |
| `NoHalfPublishedBuild` (`RuntimeSnapshots_halfpublished`) | `runtime-snapshot.mjs:17`: sharing "cannot hand a process a half-published build" | a builder that dies between two files (`scripts/build.mjs:191`) frees the gate, and the next launch copies the mixture |

## 5. Proofs

For every set of processes, requests, rows, records and files, and every bound.

**Receipts and fetches.** `TypeCorrect`, `Exclusive`, `NeverForked`, `DamageKept`
and `AnsweredIsRecorded` are `TypeOK`, `SectionExclusive`, `ChainLinked`,
`DamagedNeverExtended` and `DeletionLeavesTrace` of `LogSpec`, whose proofs use none of
the assumptions about fetches; fetches only queue receipts and wait, so they inherit
them, and `NoUnrecordedDial` is `NoDialWithoutReceipt`. What is proved of the chain is
what its records name, wherever a write stopped: a lost newline is no exception, but
the line it joins is one no scan reads (section 4). `TypeOK` alone is not
inductive: a process that is not flushing must hold no part of a group
(`GroupHeld`), and `TypeInv` adds that. `SectionExclusive` follows by one step per
action, as only `AcquireLock` enters and it needs a free lock file. `ChainLinked`
needs what processes believe: a cached tail that still matches the file's identity
names its last line; the holder of the lock has inspected the history it is about
to extend, and nobody else has written since. `ChainInv` says this about
`trusted`, `opened` and the job at hand. `DamagedNeverExtended` is an action
property from the same invariant: a process at the write has opened an object
that is not torn, or one that is no longer at the path. `TraceInv` adds that a
resolved caller's line is recorded, and a checkpoint exists once an answer was
given, until history and checkpoint are archived together. `HistoryImplemented` is
the refinement `ImplementsHistory`, one step of the log at a time: a settled group is
one settlement of the abstract history, a written line one recording. The two
agree only because a receipt whose caller waits is in one queue or group of one
process, once, and not on record while it may still be written (`OnceInv`).
`VerdictIsHonest` is `VerdictHonest`: by `KeptInv` what was promised and not archived
is in the file, or the file is gone or was begun anew, and then the checkpoint that
outlived it makes a verification say so; a verification that could not run is
never `ok`. `EvidenceIsCausal` is `EvidenceCausal`: a fetch
asks for a receipt only after the one before it was answered (`AskedInv`), so the lines
stand in that order (`OrderInv`), across groups, crashes and restarts.

**Metering proxy.** `TypeCorrect`; `BooksComplete` is `AdmittedOnCompleteBooks`: by
`BooksInv`, while the latch is clear every finished request is on the books or broke
in its body, and the same remains true for ever of what a request found when it came.
`OvershootIsInFlight` is `OvershootOnlyInFlight`. By `TurnInv` admissions are numbered in
the order of time, and whoever was admitted before a request and was not in flight
beside it has ended; by `BudgetInv` each admission was within every cap by the
rows settled at that moment. The rest is arithmetic: the rows of a day, a session
or a window without the last admitted request and its company are among those its
admission had summed (`SumMonotone` of `FiniteInduction`). The proof attempt refuted an
earlier form of the property: on a day of 23 hours the window the guard reads
reaches into the next day, and a cap of 0 has no room for nothing at all. The property and
the run now include short days, and `ProxyMetering_long_day` has the long ones.

**Spend cache.** Both theorems have other processes commit anywhere, inside reads too,
and prune; the history variable `taint` says what that does to an entry. By `TaintInv`
a read in which nothing is noted is one the others left alone.
`CacheNeverShort` (`NeverShort`) excepts only entries from a read inside which a VACUUM
renumbered the rows. By `CoverageInv` a cached projection is worth at least the
charges below its event mark, as the rows stand now, if only charges follow that mark:
a prune only lowers the right-hand side (`WorthGrows`), a correction ends the premise,
and then the extension is refused. An extension adds the charges between the marks, all of
which it has listed (`ListInv`), so nothing between the mark and the end of the
log is left out. The exception is needed (`NeverLess` is refuted): with a VACUUM
within a read, the renumbered rows escape the range the read asks for, and
the mark it stores covers them. Other commits in the middle of a read can
only be counted twice. `CacheIsFull` (`UndisturbedIsFull`) is exactness of an entry that
was put together undisturbed and none of whose rows was removed since, whatever happened
before; `SpendCache_doublecount` shows that an entry from a disturbed read may
be inexact, until an undisturbed rebuild replaces it. By `ExactnessInv` a count is the rowid it was
taken at (`BasesExact`), so a reused count misses nothing (`MarksExact`); a charge lies below
the event mark exactly when its row lies below the row mark (`CacheExact`), so the cached and
the appended part are disjoint and together the whole scope, and their sums add up (`ProjectAdds`,
`SumUnion`).

**Budget control.** `TypeCorrect`; `UpdatesKept` (`NoLostUpdate`): by `LockInv` one run
holds the control lock and whoever is between its load and its release holds the
configuration lock, so by `ReadInv` what it has read is what the file still holds.
`SaveAccounted`, `CapExplained` and `AloneProves` (`EverySaveAccounted`,
`AuditExplainsCap`, `RecoveryProvesAlone`, each while the files it speaks of can be read)
rest on `IntentInv`, the life of the
write-ahead record: a run's transaction is new until it saves; the record it wrote is
there from before the save until after the event; a recovery settles it before
anything is planned. `StepEffects` reduces the twenty-two actions to five ways of changing
configuration, record, audit and saves, and each of the three invariants is proved over
those. `RevisionAudited` (`EveryRevisionAudited`) by `StateInv`: only an unrecorded
intent lets the state run ahead of the audit. `StaysRolledBack` (`RearmedOnlyByHandover`)
is for any policies: by `TerminalInv` the state file says `rolled_back`, or belongs to a
later version, for every rollback in the audit since which it has not passed to a policy
of another id, and so does what a run has read of it; the exception is what
`BudgetControl_twoids` shows to happen.

**Builds and launches.** `TypeCorrect`; `NeverRolledBack` (`NoRollback`, without
any condition on what may die): by `OrderInv` no published file is ahead of its
root's sources nor, while somebody publishes, of what is being published, because
sources do not go back and the last comparison is made inside the gate.
`OneBuildRuns` (`OneGeneration`): by `WholeInv` a root's files are of one generation
whenever nobody publishes and its last publication did not stop in the middle, so the
key a launcher computes under the gate is one build unless it saw such a mixture.
`LeasedStaysWhole` (`LeasedTreeIsWhole`), with stalls, failing removals and deaths
anywhere: `SnapInv` says that a staging tree nobody has begun to remove holds nothing
but its key, and all of it once the marker is there (`StageInv`); that a shared tree
is removed only under the machine-wide lock and never one that a run has found complete
(`VictimInv`); that a shared tree no removal has touched is complete (`TreeInv`); and
that a run has what it found, and its lease (`HoldInv`). `TreesKeep` carries all four
over the steps that touch no more than one's own staging and leases, `NotCleaned` says
that no step but the end of a removal makes a damaged tree count as undamaged. None
of the three theorems bounds the mishaps or assumes one away.

**Economic ledger.** `RowsCorrect`: types, and source links point to earlier rows.
`ClosesStand` (`EveryCloseStands`) is about any periods, consecutive ones included. What
a close sees can change in two ways the ledger does not refuse: a row written around it, and
a control of a neighbouring period that ends inside the closed one and is recorded for an
instant at or before the close (`Backdated`; `EconomicLedger_backdated` shows that one is
enough). Both are `Intruders`, and the property counts them: by
`StandInv` there are never more recoveries than intruders, and
when there are as many, none for instance, every close reads. `LateIsReopened`
(`LateEvidenceAfterReopen`) and `LastDecides` (`LastControlDecides`)
are about the status a reader replays, a fold over the controls of a period ordered by
`recordedAt`. Its value cannot be computed by the provers, but what appending one
control does to it can (`FoldAppend`), and every operation appends one. `LateInv`: a period
that is not closed has a reopening or a recovery after each of its closes. `LastInv`: the
fold tells what the last operation made of the period (`Told`), and one intruder
makes all closes after it stale together (`StaleTogether`), so that
recoveries are of the latest close. With two of them that is no longer so: to recover
the latest close and then an older one makes the fold say "conflicted", which is why
the property asks for `RecoversLatest` there.

**Charges.** `TypeCorrect`; `RowsStayValid` (`EveryRowRevalidates`): an append checks one
row, a read all of them. `Sound` is what the checks come to for the whole ledger:
every charge covers its credits, every allocation its reversals, and no charge is
translated twice into one currency. `NewSound`: the check of the new row keeps it, whatever
the row is; `SoundValidates`: a ledger that has it passes every check again. A new row
enters at most one of the sums, and is the source of nothing yet (`NothingOnLast`).
The charge a correction belongs to comes from `translationRoot`, a recursive function
along the sources; rows are numbered after their sources, so the recursion has a
solution (`Recursion` of `FiniteInduction`), and it is the same in every part of the ledger
that holds its sources (`RootInPart`). `LastAssertionCharged` (`EffectiveIsLastAsserted`):
no row is corrected twice, so the corrections of a charge are one chain without branches
(`FollowedBy`), whose deltas add up to what its last row asserts, both as the sum the
bounds use (`ChainTotal`) and as the replay follows it (`FollowedIsLast`); what is known at an
instant holds its sources, because no row is recorded before its source. `AllocationsConserved`
(`AllocationConserved`) is `Sound` for the part known at an instant. `NeverNegative`
(`PositionNeverNegative`) needs more, as a replay sees a ledger that no longer exists:
`CoverInv` says that the first rows of the ledger, however many, cover their credits too. A ledger
stored in the order of its instants replays to its first rows (`KnownFirst`); for any other one
`EconomicCharges_backdated` is the counterexample.

**Epistemic ledger.** `TypeCorrect`; `RecordedEventsAgree` (`EventNamesOneTarget`: the table
against the envelopes, not envelopes among themselves) by `TargetInv` on the committed and the open tables; `MoneyIsWitnessed`
(`MoneyWitnessed`) and `CausalIsLicensed` by `DebtInv`: inside a transaction a claim
stronger than its evidence is licensed or still listed in `frame`, and `Commit` requires
the list to be discharged.
`PastStable` (`HistoryStable`): what is dated after t leaves the replay at t as it was.
The graph: by `GraphInv` every name a stored record gives, a bare witness apart, has its edge and no record is
reached from what rests on it. The revocation closure, a recursive function, is proved
to be the least set that contains the revoked records and is closed under the edges
(`ClosureLeast`), which gives `RevocationRuns` (`RevocationReaches`) and
`RevocationStays` (`RevocationPermanent`). Without cycles the number of records
that are not reached from a record is a rank: in a set of causal claims one has the lowest, and its
producer, which exists by `DebtInv`, starts outside, so that no set of claims is its own
only ground (`CausesAreGrounded`, `CausalGrounded`). Over the same rank `ChainInv` carries the
bounds along a chain of derivations of any length (`ChainsHold`, `ChainHolds`); it
excepts the claims in `late`, which got another producer when something already rested on
them. `OneCurrentRevision` (`OneRevision`) by `RevisionInv`: a stored revision is later than
what it revises, and its only one. A finding about the model: an operator may add a
dependency whose relation is "supersedes", which the projection does not follow, so
`RevocationReaches` speaks of `dependencyEdges`.

**Induction.** The induction theorems of the library take a predicate as a parameter,
which the provers cannot instantiate. `FiniteInduction` takes sets instead: a set of
naturals without a least element outside is everything (`Everywhere`), a set of subsets
closed under adding what smaller ones allow is all of them (`EverySubset`). From
the two come the existence of recursive functions over subsets and of those that recur down
a rank (`Recursion`), `ClosureLeast`, and sums over finite sets (`SumRemove`, `SumSame`,
`SumMonotone`, `SumUnion`, `SumCover`) and their largest elements (`MaxIs`).

Assumptions on constants are those the modules name.

Model-checked only: all liveness (`EveryFetchEnds`, `EveryCallerAnswered`,
`SurvivorAcquires`: fairness and ENABLED are outside the proof system's reach) and
the counterexamples of section 4, among them `MutualExclusion` of `PublicationLock`. Every invariant and every action property of a
passing run is a theorem.

## 6. Not modelled

Receipt schemas and wording, the address ranges of the egress policy, token
extraction and prices, warning thresholds, field validation of the configuration,
the statistical part of a certificate, PID reuse and non-POSIX rename errors of
the publication lock, and half-written owner records. Of the builds: `--web` and the
pruning of files that are no longer produced. Of the economic ledger: bases, rates of a
translation, adjustments that raise a charge, serialization. Of the epistemic
ledger: grain and scope of claims, trust ceilings of evidence, measurement models,
negative claims and the graph's read queries. Each is a value that is chosen freely
or left out because no property depends on it. The components with status
`not_modelled` are planned, pure, or presentation; most of the repository's lines
(statistics, price tables, importers, the web client, generated contracts) are of
the last two kinds.

## 7. Plan

Done: the receipt log and the fetches over it, the proxy, the spend cache, budget
control, the publication lock, builds and launches, the economic ledger, the
epistemic ledger. Left, in this order:

1. `Backup`: two writers and a crash around the database and its manifest.
2. The CLI command that finalizes a period and issues the claim about it, as a
   composition of `EconomicLedger` and `EpistemicLedger`.
3. `DecisionControl` and `TeamServer`: optimistic revisions, idempotent retries.
4. `HistoricalRates` and the rate book of economic translations.
5. The ledgered part of causal inference: registration, looks, the alpha budget.
6. Pure operators against reference definitions: allocation by largest remainder,
   egress rule matching.

Theorems to follow: for `PublicationLock`, whose exclusion fails, what every owner
may still rely on; for `EpistemicLedger` and `EconomicLedger`, those of item 2.
Abstract specifications worth stating: an atomic cap-and-audit pair that
`BudgetControl` implements.
