--------------------------- MODULE EgressReceipts ---------------------------
(***************************************************************************)
(* The hash-chained egress receipt history of src/egress/receipts.ts.      *)
(*                                                                         *)
(* Several processes (proxy, CLI, team server) share one home.  Each has   *)
(* an in-memory queue of receipts that a setImmediate callback flushes as  *)
(* one group: take the lock file, inspect the history, append one line per *)
(* receipt, publish the checkpoint sidecar, drop the lock and answer every *)
(* caller.  A flush is synchronous inside its process, and interleaves     *)
(* system call by system call with other processes and with the operator.  *)
(*                                                                         *)
(* A hash is identified with the receipt it is the hash of: receiptHash    *)
(* covers the predecessor's hash, so equal hashes mean equal prefixes.  A  *)
(* file's identity (dev, ino, birthtime, size, mtime, ctime) is its object *)
(* number and length.  There is no power loss: the code never fsyncs the   *)
(* history and docs/DATA-BOUNDARIES.md claims nothing about one.           *)
(***************************************************************************)
EXTENDS SequencesExt, Integers

CONSTANTS Procs,             \* processes sharing the home
          Receipts,          \* receipts, each queued at most once
          None,              \* the null previousHash of a genesis line
          MaxFaults,         \* bound on failing system calls and crashes
          MaxInterventions   \* bound on what the operator does to the home

ASSUME NoneAssumption == None \notin Receipts
ASSUME BoundsAssumption == MaxFaults \in Nat /\ MaxInterventions \in Nat

VARIABLES lock,      \* does egress-receipts.lock exist
          file,      \* egress-receipts.jsonl; obj = 0 when the path is absent
          nextObj,   \* the next file object number
          ckpt,      \* does egress-receipts.checkpoint.json exist
          pc,        \* where each process is in withReceiptLock(...)
          job,       \* what it runs there: append or verify
          queue,     \* queuedReceipts
          batch,     \* the group being flushed
          hist,      \* the inspection the flush goes by
          opened,    \* the file object its descriptor refers to
          trusted,   \* trustedReceiptState
          outcome,   \* will the group be resolved or rejected
          promise,   \* what the caller of queueEgressReceipt was told
          verdict,   \* what its last verifyEgressReceipts found
          recorded,  \* history variable: receipts written whole at the path
          archived,  \* history variable: receipts the operator took away
          faults, interventions

procVars == <<pc, job, queue, batch, hist, opened, trusted, outcome, verdict>>
diskVars == <<lock, file, nextObj, ckpt>>
ghostVars == <<recorded, archived, faults, interventions>>
logVars == <<diskVars, procVars, promise, ghostVars>>

\* A line is a record with its newline, or without it: a record appended behind
\* one that is not ended shares its line.  A torn file ends inside a record.
NoFile == [obj |-> 0, lines |-> <<>>, torn |-> FALSE]
NoTrust == [obj |-> 0, len |-> 0, hash |-> None]
NoVerdict == [ok |-> FALSE, basis |-> "none"]

Critical == {"inspect", "open", "write", "settle", "publish", "release"}

\* The chain check of a full scan: every line names the line before it.
Linked(lines) ==
    \A i \in DOMAIN lines : lines[i].prev = IF i = 1 THEN None ELSE lines[i - 1].id

\* inspectReceiptHistory: every line is one record and names the line before it.
\* sawTerminatingNewline is set by any newline: the last of several records may
\* lack its own.
Valid(f) ==
    /\ f.lines # <<>> /\ ~f.torn /\ Linked(f.lines)
    /\ f.lines[1].ended
    /\ \A i \in DOMAIN f.lines : f.lines[i].ended \/ i = Len(f.lines)

LastHash(lines) == IF lines = <<>> THEN None ELSE lines[Len(lines)].id

Identity(f) == [obj |-> f.obj, len |-> Len(f.lines), hash |-> LastHash(f.lines)]

SameFile_ObjectOnly(known, f) == f.obj = known.obj

\* sameReceiptFile: same object, same size.  Objects only grow, by records or by
\* part of one, so the number of records and a torn tail tell their sizes apart.
SameFile(known, f) == f.obj = known.obj /\ Len(f.lines) = known.len /\ ~f.torn

\* Where the bytes of a write end: behind a line, inside the next record, or
\* between the last record and its newline.
Cuts == {"line", "record", "newline"}

\* The first k records of a group, up to the cut: the first extends prior, the
\* others each other.
Chained(prior, s, k, cut) ==
    [i \in 1 .. k |-> [id    |-> s[i],
                      prev  |-> IF i = 1 THEN prior ELSE s[i - 1],
                      ended |-> ~(cut = "newline" /\ i = k)]]

Answer(S, a) == [e \in Receipts |-> IF e \in S THEN a ELSE promise[e]]

Goto(p, label) == pc' = [pc EXCEPT ![p] = label]

\* A throw inside the locked function: nothing more is written, the lock is released.
Refuse(p) == outcome' = [outcome EXCEPT ![p] = "failed"] /\ Goto(p, "release")
-----------------------------------------------------------------------------
(***************************************************************************)
(* Queueing, and taking the lock.                                          *)
(***************************************************************************)

\* queueEgressReceipt: push; the first push schedules a flush.
Queue(p, e) ==
    /\ pc[p] = "idle"
    /\ promise[e] = "none"
    /\ promise' = Answer({e}, "queued")
    /\ queue' = [queue EXCEPT ![p] = Append(@, e)]
    /\ UNCHANGED <<diskVars, ghostVars, pc, job, batch, hist, opened, trusted, outcome, verdict>>

\* flushQueuedReceipts: the group is what was queued since the last flush.
Flush(p) ==
    /\ pc[p] = "idle"
    /\ queue[p] # <<>>
    /\ batch' = [batch EXCEPT ![p] = queue[p]]
    /\ queue' = [queue EXCEPT ![p] = <<>>]
    /\ job' = [job EXCEPT ![p] = "append"]
    /\ Goto(p, "lock")
    /\ UNCHANGED <<diskVars, ghostVars, promise, hist, opened, trusted, outcome, verdict>>

StartVerify(p) ==
    /\ pc[p] = "idle"
    /\ job' = [job EXCEPT ![p] = "verify"]
    /\ verdict' = [verdict EXCEPT ![p] = NoVerdict]
    /\ Goto(p, "lock")
    /\ UNCHANGED <<diskVars, ghostVars, promise, queue, batch, hist, opened, trusted, outcome>>

AcquireLock_StealsStaleLock(p) ==
    /\ pc[p] = "lock"
    /\ lock' = TRUE
    /\ outcome' = [outcome EXCEPT ![p] = "ok"]
    /\ Goto(p, "inspect")
    /\ UNCHANGED <<file, nextObj, ckpt, ghostVars, promise, job, queue, batch, hist, opened, trusted, verdict>>

\* openSync(lockPath, 'wx'): exclusive creation; a lock that exists is never stolen.
AcquireLock(p) ==
    /\ pc[p] = "lock"
    /\ ~lock
    /\ lock' = TRUE
    /\ outcome' = [outcome EXCEPT ![p] = "ok"]
    /\ Goto(p, "inspect")
    /\ UNCHANGED <<file, nextObj, ckpt, ghostVars, promise, job, queue, batch, hist, opened, trusted, verdict>>

\* The catch of verifyEgressReceipts: a verification that could not run, or not
\* drop the lock, has the basis of an absent history, but is not ok.
NotRun == [ok |-> FALSE, basis |-> "no_record"]

\* What leaves the section: the group is answered as one and the process goes back to its event loop.
Finish(p, answer) ==
    /\ promise' = Answer(ToSet(batch[p]), answer)
    /\ batch' = [batch EXCEPT ![p] = <<>>]
    /\ outcome' = [outcome EXCEPT ![p] = "none"]
    /\ verdict' = IF job[p] = "verify" /\ answer = "rejected"
                  THEN [verdict EXCEPT ![p] = NotRun] ELSE verdict
    /\ hist' = [hist EXCEPT ![p] = NoTrust]
    /\ opened' = [opened EXCEPT ![p] = 0]
    /\ job' = [job EXCEPT ![p] = "none"]
    /\ Goto(p, "idle")

LockTimeout_OnlyIfFree(p) ==
    /\ pc[p] = "lock"
    /\ ~lock
    /\ Finish(p, "rejected")
    /\ UNCHANGED <<diskVars, ghostVars, queue, trusted>>

\* The ten-second deadline passed while the lock existed: "lock remained busy".
LockTimeout(p) ==
    /\ pc[p] = "lock"
    /\ lock
    /\ Finish(p, "rejected")
    /\ UNCHANGED <<diskVars, ghostVars, queue, trusted>>
-----------------------------------------------------------------------------
(***************************************************************************)
(* Inside the lock.                                                        *)
(***************************************************************************)

\* inspectReceiptHistoryForAppend: the process's own trusted state while the
\* file's identity is unchanged, else a full scan; an absent history is a
\* genesis only when no checkpoint survives it.
InspectForAppend(p) ==
    /\ pc[p] = "inspect"
    /\ job[p] = "append"
    /\ UNCHANGED <<diskVars, ghostVars, promise, job, queue, batch, opened, verdict>>
    /\ IF trusted[p].obj # 0 /\ SameFile(trusted[p], file)
       THEN /\ hist' = [hist EXCEPT ![p] = trusted[p]]
            /\ Goto(p, "open")
            /\ UNCHANGED <<trusted, outcome>>
       ELSE LET ok == IF file.obj = 0 THEN ~ckpt ELSE Valid(file)
            IN  /\ hist' = [hist EXCEPT ![p] = Identity(file)]
                /\ trusted' = [trusted EXCEPT ![p] = IF ok THEN Identity(file) ELSE NoTrust]
                /\ IF ok THEN Goto(p, "open") /\ UNCHANGED outcome ELSE Refuse(p)

Basis_NoCheckpoint(f, c) ==
    IF f.obj = 0 THEN "no_record"
    ELSE IF Valid(f) THEN "chain_intact" ELSE "chain_broken"

\* coverageOf: what the state of the home lets a reader conclude.
Basis(f, c) ==
    IF f.obj = 0 THEN IF c THEN "discontinuity" ELSE "no_record"
    ELSE IF Valid(f) THEN "chain_intact" ELSE "chain_broken"

VerdictOf(f, c) == [ok |-> Basis(f, c) \in {"no_record", "chain_intact"}, basis |-> Basis(f, c)]

\* verifyEgressReceipts always scans the whole history.
InspectForVerify(p) ==
    /\ pc[p] = "inspect"
    /\ job[p] = "verify"
    /\ verdict' = [verdict EXCEPT ![p] = VerdictOf(file, ckpt)]
    /\ Goto(p, "release")
    /\ UNCHANGED <<diskVars, ghostVars, promise, job, queue, batch, hist, opened, trusted, outcome>>

CreateEmpty == /\ file' = [obj |-> nextObj, lines |-> <<>>, torn |-> FALSE]
               /\ nextObj' = nextObj + 1

\* persistReceiptLine up to the first byte.  'ax' refuses a file that appeared;
\* 'a' creates one that disappeared, and the identity check then refuses it.
OpenHistory(p) ==
    /\ pc[p] = "open"
    /\ IF file.obj = 0
       THEN CreateEmpty /\ opened' = [opened EXCEPT ![p] = nextObj]
       ELSE UNCHANGED <<file, nextObj>> /\ opened' = [opened EXCEPT ![p] = file.obj]
    /\ IF IF hist[p].obj = 0 THEN file.obj = 0 ELSE SameFile(hist[p], file)
       THEN Goto(p, "write") /\ UNCHANGED outcome
       ELSE Refuse(p)
    /\ UNCHANGED <<lock, ckpt, ghostVars, promise, job, queue, batch, hist, trusted, verdict>>

\* k whole records reach the opened object, and part of the next one if it is cut.
\* An object no longer at its path takes the bytes with it.
Persist(p, k, cut) ==
    IF file.obj = opened[p]
    THEN /\ file' = [obj   |-> file.obj,
                     lines |-> file.lines \o Chained(hist[p].hash, batch[p], k, cut),
                     torn  |-> cut = "record"]
         /\ recorded' = recorded \cup ToSet(SubSeq(batch[p], 1, k))
    ELSE UNCHANGED <<file, recorded>>

WriteLines(p) ==
    /\ pc[p] = "write"
    /\ Persist(p, Len(batch[p]), "line")
    /\ Goto(p, "settle")
    /\ UNCHANGED <<lock, nextObj, ckpt, archived, faults, interventions, promise,
                   job, queue, batch, hist, opened, trusted, outcome, verdict>>

\* A write that stops short: the disk is full, or the process dies after it.
WritePartial(p, k, cut) ==
    /\ pc[p] = "write"
    /\ faults < MaxFaults
    /\ IF cut = "newline" THEN k \in 1 .. Len(batch[p]) ELSE k < Len(batch[p])
    /\ Persist(p, k, cut)
    /\ faults' = faults + 1
    /\ Refuse(p)
    /\ UNCHANGED <<lock, nextObj, ckpt, archived, interventions, promise,
                   job, queue, batch, hist, opened, trusted, verdict>>

\* The path still names the object written to; the appended state is trusted.
SettleAppend(p) ==
    /\ pc[p] = "settle"
    /\ IF file.obj = opened[p]
       THEN /\ trusted' = [trusted EXCEPT ![p] = [obj  |-> file.obj,
                                                  len  |-> Len(file.lines),
                                                  hash |-> batch[p][Len(batch[p])]]]
            /\ Goto(p, "publish") /\ UNCHANGED outcome
       ELSE Refuse(p) /\ UNCHANGED trusted
    /\ UNCHANGED <<diskVars, ghostVars, promise, job, queue, batch, hist, opened, verdict>>

PublishCheckpoint_NoRename(p) ==
    /\ pc[p] = "publish"
    /\ Goto(p, "release")
    /\ UNCHANGED <<diskVars, ghostVars, promise, job, queue, batch, hist,
                   opened, trusted, outcome, verdict>>

\* writeReceiptCheckpoint: temp file and rename.  It refuses when it finds the
\* history gone; a history may also go between that look and the rename.
PublishCheckpoint(p) ==
    /\ pc[p] = "publish"
    /\ \/ ckpt' = TRUE /\ Goto(p, "release") /\ UNCHANGED outcome
       \/ file.obj = 0 /\ Refuse(p) /\ UNCHANGED ckpt
    /\ UNCHANGED <<lock, file, nextObj, ghostVars, promise, job, queue, batch, hist,
                   opened, trusted, verdict>>

\* A failing stat, read, open, close or rename: the section throws.
IoFault(p) ==
    /\ pc[p] \in {"inspect", "open", "settle", "publish"}
    /\ faults < MaxFaults
    /\ faults' = faults + 1
    /\ Refuse(p)
    /\ UNCHANGED <<diskVars, recorded, archived, interventions, promise, job, queue,
                   batch, hist, opened, trusted, verdict>>

Release_AnswersAnyway(p) ==
    /\ pc[p] = "release"
    /\ \/ lock' = FALSE /\ UNCHANGED faults
       \/ lock' = TRUE /\ faults < MaxFaults /\ faults' = faults + 1
    /\ Finish(p, "resolved")
    /\ UNCHANGED <<file, nextObj, ckpt, recorded, archived, interventions, queue, trusted>>

\* releaseReceiptLock in the finally block: a lock that cannot be removed fails
\* the whole group, even when its lines are on disk.
Release(p) ==
    /\ pc[p] = "release"
    /\ \/ /\ lock' = FALSE
          /\ Finish(p, IF outcome[p] = "ok" THEN "resolved" ELSE "rejected")
          /\ UNCHANGED faults
       \/ /\ faults < MaxFaults
          /\ faults' = faults + 1
          /\ Finish(p, "rejected")
          /\ UNCHANGED lock
    /\ UNCHANGED <<file, nextObj, ckpt, recorded, archived, interventions, queue, trusted>>
-----------------------------------------------------------------------------
(***************************************************************************)
(* Crashes, and the operator.                                              *)
(***************************************************************************)

\* The process dies wherever it is: its memory goes, the lock file stays.
Crash(p) ==
    /\ pc[p] # "down"
    /\ faults < MaxFaults
    /\ faults' = faults + 1
    /\ promise' = Answer(ToSet(queue[p]) \cup ToSet(batch[p]), "lost")
    /\ queue' = [queue EXCEPT ![p] = <<>>]
    /\ batch' = [batch EXCEPT ![p] = <<>>]
    /\ hist' = [hist EXCEPT ![p] = NoTrust]
    /\ opened' = [opened EXCEPT ![p] = 0]
    /\ trusted' = [trusted EXCEPT ![p] = NoTrust]
    /\ outcome' = [outcome EXCEPT ![p] = "none"]
    /\ verdict' = [verdict EXCEPT ![p] = NoVerdict]
    /\ job' = [job EXCEPT ![p] = "none"]
    /\ Goto(p, "down")
    /\ UNCHANGED <<diskVars, recorded, archived, interventions>>

Restart(p) ==
    /\ pc[p] = "down"
    /\ Goto(p, "idle")
    /\ UNCHANGED <<diskVars, ghostVars, promise, job, queue, batch, hist, opened,
                   trusted, outcome, verdict>>

Intervene == interventions < MaxInterventions /\ interventions' = interventions + 1

\* docs/INTEGRATIONS.md: only when no writer is active, remove only that lock.
RemoveStaleLock ==
    /\ lock
    /\ \A p \in Procs : pc[p] \notin Critical
    /\ lock' = FALSE
    /\ Intervene
    /\ UNCHANGED <<file, nextObj, ckpt, procVars, promise, recorded, archived, faults>>

\* The history is deleted on its own; its checkpoint is left behind.
DeleteHistory ==
    /\ file.obj # 0
    /\ file' = NoFile
    /\ Intervene
    /\ UNCHANGED <<lock, nextObj, ckpt, procVars, promise, recorded, archived, faults>>

\* History and checkpoint are archived together, as the discontinuity error asks.
Archive ==
    /\ file.obj # 0 \/ ckpt
    /\ file' = NoFile
    /\ ckpt' = FALSE
    /\ archived' = recorded
    /\ Intervene
    /\ UNCHANGED <<lock, nextObj, procVars, promise, recorded, faults>>
-----------------------------------------------------------------------------
LogInit ==
    /\ lock = FALSE
    /\ file = NoFile
    /\ nextObj = 1
    /\ ckpt = FALSE
    /\ pc = [p \in Procs |-> "idle"]
    /\ job = [p \in Procs |-> "none"]
    /\ queue = [p \in Procs |-> <<>>]
    /\ batch = [p \in Procs |-> <<>>]
    /\ hist = [p \in Procs |-> NoTrust]
    /\ opened = [p \in Procs |-> 0]
    /\ trusted = [p \in Procs |-> NoTrust]
    /\ outcome = [p \in Procs |-> "none"]
    /\ promise = [e \in Receipts |-> "none"]
    /\ verdict = [p \in Procs |-> NoVerdict]
    /\ recorded = {}
    /\ archived = {}
    /\ faults = 0
    /\ interventions = 0

\* What a process does between queueing receipts and answering their callers.
Progress(p) ==
    \/ Flush(p) \/ AcquireLock(p) \/ LockTimeout(p)
    \/ InspectForAppend(p) \/ InspectForVerify(p) \/ OpenHistory(p)
    \/ WriteLines(p) \/ SettleAppend(p) \/ PublishCheckpoint(p) \/ Release(p)

Fault(p) ==
    \/ \E k \in 0 .. Len(batch[p]), cut \in Cuts : WritePartial(p, k, cut)
    \/ IoFault(p)
    \/ Crash(p)

Operator == RemoveStaleLock \/ DeleteHistory \/ Archive

LogNext ==
    \/ \E p \in Procs, e \in Receipts : Queue(p, e)
    \/ \E p \in Procs : Progress(p) \/ StartVerify(p) \/ Fault(p) \/ Restart(p)
    \/ Operator

LogSpec == LogInit /\ [][LogNext]_logVars

\* A process that is up runs: its system calls return and its wait for the lock
\* has a deadline; and each turn of its event loop runs the setImmediate callbacks,
\* so other work (a verification) delays a flush but cannot starve it.  Nothing
\* else is fair: callers, faults and the operator may never act.
LogFairSpec ==
    LogSpec /\ \A p \in Procs : WF_logVars(Progress(p)) /\ SF_logVars(Flush(p))
-----------------------------------------------------------------------------
(***************************************************************************)
(* Properties.                                                             *)
(***************************************************************************)

Line == [id : Receipts, prev : Receipts \cup {None}, ended : BOOLEAN]
File == [obj : Nat, lines : Seq(Line), torn : BOOLEAN]
Verdict == [ok : BOOLEAN,
            basis : {"none", "chain_intact", "no_record", "discontinuity", "chain_broken"}]
Position == [obj : Nat, len : Nat, hash : Receipts \cup {None}]

\* Types, and the shape of a process between two flushes: nothing of a group is left over.
TypeOK ==
    /\ lock \in BOOLEAN /\ ckpt \in BOOLEAN
    /\ file \in File
    /\ nextObj \in Nat
    /\ pc \in [Procs -> Critical \cup {"idle", "lock", "down"}]
    /\ job \in [Procs -> {"none", "append", "verify"}]
    /\ queue \in [Procs -> Seq(Receipts)]
    /\ batch \in [Procs -> Seq(Receipts)]
    /\ hist \in [Procs -> Position]
    /\ trusted \in [Procs -> Position]
    /\ opened \in [Procs -> Nat]
    /\ outcome \in [Procs -> {"none", "ok", "failed"}]
    /\ promise \in [Receipts -> {"none", "queued", "resolved", "rejected", "lost"}]
    /\ verdict \in [Procs -> Verdict]
    /\ recorded \subseteq Receipts /\ archived \subseteq Receipts
    /\ faults \in Nat /\ interventions \in Nat
    /\ \A p \in Procs : pc[p] \in {"idle", "down"} => batch[p] = <<>> /\ job[p] = "none"

\* Two processes are never between opening and removing the lock file at once,
\* whatever crashes, lock timeouts and operator clean-ups came before.
SectionExclusive ==
    /\ \A p, q \in Procs : pc[p] \in Critical /\ pc[q] \in Critical => p = q
    /\ (\E p \in Procs : pc[p] \in Critical) => lock

\* "silently fork the hash chain" (receipts.ts): each record of the history names
\* the record before it, through concurrent flushes, cached trust, partial writes,
\* deletions under a writer and restarts.  This is about what the records name: two
\* of them on one line are linked, but no scan reads them (UnendedNeverExtended).
ChainLinked == Linked(file.lines)

Answered == {e \in Receipts : promise[e] = "resolved"}

\* Every receipt a caller was promised, hence every dial, left a checkpoint that
\* makes a later deletion of the history detectable, until the operator archives it.
DeletionLeavesTrace == Answered \ archived # {} => ckpt

\* verifyEgressReceipts says "chain_intact" only when every receipt promised to a
\* caller and not archived since is in the history it scanned, and is ok with "no
\* record" only when there is none.
VerdictHonest ==
    [][\A p \in Procs : verdict'[p] # verdict[p] =>
          /\ verdict'[p].basis = "chain_intact" =>
                Answered \ archived \subseteq {file.lines[i].id : i \in DOMAIN file.lines}
          /\ verdict'[p].ok /\ verdict'[p].basis = "no_record" => Answered \subseteq archived]_logVars

\* receipts.ts: the basis "no_record" means "No history file, and no checkpoint
\* contradicting that. Nothing is recorded."
NoRecordMeansNone ==
    [][\A p \in Procs : verdict'[p] # verdict[p] /\ verdict'[p].basis = "no_record" =>
          file.obj = 0 /\ ~ckpt]_logVars

\* A history that ends inside a record is never extended: it stays as it is until
\* the operator takes it away, even by the process that tore it.
DamagedNeverExtended ==
    [][file.torn => file' \in {file, NoFile}]_logVars

\* receipts.ts: "receipt history is not terminated by a newline; repair the
\* truncated final record before retrying", whatever lines are before that record.
UnendedNeverExtended ==
    [][file.lines # <<>> /\ ~Last(file.lines).ended => file' \in {file, NoFile}]_logVars

\* The flush answers each group as a whole, and resolves it only after all its
\* lines reached the end of the history: EgressReceipts implements ReceiptHistory.
History == INSTANCE ReceiptHistory
             WITH chain <- [i \in DOMAIN file.lines |-> file.lines[i].id]
ImplementsHistory == History!Spec

\* Every caller is answered unless its process dies: a lock left behind, a torn
\* history or a failing disk refuses the receipt and never blocks it for ever.
EveryCallerAnswered ==
    \A e \in Receipts : promise[e] = "queued" ~> promise[e] # "queued"
=============================================================================
