-------------------------- MODULE EgressFetch_proofs --------------------------
(***************************************************************************)
(* Theorems about the receipt history and the fetches that use it, for any *)
(* number of processes, receipts, fetches, faults and operator actions.    *)
(* Invariants of the history, each resting on those before: types and      *)
(* groups; the lock; what the lock's holder and the cached trust know of   *)
(* the file; what a caller was told; that a receipt is in one place, which *)
(* gives the refinement of ReceiptHistory; and what of the promised        *)
(* receipts a verification can still find.  Fetches use the history only   *)
(* as its callers, so they inherit these; no socket is opened without the  *)
(* receipts of its decision and of the dial, and the receipts of a fetch   *)
(* are on record in the order of what they tell.                           *)
(***************************************************************************)
EXTENDS EgressFetch, SequenceTheorems, FiniteSetTheorems, TLAPS

-----------------------------------------------------------------------------
(***************************************************************************)
(* Types.                                                                  *)
(***************************************************************************)

\* A process that appends holds a group.
GroupHeld ==
    \A p \in Procs :
        /\ job[p] = "append" => batch[p] # <<>>
        /\ pc[p] \in {"open", "write", "settle"} => job[p] = "append"

TypeInv == TypeOK /\ GroupHeld

\* The part of a group that reaches the disk is lines.
LEMMA ChainedType ==
    ASSUME NEW prior \in Receipts \cup {None}, NEW s \in Seq(Receipts), NEW k \in 0 .. Len(s),
           NEW cut \in Cuts
    PROVE  /\ Chained(prior, s, k, cut) \in Seq(Line)
           /\ Len(Chained(prior, s, k, cut)) = k
           /\ \A i \in 1 .. k :
                  /\ Chained(prior, s, k, cut)[i].id = s[i]
                  /\ Chained(prior, s, k, cut)[i].prev = IF i = 1 THEN prior ELSE s[i - 1]
           /\ ToSet(SubSeq(s, 1, k)) \subseteq Receipts
  <1>1. /\ Len(s) \in Nat /\ k \in Nat
        /\ \A i \in 1 .. Len(s) : s[i] \in Receipts
    BY LenProperties, ElementOfSeq
  <1>2. Chained(prior, s, k, cut) = [i \in 1 .. k |->
            [id    |-> s[i],
             prev  |-> IF i = 1 THEN prior ELSE s[i - 1],
             ended |-> ~(cut = "newline" /\ i = k)]]
    BY DEF Chained
  <1>3. ASSUME NEW i \in 1 .. k
        PROVE  [id    |-> s[i],
                prev  |-> IF i = 1 THEN prior ELSE s[i - 1],
                ended |-> ~(cut = "newline" /\ i = k)] \in Line
    <2>1. s[i] \in Receipts /\ (i # 1 => s[i - 1] \in Receipts)
      BY <1>1
    <2>2. (~(cut = "newline" /\ i = k)) \in BOOLEAN
      OBVIOUS
    <2> QED BY <2>1, <2>2 DEF Line
  <1>4. Chained(prior, s, k, cut) \in [1 .. k -> Line]
    BY <1>2, <1>3
  <1>5. Chained(prior, s, k, cut) \in Seq(Line)
    BY <1>1, <1>4, SeqDef
  <1>6. Len(Chained(prior, s, k, cut)) = k
    BY <1>1, <1>4, <1>5, LenProperties
  <1>7. SubSeq(s, 1, k) \in Seq(Receipts)
    BY <1>1, SubSeqProperties
  <1>8. ToSet(SubSeq(s, 1, k)) \subseteq Receipts
    BY <1>7, ElementOfSeq, LenProperties DEF ToSet
  <1> QED BY <1>2, <1>5, <1>6, <1>8

\* What a write leaves at the path.
LEMMA Persisted ==
    ASSUME NEW p \in Procs, NEW k, NEW cut \in Cuts, Persist(p, k, cut)
    PROVE  /\ file'.obj = file.obj
           /\ file.obj # opened[p] => UNCHANGED <<file, recorded>>
           /\ file.obj = opened[p] =>
                 /\ file'.lines = file.lines \o Chained(hist[p].hash, batch[p], k, cut)
                 /\ file'.torn = (cut = "record")
                 /\ recorded' = recorded \cup ToSet(SubSeq(batch[p], 1, k))
  <1>1. CASE file.obj = opened[p]
    <2> DEFINE more == file.lines \o Chained(hist[p].hash, batch[p], k, cut)
               torn == cut = "record"
    <2>1. /\ file' = [obj |-> file.obj, lines |-> more, torn |-> torn]
          /\ recorded' = recorded \cup ToSet(SubSeq(batch[p], 1, k))
      BY <1>1, Zenon DEF Persist
    <2> HIDE DEF more, torn
    <2>2. file'.obj = file.obj /\ file'.lines = more /\ file'.torn = torn
      BY <2>1
    <2> QED BY <1>1, <2>1, <2>2 DEF more, torn
  <1>2. CASE file.obj # opened[p]
    BY <1>2, Zenon DEF Persist
  <1> QED BY <1>1, <1>2

\* A group written whole is not cut.
LEMMA WholeCut == "line" \in Cuts
  BY DEF Cuts

LEMMA AnswerType ==
    ASSUME TypeOK, NEW S, NEW a \in {"queued", "resolved", "rejected", "lost"}
    PROVE  Answer(S, a) \in [Receipts -> {"none", "queued", "resolved", "rejected", "lost"}]
  BY DEF TypeOK, Answer

LEMMA VerdictType == NoVerdict \in Verdict /\ NotRun \in Verdict
  BY DEF NoVerdict, NotRun, Verdict

LEMMA NoFileType == NoFile \in File
  <1>1. <<>> \in Seq(Line)
    BY EmptySeq
  <1> QED BY <1>1 DEF NoFile, File

LEMMA IdentityType ==
    ASSUME NEW f \in File
    PROVE  Identity(f) \in Position
  <1>1. f.obj \in Nat /\ f.lines \in Seq(Line)
    BY DEF File
  <1>2. Len(f.lines) \in Nat
    BY <1>1, LenProperties
  <1>3. f.lines # <<>> => f.lines[Len(f.lines)] \in Line
    <2>1. f.lines # <<>> => Len(f.lines) \in 1 .. Len(f.lines)
      BY <1>1, EmptySeq
    <2> QED BY <1>1, <2>1, ElementOfSeq
  <1>4. LastHash(f.lines) \in Receipts \cup {None}
    BY <1>3 DEF LastHash, Line
  <1> QED BY <1>1, <1>2, <1>4 DEF Identity, Position

LEMMA TypeInit == LogInit => TypeInv
  <1> SUFFICES ASSUME LogInit PROVE TypeInv
    OBVIOUS
  <1>1. <<>> \in Seq(Receipts) /\ <<>> \in Seq(Line)
    BY EmptySeq
  <1>2. file \in File
    BY NoFileType DEF LogInit
  <1>3. NoTrust \in Position
    BY DEF NoTrust, Position
  <1>4. TypeOK
    BY <1>1, <1>2, <1>3, VerdictType DEF LogInit, TypeOK, Critical
  <1> QED BY <1>4 DEF LogInit, TypeInv, GroupHeld

\* What Finish does to the types, for any answer it gives.
LEMMA FinishType ==
    ASSUME TypeInv, NEW p \in Procs, NEW a \in {"resolved", "rejected"}, Finish(p, a)
    PROVE  /\ pc' \in [Procs -> Critical \cup {"idle", "lock", "down"}]
           /\ job' \in [Procs -> {"none", "append", "verify"}]
           /\ batch' \in [Procs -> Seq(Receipts)]
           /\ hist' \in [Procs -> Position]
           /\ opened' \in [Procs -> Nat]
           /\ outcome' \in [Procs -> {"none", "ok", "failed"}]
           /\ promise' \in [Receipts -> {"none", "queued", "resolved", "rejected", "lost"}]
           /\ verdict' \in [Procs -> Verdict]
           /\ \A q \in Procs : pc'[q] \in {"idle", "down"} => batch'[q] = <<>> /\ job'[q] = "none"
           /\ GroupHeld'
  <1>1. <<>> \in Seq(Receipts)
    BY EmptySeq
  <1>2. NoTrust \in Position
    BY DEF NoTrust, Position
  <1>3. promise' \in [Receipts -> {"none", "queued", "resolved", "rejected", "lost"}]
    BY AnswerType DEF Finish, TypeInv
  <1>4. verdict' \in [Procs -> Verdict]
    <2>1. \E v \in Verdict : verdict' \in {verdict, [verdict EXCEPT ![p] = v]}
      BY VerdictType, Zenon DEF Finish
    <2> QED BY <2>1 DEF TypeInv, TypeOK
  <1>5. /\ promise' = Answer(ToSet(batch[p]), a)
        /\ batch' = [batch EXCEPT ![p] = <<>>] /\ outcome' = [outcome EXCEPT ![p] = "none"]
        /\ hist' = [hist EXCEPT ![p] = NoTrust] /\ opened' = [opened EXCEPT ![p] = 0]
        /\ job' = [job EXCEPT ![p] = "none"] /\ pc' = [pc EXCEPT ![p] = "idle"]
    BY Zenon DEF Finish, Goto
  <1> QED BY <1>1, <1>2, <1>3, <1>4, <1>5 DEF TypeInv, TypeOK, GroupHeld

LEMMA TypeNext == TypeInv /\ [LogNext]_logVars => TypeInv'
  <1> SUFFICES ASSUME TypeInv, [LogNext]_logVars PROVE TypeInv'
    OBVIOUS
  <1>0. /\ <<>> \in Seq(Receipts) /\ NoTrust \in Position /\ NoFile \in File
        /\ file \in File /\ file.obj \in Nat /\ file.lines \in Seq(Line)
        /\ pc \in [Procs -> Critical \cup {"idle", "lock", "down"}]
        /\ trusted \in [Procs -> Position] /\ hist \in [Procs -> Position]
        /\ outcome \in [Procs -> {"none", "ok", "failed"}]
    BY EmptySeq, NoFileType DEF NoTrust, Position, TypeInv, TypeOK, File
  <1> USE DEF TypeInv, GroupHeld
  <1>1. ASSUME NEW p \in Procs, NEW e \in Receipts, Queue(p, e) PROVE TypeInv'
    <2>1. promise' \in [Receipts -> {"none", "queued", "resolved", "rejected", "lost"}]
      BY <1>1, AnswerType DEF Queue
    <2>2. queue' \in [Procs -> Seq(Receipts)]
      BY <1>1, AppendProperties DEF Queue, TypeOK
    <2> QED BY <1>1, <2>1, <2>2 DEF TypeOK, Queue, diskVars, ghostVars
  <1>2. ASSUME NEW p \in Procs, Flush(p) PROVE TypeInv'
    BY <1>0, <1>2 DEF TypeOK, Flush, Goto, diskVars, ghostVars
  <1>3. ASSUME NEW p \in Procs, StartVerify(p) PROVE TypeInv'
    BY <1>3, VerdictType DEF TypeOK, StartVerify, Goto, diskVars, ghostVars
  <1>4. ASSUME NEW p \in Procs, AcquireLock(p) PROVE TypeInv'
    BY <1>4 DEF TypeOK, AcquireLock, Goto, Critical, ghostVars
  <1>5. ASSUME NEW p \in Procs, LockTimeout(p) PROVE TypeInv'
    <2>1. Finish(p, "rejected")
      BY <1>5 DEF LockTimeout
    <2> QED BY <1>5, <2>1, FinishType DEF TypeOK, LockTimeout, diskVars, ghostVars
  <1>6. ASSUME NEW p \in Procs, InspectForAppend(p) PROVE TypeInv'
    <2>1. Identity(file) \in Position
      BY <1>0, IdentityType
    <2>2. /\ trusted' \in [Procs -> Position] /\ hist' \in [Procs -> Position]
          /\ pc' = [pc EXCEPT ![p] = "open"] \/ pc' = [pc EXCEPT ![p] = "release"]
          /\ outcome' \in [Procs -> {"none", "ok", "failed"}]
      <3>1. CASE trusted[p].obj # 0 /\ SameFile(trusted[p], file)
        <4>1. /\ hist' = [hist EXCEPT ![p] = trusted[p]]
              /\ Goto(p, "open") /\ UNCHANGED <<trusted, outcome>>
          BY <1>6, <3>1, Zenon DEF InspectForAppend
        <4>2. trusted[p] \in Position
          BY <1>0, Zenon
        <4>3. hist' \in [Procs -> Position]
          BY <1>0, <4>1, <4>2
        <4> QED BY <1>0, <4>1, <4>3, Zenon DEF Goto
      <3>2. CASE ~ (trusted[p].obj # 0 /\ SameFile(trusted[p], file))
        <4>1. /\ hist' = [hist EXCEPT ![p] = Identity(file)]
              /\ \E t \in {Identity(file), NoTrust} : trusted' = [trusted EXCEPT ![p] = t]
              /\ \/ Goto(p, "open") /\ UNCHANGED outcome
                 \/ Refuse(p)
          BY <1>6, <3>2, Zenon DEF InspectForAppend
        <4>2. hist' \in [Procs -> Position]
          BY <1>0, <2>1, <4>1
        <4>3. trusted' \in [Procs -> Position]
          BY <1>0, <2>1, <4>1
        <4> QED BY <1>0, <4>1, <4>2, <4>3 DEF Goto, Refuse
      <3> QED BY <3>1, <3>2
    <2>3. /\ pc[p] = "inspect" /\ job[p] = "append"
          /\ UNCHANGED <<lock, ckpt, file, nextObj, promise, job, queue, batch, opened, verdict,
                         recorded, archived, faults, interventions>>
      BY <1>6, Zenon DEF InspectForAppend, diskVars, ghostVars
    <2>4. pc' \in [Procs -> Critical \cup {"idle", "lock", "down"}]
      BY <1>0, <2>2 DEF Critical
    <2>5. \A q \in Procs : pc'[q] = pc[q] \/ (q = p /\ pc'[q] \notin {"idle", "down"})
      BY <1>0, <2>2
    <2>6. TypeOK'
      BY <2>2, <2>3, <2>4, <2>5 DEF TypeOK
    <2>7. GroupHeld'
      BY <2>3, <2>5
    <2> QED BY <2>6, <2>7
  <1>7. ASSUME NEW p \in Procs, InspectForVerify(p) PROVE TypeInv'
    <2>1. VerdictOf(file, ckpt) \in Verdict
      BY DEF VerdictOf, Basis, Verdict
    <2> QED BY <1>7, <2>1 DEF TypeOK, InspectForVerify, Goto, Critical, diskVars, ghostVars
  <1>8. ASSUME NEW p \in Procs, OpenHistory(p) PROVE TypeInv'
    <2>1. /\ file' \in File /\ nextObj' \in Nat
          /\ opened' \in [Procs -> Nat]
          /\ pc' = [pc EXCEPT ![p] = "write"] \/ pc' = [pc EXCEPT ![p] = "release"]
          /\ outcome' \in [Procs -> {"none", "ok", "failed"}]
      <3>1. [obj |-> nextObj, lines |-> <<>>, torn |-> FALSE] \in File
        BY EmptySeq DEF TypeOK, File
      <3>2. /\ file' \in File /\ nextObj' \in Nat
            /\ \E o \in Nat : opened' = [opened EXCEPT ![p] = o]
        <4>1. CASE file.obj = 0
          <5>1. CreateEmpty /\ opened' = [opened EXCEPT ![p] = nextObj]
            BY <1>8, <4>1, Zenon DEF OpenHistory
          <5>2. file' \in File
            BY <3>1, <5>1, Zenon DEF CreateEmpty
          <5>3. nextObj \in Nat /\ nextObj' \in Nat
            BY <5>1 DEF TypeOK, CreateEmpty
          <5> QED BY <5>1, <5>2, <5>3, Zenon
        <4>2. CASE file.obj # 0
          BY <1>0, <1>8, <4>2 DEF TypeOK, OpenHistory
        <4> QED BY <4>1, <4>2
      <3>3. \/ Goto(p, "write") /\ UNCHANGED outcome
            \/ Refuse(p)
        BY <1>8, Zenon DEF OpenHistory
      <3> QED BY <3>2, <3>3 DEF TypeOK, Goto, Refuse
    <2>2. /\ pc[p] = "open"
          /\ UNCHANGED <<lock, ckpt, promise, job, queue, batch, hist, trusted, verdict,
                         recorded, archived, faults, interventions>>
      BY <1>8, Zenon DEF OpenHistory, ghostVars
    <2>3. pc' \in [Procs -> Critical \cup {"idle", "lock", "down"}]
      BY <1>0, <2>1 DEF Critical
    <2>4. \A q \in Procs : pc'[q] = pc[q] \/ (q = p /\ pc'[q] \notin {"idle", "down"})
      BY <1>0, <2>1
    <2>5. TypeOK'
      BY <2>1, <2>2, <2>3, <2>4 DEF TypeOK
    <2>6. GroupHeld'
      BY <2>2, <2>4
    <2> QED BY <2>5, <2>6
  <1>9. ASSUME NEW p \in Procs, NEW k \in 0 .. Len(batch[p]), NEW cut \in Cuts, Persist(p, k, cut)
        PROVE  /\ file' \in File
               /\ recorded' \subseteq Receipts
    <2>1. hist[p].hash \in Receipts \cup {None} /\ batch[p] \in Seq(Receipts)
      BY DEF TypeOK, Position
    <2>2. /\ Chained(hist[p].hash, batch[p], k, cut) \in Seq(Line)
          /\ ToSet(SubSeq(batch[p], 1, k)) \subseteq Receipts
      BY <2>1, ChainedType
    <2>3. file.lines \o Chained(hist[p].hash, batch[p], k, cut) \in Seq(Line)
      BY <1>0, <2>2, ConcatProperties
    <2>4. [obj |-> file.obj, lines |-> file.lines \o Chained(hist[p].hash, batch[p], k, cut),
           torn |-> cut = "record"] \in File
      BY <1>0, <2>3 DEF File
    <2> QED BY <1>0, <1>9, <2>2, <2>4 DEF Persist, TypeOK
  <1>10. ASSUME NEW p \in Procs, WriteLines(p) PROVE TypeInv'
    <2>1. Len(batch[p]) \in 0 .. Len(batch[p])
      BY LenProperties DEF TypeOK
    <2>2. file' \in File /\ recorded' \subseteq Receipts
      BY <1>9, <1>10, <2>1, WholeCut DEF WriteLines
    <2> QED BY <1>10, <2>2 DEF TypeOK, WriteLines, Goto, Critical
  <1>11. ASSUME NEW p \in Procs, NEW k \in 0 .. Len(batch[p]), NEW cut \in Cuts,
                WritePartial(p, k, cut)
         PROVE  TypeInv'
    <2>1. file' \in File /\ recorded' \subseteq Receipts
      BY <1>9, <1>11 DEF WritePartial
    <2> QED BY <1>11, <2>1 DEF TypeOK, WritePartial, Goto, Refuse, Critical
  <1>12. ASSUME NEW p \in Procs, SettleAppend(p) PROVE TypeInv'
    <2>1. batch[p] # <<>> /\ batch[p] \in Seq(Receipts)
      BY <1>12 DEF TypeOK, SettleAppend
    <2>2. batch[p][Len(batch[p])] \in Receipts
      BY <2>1, EmptySeq, ElementOfSeq
    <2>3. Len(file.lines) \in Nat
      BY <1>0, LenProperties
    <2>4. [obj |-> file.obj, len |-> Len(file.lines), hash |-> batch[p][Len(batch[p])]] \in Position
      BY <1>0, <2>2, <2>3 DEF Position
    <2>5. /\ trusted' \in [Procs -> Position]
          /\ pc' \in [Procs -> Critical \cup {"idle", "lock", "down"}]
          /\ pc'[p] \in {"publish", "release"}
          /\ \A q \in Procs : q # p => pc'[q] = pc[q]
          /\ outcome' \in [Procs -> {"none", "ok", "failed"}]
      <3>1. CASE file.obj = opened[p]
        BY <1>0, <1>12, <2>4, <3>1 DEF SettleAppend, Goto, Critical
      <3>2. CASE file.obj # opened[p]
        BY <1>0, <1>12, <3>2 DEF SettleAppend, Goto, Refuse, Critical
      <3> QED BY <3>1, <3>2
    <2>6. /\ pc[p] = "settle"
          /\ UNCHANGED <<lock, ckpt, file, nextObj, promise, job, queue, batch, hist, opened, verdict,
                         recorded, archived, faults, interventions>>
      BY <1>12, Zenon DEF SettleAppend, diskVars, ghostVars
    <2>7. TypeOK'
      BY <2>5, <2>6 DEF TypeOK
    <2>8. GroupHeld'
      BY <2>5, <2>6
    <2> QED BY <2>7, <2>8
  <1>13. ASSUME NEW p \in Procs, PublishCheckpoint(p) PROVE TypeInv'
    BY <1>13 DEF TypeOK, PublishCheckpoint, Refuse, Goto, Critical, ghostVars
  <1>14. ASSUME NEW p \in Procs, IoFault(p) PROVE TypeInv'
    BY <1>14 DEF TypeOK, IoFault, Goto, Refuse, Critical, diskVars
  <1>15. ASSUME NEW p \in Procs, Release(p) PROVE TypeInv'
    <2>1. PICK a \in {"resolved", "rejected"} : Finish(p, a)
      BY <1>15 DEF Release
    <2>2a. lock' \in BOOLEAN
      BY <1>15, Zenon DEF Release, TypeOK
    <2>2b. faults' \in Nat
      BY <1>15 DEF Release, TypeOK
    <2>2. lock' \in BOOLEAN /\ faults' \in Nat
      BY <2>2a, <2>2b
    <2>3. UNCHANGED <<file, nextObj, ckpt, recorded, archived, interventions, queue, trusted>>
      BY <1>15 DEF Release
    <2> QED BY <2>1, <2>2, <2>3, FinishType DEF TypeOK
  <1>16. ASSUME NEW p \in Procs, Crash(p) PROVE TypeInv'
    <2>1. promise' \in [Receipts -> {"none", "queued", "resolved", "rejected", "lost"}]
      BY <1>16, AnswerType DEF Crash
    <2>2. /\ UNCHANGED <<lock, file, nextObj, ckpt, recorded, archived, interventions>>
          /\ faults' \in Nat
          /\ queue' = [queue EXCEPT ![p] = <<>>]
          /\ batch' = [batch EXCEPT ![p] = <<>>]
          /\ job' = [job EXCEPT ![p] = "none"]
          /\ pc' = [pc EXCEPT ![p] = "down"]
      BY <1>16 DEF TypeOK, Crash, Goto, diskVars
    <2>3. /\ hist' \in [Procs -> Position] /\ trusted' \in [Procs -> Position]
          /\ opened' \in [Procs -> Nat]
          /\ outcome' \in [Procs -> {"none", "ok", "failed"}]
          /\ verdict' \in [Procs -> Verdict]
      BY <1>0, <1>16, VerdictType DEF TypeOK, Crash
    <2>4. /\ pc' \in [Procs -> Critical \cup {"idle", "lock", "down"}]
          /\ job' \in [Procs -> {"none", "append", "verify"}]
          /\ queue' \in [Procs -> Seq(Receipts)]
          /\ batch' \in [Procs -> Seq(Receipts)]
          /\ \A q \in Procs : pc'[q] \in {"idle", "down"} => batch'[q] = <<>> /\ job'[q] = "none"
          /\ GroupHeld'
      BY <1>0, <2>2 DEF TypeOK
    <2> QED BY <2>1, <2>2, <2>3, <2>4 DEF TypeOK
  <1>17. ASSUME NEW p \in Procs, Restart(p) PROVE TypeInv'
    BY <1>17 DEF TypeOK, Restart, Goto, diskVars, ghostVars
  <1>18. ASSUME Operator PROVE TypeInv'
    <2>1. /\ UNCHANGED <<nextObj, procVars, promise, recorded, faults>>
          /\ lock' \in BOOLEAN /\ ckpt' \in BOOLEAN /\ file' \in File
          /\ archived' \subseteq Receipts /\ interventions' \in Nat
      <3>1. lock' \in BOOLEAN
        BY <1>18, Zenon DEF TypeOK, Operator, RemoveStaleLock, DeleteHistory, Archive
      <3>2. ckpt' \in BOOLEAN
        BY <1>18, Zenon DEF TypeOK, Operator, RemoveStaleLock, DeleteHistory, Archive
      <3>3. file' \in File /\ archived' \subseteq Receipts
        BY <1>0, <1>18, Zenon DEF TypeOK, Operator, RemoveStaleLock, DeleteHistory, Archive
      <3>4. UNCHANGED <<nextObj, procVars, promise, recorded, faults>>
        BY <1>18, Zenon DEF Operator, RemoveStaleLock, DeleteHistory, Archive, procVars
      <3>5. interventions' \in Nat
        <4>1. Intervene
          BY <1>18, Zenon DEF Operator, RemoveStaleLock, DeleteHistory, Archive
        <4> QED BY <4>1 DEF Intervene, TypeOK
      <3> QED BY <3>1, <3>2, <3>3, <3>4, <3>5
    <2> QED BY <2>1 DEF TypeOK, procVars
  <1>19. ASSUME UNCHANGED logVars PROVE TypeInv'
    BY <1>19 DEF TypeOK, logVars, diskVars, procVars, ghostVars
  <1> QED BY <1>1, <1>2, <1>3, <1>4, <1>5, <1>6, <1>7, <1>8, <1>10, <1>11, <1>12, <1>13, <1>14,
             <1>15, <1>16, <1>17, <1>18, <1>19 DEF LogNext, Progress, Fault

\* Every state of the log has the types of TypeOK, and no process is between
\* two flushes with a group, or appending without one.
THEOREM TypeCorrect == LogSpec => [](TypeOK /\ GroupHeld)
  BY TypeInit, TypeNext, PTL DEF LogSpec, TypeInv
-----------------------------------------------------------------------------
(***************************************************************************)
(* The lock.                                                               *)
(***************************************************************************)

\* What a step other than taking the lock does to the section: nobody enters,
\* and the lock goes only when nobody is left inside.
Leaves ==
    /\ \A q \in Procs : pc'[q] \in Critical => pc[q] \in Critical
    /\ \/ lock' = lock
       \/ \A q \in Procs : pc'[q] \notin Critical

LEMMA LeavesExclusive == ASSUME SectionExclusive, Leaves PROVE SectionExclusive'
  BY DEF SectionExclusive, Leaves

LEMMA ExclusiveNext == TypeInv /\ SectionExclusive /\ [LogNext]_logVars => SectionExclusive'
  <1> SUFFICES ASSUME TypeInv, SectionExclusive, [LogNext]_logVars PROVE SectionExclusive'
    OBVIOUS
  <1> USE DEF Leaves, Critical, Goto, Refuse
  <1>0. pc \in [Procs -> Critical \cup {"idle", "lock", "down"}]
    BY DEF TypeInv, TypeOK
  <1>1. ASSUME NEW p \in Procs, AcquireLock(p) PROVE SectionExclusive'
    BY <1>0, <1>1 DEF AcquireLock, SectionExclusive
  <1>2. ASSUME NEW p \in Procs, Release(p) PROVE SectionExclusive'
    <2>1. pc[p] = "release" /\ pc' = [pc EXCEPT ![p] = "idle"]
      BY <1>2 DEF Release, Finish
    <2> QED BY <1>0, <2>1 DEF SectionExclusive
  <1>3. ASSUME NEW p \in Procs, NEW e \in Receipts, Queue(p, e) PROVE Leaves
    BY <1>3 DEF Queue, diskVars
  <1>4. ASSUME NEW p \in Procs, \/ Flush(p) \/ StartVerify(p) \/ LockTimeout(p) \/ Restart(p)
        PROVE  Leaves
    BY <1>0, <1>4 DEF Flush, StartVerify, LockTimeout, Restart, Finish, diskVars
  <1>5. ASSUME NEW p \in Procs, \/ InspectForAppend(p) \/ InspectForVerify(p) \/ SettleAppend(p) \/ IoFault(p)
        PROVE  Leaves
    BY <1>0, <1>5 DEF InspectForAppend, InspectForVerify, SettleAppend, IoFault, diskVars
  <1>6. ASSUME NEW p \in Procs, \/ OpenHistory(p) \/ WriteLines(p) \/ PublishCheckpoint(p)
                                \/ \E k \in 0 .. Len(batch[p]), cut \in Cuts : WritePartial(p, k, cut)
        PROVE  Leaves
    BY <1>0, <1>6 DEF OpenHistory, WriteLines, PublishCheckpoint, WritePartial
  <1>7. ASSUME NEW p \in Procs, Crash(p) PROVE Leaves
    BY <1>0, <1>7 DEF Crash, diskVars
  <1>8. ASSUME Operator PROVE Leaves
    BY <1>0, <1>8, Zenon DEF Operator, RemoveStaleLock, DeleteHistory, Archive, procVars
  <1>9. ASSUME UNCHANGED logVars PROVE Leaves
    BY <1>9 DEF logVars, diskVars, procVars
  <1> QED BY <1>1, <1>2, <1>3, <1>4, <1>5, <1>6, <1>7, <1>8, <1>9, LeavesExclusive
          DEF LogNext, Progress, Fault

\* Mutual exclusion: two processes are never inside the receipt lock at once,
\* and while one is, the lock file exists.
THEOREM Exclusive == LogSpec => []SectionExclusive
  <1>1. LogInit => SectionExclusive
    BY DEF LogInit, SectionExclusive, Critical
  <1> QED BY <1>1, TypeInit, TypeNext, ExclusiveNext, PTL DEF LogSpec
-----------------------------------------------------------------------------
(***************************************************************************)
(* The chain.  What is known of the file outlives the moment it was read:  *)
(* a trusted position may be compared with the file at any later time, and *)
(* the holder of the lock goes by what it read a few system calls ago.     *)
(***************************************************************************)

\* A position of this very object is no further than its end; at its end, its hash is the last.
Knows(t) ==
    t.obj # 0 /\ t.obj = file.obj =>
        /\ t.len <= Len(file.lines)
        /\ t.len = Len(file.lines) => t.hash = LastHash(file.lines)

\* Objects are numbered in the order they appear, and an absent file is empty.
Objects ==
    /\ nextObj > 0
    /\ file.obj < nextObj
    /\ file.obj = 0 => file = NoFile
    /\ \A p \in Procs : trusted[p].obj < nextObj /\ hist[p].obj < nextObj /\ opened[p] < nextObj

\* What the holder of the lock relies on before it opens, writes and settles.
HolderKnows ==
    \A p \in Procs :
        /\ pc[p] = "open" => Knows(hist[p]) /\ (hist[p].obj = 0 => hist[p].hash = None)
        /\ pc[p] = "write" =>
              /\ opened[p] # 0
              /\ opened[p] = file.obj => file.torn = FALSE /\ hist[p].hash = LastHash(file.lines)
        /\ pc[p] = "settle" =>
              /\ opened[p] # 0
              /\ opened[p] = file.obj => LastHash(file.lines) = batch[p][Len(batch[p])]

ChainInv ==
    /\ Objects
    /\ \A p \in Procs : Knows(trusted[p])
    /\ HolderKnows
    /\ ChainLinked

LEMMA LastHashType ==
    ASSUME NEW lines \in Seq(Line)
    PROVE  LastHash(lines) \in Receipts \cup {None}
  <1>1. lines # <<>> => Len(lines) \in 1 .. Len(lines)
    BY EmptySeq
  <1>2. lines # <<>> => lines[Len(lines)] \in Line
    BY <1>1, ElementOfSeq
  <1> QED BY <1>2 DEF LastHash, Line

\* Extending a linked history by the first k lines of a group that follows its last hash.
Extension(lines, b, k, cut) == lines \o Chained(LastHash(lines), b, k, cut)

LEMMA Extended ==
    ASSUME NEW lines \in Seq(Line), Linked(lines),
           NEW b \in Seq(Receipts), NEW k \in 0 .. Len(b), NEW cut \in Cuts
    PROVE  /\ Linked(Extension(lines, b, k, cut))
           /\ Len(Extension(lines, b, k, cut)) = Len(lines) + k
           /\ k = 0 => Extension(lines, b, k, cut) = lines
           /\ k > 0 => LastHash(Extension(lines, b, k, cut)) = b[k]
  <1> DEFINE new == Extension(lines, b, k, cut)
             h == LastHash(lines)
             tail == Chained(h, b, k, cut)
  <1>1. h \in Receipts \cup {None}
    BY LastHashType
  <1>2. Len(lines) \in Nat /\ Len(b) \in Nat /\ k \in Nat
    BY LenProperties
  <1>3. /\ tail \in Seq(Line)
        /\ Len(tail) = k
        /\ \A i \in 1 .. k : tail[i].id = b[i] /\ tail[i].prev = IF i = 1 THEN h ELSE b[i - 1]
    BY <1>1, ChainedType
  <1> HIDE DEF new, tail, h
  <1>5. ASSUME NEW i \in 1 .. k
        PROVE  tail[i].id = b[i] /\ tail[i].prev = IF i = 1 THEN h ELSE b[i - 1]
    BY <1>3
  <1>6. /\ new \in Seq(Line)
        /\ Len(new) = Len(lines) + k
        /\ \A i \in 1 .. Len(lines) + k :
               new[i] = IF i <= Len(lines) THEN lines[i] ELSE tail[i - Len(lines)]
    <2>1. new = lines \o tail
      BY DEF new, Extension, tail, h
    <2>2. /\ lines \o tail \in Seq(Line)
          /\ Len(lines \o tail) = Len(lines) + Len(tail)
          /\ \A i \in 1 .. Len(lines) + Len(tail) :
                 (lines \o tail)[i] = IF i <= Len(lines) THEN lines[i] ELSE tail[i - Len(lines)]
      BY <1>3, ConcatProperties
    <2> QED BY <1>3, <2>1, <2>2
  <1>7. DOMAIN lines = 1 .. Len(lines) /\ DOMAIN new = 1 .. Len(lines) + k
    BY <1>6, LenProperties
  <1>8. k > 0 => LastHash(new) = b[k]
    <2> SUFFICES ASSUME k > 0 PROVE LastHash(new) = b[k]
      OBVIOUS
    <2>1. new # <<>>
      <3>1. Len(<<>>) = 0
        BY EmptySeq
      <3>2. Len(new) # 0
        BY <1>2, <1>6
      <3> QED BY <3>1, <3>2, Zenon
    <2>2. new[Len(new)] = tail[k]
      BY <1>2, <1>6
    <2>3. tail[k].id = b[k]
      <3>1. k \in 1 .. k
        BY <1>2
      <3> QED BY <1>5, <3>1
    <2> QED BY <2>1, <2>2, <2>3 DEF LastHash
  <1>9. ASSUME NEW i \in DOMAIN new
        PROVE  new[i].prev = IF i = 1 THEN None ELSE new[i - 1].id
    <2>1. i \in 1 .. Len(lines) + k
      BY <1>7
    <2>2. CASE i <= Len(lines)
      BY <1>2, <1>6, <1>7, <2>1, <2>2 DEF Linked
    <2>3. CASE i = Len(lines) + 1
      <3>1. new[i].prev = h
        <4>1. 1 \in 1 .. k /\ new[i] = tail[1]
          BY <1>2, <1>6, <2>1, <2>3
        <4> QED BY <1>5, <4>1
      <3>2. lines = <<>> => Len(lines) = 0 /\ h = None
        BY EmptySeq DEF LastHash, h
      <3>3. lines # <<>> => Len(lines) > 0 /\ h = lines[Len(lines)].id
        BY EmptySeq DEF LastHash, h
      <3>4. Len(lines) > 0 => new[i - 1] = lines[Len(lines)]
        BY <1>2, <1>6, <2>1, <2>3
      <3> QED BY <1>2, <2>3, <3>1, <3>2, <3>3, <3>4
    <2>4. CASE i > Len(lines) + 1
      <3> DEFINE j == i - Len(lines)
      <3>1. j \in 2 .. k /\ j - 1 \in 1 .. k
        BY <1>2, <2>1, <2>4
      <3>2. new[i] = tail[j] /\ new[i - 1] = tail[j - 1]
        BY <1>2, <1>6, <2>1, <2>4
      <3>3. tail[j].prev = b[j - 1]
        BY <1>2, <1>5, <3>1
      <3>4. tail[j - 1].id = b[j - 1]
        <4> HIDE DEF j
        <4> QED BY <1>5, <3>1
      <3> QED BY <1>2, <2>1, <2>4, <3>2, <3>3, <3>4
    <2> QED BY <1>2, <2>1, <2>2, <2>3, <2>4
  <1>10. k = 0 => new = lines
    BY <1>2, <1>6, SeqEqual
  <1> QED BY <1>6, <1>8, <1>9, <1>10 DEF Linked, new

\* Steps that touch neither the file nor what processes know of it keep the invariant.
LEMMA QuietStep ==
    ASSUME ChainInv, UNCHANGED <<file, nextObj, trusted>>,
           \A q \in Procs :
               /\ hist'[q].obj < nextObj /\ opened'[q] < nextObj
               /\ pc'[q] \in {"open", "write", "settle"} =>
                      pc'[q] = pc[q] /\ hist'[q] = hist[q] /\ opened'[q] = opened[q] /\ batch'[q] = batch[q]
    PROVE  ChainInv'
  BY DEF ChainInv, Objects, HolderKnows, Knows, ChainLinked

\* The file goes; whoever held it open finds another object, or none, at its path.
LEMMA FileGone ==
    ASSUME ChainInv, file' = NoFile, UNCHANGED <<nextObj, procVars>>
    PROVE  ChainInv'
  BY DEF ChainInv, Objects, HolderKnows, Knows, ChainLinked, Linked, NoFile, procVars

LEMMA ChainNext ==
    TypeInv /\ SectionExclusive /\ ChainInv /\ [LogNext]_logVars => ChainInv'
  <1> SUFFICES ASSUME TypeInv, SectionExclusive, ChainInv, [LogNext]_logVars PROVE ChainInv'
    OBVIOUS
  <1>0. /\ pc \in [Procs -> Critical \cup {"idle", "lock", "down"}]
        /\ hist \in [Procs -> Position] /\ trusted \in [Procs -> Position]
        /\ opened \in [Procs -> Nat] /\ batch \in [Procs -> Seq(Receipts)]
        /\ file \in File /\ file.lines \in Seq(Line) /\ Len(file.lines) \in Nat
        /\ file.obj \in Nat /\ nextObj \in Nat
    BY LenProperties DEF TypeInv, TypeOK, File
  <1>Q. \A q \in Procs : hist[q].obj < nextObj /\ opened[q] < nextObj
    BY DEF ChainInv, Objects
  <1>1. ASSUME NEW p \in Procs, NEW e \in Receipts, Queue(p, e) PROVE ChainInv'
    BY <1>1, <1>Q, QuietStep DEF Queue, diskVars
  <1>2. ASSUME NEW p \in Procs, \/ Flush(p) \/ StartVerify(p) \/ Restart(p) \/ InspectForVerify(p)
        PROVE  ChainInv'
    BY <1>0, <1>2, <1>Q, QuietStep DEF Flush, StartVerify, Restart, InspectForVerify, Goto, diskVars
  <1>3. ASSUME NEW p \in Procs, \/ AcquireLock(p) \/ PublishCheckpoint(p) \/ IoFault(p)
        PROVE  ChainInv'
    BY <1>0, <1>3, <1>Q, QuietStep DEF AcquireLock, PublishCheckpoint, IoFault, Goto, Refuse, diskVars
  <1>4. ASSUME NEW p \in Procs, \/ LockTimeout(p) \/ Release(p)
        PROVE  ChainInv'
    <2>1. /\ UNCHANGED <<file, nextObj, trusted>>
          /\ pc' = [pc EXCEPT ![p] = "idle"] /\ batch' = [batch EXCEPT ![p] = <<>>]
          /\ hist' = [hist EXCEPT ![p] = NoTrust] /\ opened' = [opened EXCEPT ![p] = 0]
      BY <1>4, Zenon DEF LockTimeout, Release, Finish, Goto, diskVars
    <2>2. nextObj > 0
      BY DEF ChainInv, Objects
    <2> QED BY <1>0, <1>Q, <2>1, <2>2, QuietStep DEF NoTrust
  <1>5. ASSUME NEW p \in Procs, Crash(p) PROVE ChainInv'
    <2>1. /\ UNCHANGED <<file, nextObj>>
          /\ pc' = [pc EXCEPT ![p] = "down"] /\ batch' = [batch EXCEPT ![p] = <<>>]
          /\ hist' = [hist EXCEPT ![p] = NoTrust] /\ opened' = [opened EXCEPT ![p] = 0]
          /\ trusted' = [trusted EXCEPT ![p] = NoTrust]
      BY <1>5, Zenon DEF Crash, Goto, diskVars
    <2> QED BY <1>0, <2>1 DEF ChainInv, Objects, HolderKnows, Knows, ChainLinked, NoTrust
  <1>6. ASSUME NEW p \in Procs, InspectForAppend(p) PROVE ChainInv'
    <2>1. UNCHANGED <<file, nextObj, opened, batch>>
      BY <1>6 DEF InspectForAppend, diskVars
    <2>2. CASE trusted[p].obj # 0 /\ SameFile(trusted[p], file)
      <3>1. /\ hist' = [hist EXCEPT ![p] = trusted[p]]
            /\ pc' = [pc EXCEPT ![p] = "open"] /\ UNCHANGED trusted
        BY <1>6, <2>2, Zenon DEF InspectForAppend, Goto
      <3> QED BY <1>0, <2>1, <2>2, <3>1 DEF ChainInv, Objects, HolderKnows, Knows, ChainLinked
    <2>3. CASE ~ (trusted[p].obj # 0 /\ SameFile(trusted[p], file))
      <3>1. /\ hist' = [hist EXCEPT ![p] = Identity(file)]
            /\ \E t \in {Identity(file), NoTrust} : trusted' = [trusted EXCEPT ![p] = t]
            /\ pc' = [pc EXCEPT ![p] = "open"] \/ pc' = [pc EXCEPT ![p] = "release"]
        BY <1>6, <2>3, Zenon DEF InspectForAppend, Goto, Refuse
      <3>2. /\ Identity(file).obj = file.obj
            /\ Identity(file).len = Len(file.lines)
            /\ Identity(file).hash = LastHash(file.lines)
            /\ NoTrust.obj = 0
            /\ file.obj = 0 => LastHash(file.lines) = None
        BY DEF Identity, NoTrust, ChainInv, Objects, NoFile, LastHash
      <3> QED BY <1>0, <2>1, <3>1, <3>2 DEF ChainInv, Objects, HolderKnows, Knows, ChainLinked
    <2> QED BY <2>2, <2>3
  <1>7. ASSUME NEW p \in Procs, pc[p] \in Critical
        PROVE  \A q \in Procs : q # p => pc[q] \notin {"open", "write", "settle"}
    BY <1>7 DEF SectionExclusive, Critical
  <1>8. ASSUME NEW p \in Procs, OpenHistory(p) PROVE ChainInv'
    <2>1. /\ pc[p] = "open" /\ UNCHANGED <<hist, trusted, batch>>
          /\ pc' = [pc EXCEPT ![p] = "write"] \/ pc' = [pc EXCEPT ![p] = "release"]
      BY <1>8, Zenon DEF OpenHistory, Goto, Refuse
    <2>2. \A q \in Procs : q # p => pc[q] \notin {"open", "write", "settle"}
      BY <1>7, <2>1 DEF Critical
    <2>3. CASE file.obj = 0
      <3>1. /\ file' = [obj |-> nextObj, lines |-> <<>>, torn |-> FALSE]
            /\ nextObj' = nextObj + 1
            /\ opened' = [opened EXCEPT ![p] = nextObj]
        BY <1>8, <2>3, Zenon DEF OpenHistory, CreateEmpty
      <3>2. file'.obj = nextObj /\ file'.lines = <<>> /\ file'.torn = FALSE
        BY <3>1
      <3>3. Objects' /\ \A q \in Procs : Knows(trusted[q])'
        <4>1. ASSUME NEW q \in Procs
              PROVE  /\ trusted[q].obj \in Nat /\ hist[q].obj \in Nat /\ opened[q] \in Nat
                     /\ trusted[q].obj < nextObj /\ hist[q].obj < nextObj /\ opened[q] < nextObj
          BY <1>0 DEF ChainInv, Objects, Position
        <4>2. \A q \in Procs : Knows(trusted[q])'
          BY <2>1, <3>2, <4>1 DEF Knows
        <4>3. Objects'
          BY <1>0, <2>1, <3>1, <3>2, <4>1 DEF ChainInv, Objects
        <4> QED BY <4>2, <4>3
      <3>4. pc'[p] = "write" => hist[p].obj = 0
        BY <1>0, <1>8, <2>3 DEF OpenHistory, SameFile, Refuse, Goto
      <3>5. LastHash(<<>>) = None
        BY DEF LastHash
      <3>6. HolderKnows'
        BY <1>0, <2>1, <2>2, <3>1, <3>2, <3>4, <3>5 DEF ChainInv, Objects, HolderKnows
      <3> QED BY <3>2, <3>3, <3>6 DEF ChainInv, ChainLinked, Linked
    <2>4. CASE file.obj # 0
      <3>1. UNCHANGED <<file, nextObj>> /\ opened' = [opened EXCEPT ![p] = file.obj]
        BY <1>8, <2>4, Zenon DEF OpenHistory
      <3>2. pc'[p] = "write" => SameFile(hist[p], file)
        BY <1>0, <1>8, <2>4 DEF OpenHistory, Refuse, Goto
      <3>3. Knows(hist[p])
        BY <2>1 DEF ChainInv, HolderKnows
      <3>4. pc'[p] = "write" => file.torn = FALSE /\ hist[p].hash = LastHash(file.lines)
        BY <1>0, <2>4, <3>2, <3>3 DEF SameFile, Knows, File
      <3>5. HolderKnows'
        BY <1>0, <2>1, <2>2, <2>4, <3>1, <3>4 DEF HolderKnows
      <3> QED BY <1>0, <2>1, <3>1, <3>5 DEF ChainInv, Objects, Knows, ChainLinked
    <2> QED BY <2>3, <2>4
  <1>9. ASSUME NEW p \in Procs, NEW k \in 0 .. Len(batch[p]), NEW cut \in Cuts,
               pc[p] = "write", Persist(p, k, cut),
               UNCHANGED <<nextObj, hist, trusted, opened, batch>>,
               \/ pc' = [pc EXCEPT ![p] = "release"]
               \/ pc' = [pc EXCEPT ![p] = "settle"] /\ k = Len(batch[p]) /\ k > 0
        PROVE  ChainInv'
    <2>1. \A q \in Procs : q # p => pc[q] \notin {"open", "write", "settle"}
      BY <1>7, <1>9 DEF Critical
    <2>2. CASE file.obj = opened[p]
      <3>1. /\ file'.obj = file.obj
            /\ file'.lines = Extension(file.lines, batch[p], k, cut)
        <4>1. hist[p].hash = LastHash(file.lines)
          BY <1>9, <2>2 DEF ChainInv, HolderKnows
        <4>2. file' = [obj |-> file.obj, lines |-> file.lines \o Chained(hist[p].hash, batch[p], k, cut),
                       torn |-> cut = "record"]
          BY <1>9, <2>2 DEF Persist
        <4> QED BY <4>1, <4>2 DEF Extension
      <3>2. batch[p] \in Seq(Receipts) /\ Linked(file.lines) /\ k \in Nat
        BY <1>0, LenProperties DEF ChainInv, ChainLinked
      <3>3. /\ Linked(file'.lines)
            /\ Len(file'.lines) = Len(file.lines) + k
            /\ k = 0 => file'.lines = file.lines
            /\ k > 0 => LastHash(file'.lines) = batch[p][k]
        BY <1>0, <3>1, <3>2, Extended
      <3>4. opened[p] # 0
        BY <1>9 DEF ChainInv, HolderKnows
      <3>5. Objects'
        BY <1>9, <2>2, <3>1, <3>4 DEF ChainInv, Objects
      <3>6. ASSUME NEW q \in Procs PROVE Knows(trusted[q])'
        <4>1. trusted[q].len \in Nat
          BY <1>0 DEF Position
        <4>2. Knows(trusted[q])
          BY DEF ChainInv
        <4>3. CASE k = 0
          BY <1>9, <3>1, <3>3, <4>2, <4>3 DEF Knows
        <4>4. CASE k > 0
          <5>1. Len(file'.lines) = Len(file.lines) + k /\ Len(file.lines) \in Nat
            BY <1>0, <3>3
          <5>2. trusted' = trusted /\ file'.obj = file.obj
            BY <1>9, <3>1
          <5> QED BY <3>2, <4>1, <4>2, <4>4, <5>1, <5>2 DEF Knows
        <4> QED BY <3>2, <4>3, <4>4
      <3>7. HolderKnows'
        BY <1>0, <1>9, <2>1, <3>1, <3>3, <3>4 DEF HolderKnows
      <3> QED BY <3>3, <3>5, <3>6, <3>7 DEF ChainInv, ChainLinked
    <2>3. CASE file.obj # opened[p]
      <3>1. UNCHANGED file
        BY <1>9, <2>3 DEF Persist
      <3>2. HolderKnows'
        BY <1>0, <1>9, <2>1, <2>3, <3>1 DEF ChainInv, HolderKnows
      <3> QED BY <1>9, <3>1, <3>2 DEF ChainInv, Objects, Knows, ChainLinked
    <2> QED BY <2>2, <2>3
  <1>10. ASSUME NEW p \in Procs, WriteLines(p) PROVE ChainInv'
    <2>1. batch[p] # <<>>
      BY <1>10 DEF WriteLines, TypeInv, GroupHeld
    <2>2. Len(batch[p]) \in 0 .. Len(batch[p]) /\ Len(batch[p]) > 0
      BY <1>0, <2>1, EmptySeq
    <2> QED BY <1>9, <1>10, <2>2, WholeCut DEF WriteLines, Goto
  <1>11. ASSUME NEW p \in Procs, NEW k \in 0 .. Len(batch[p]), NEW cut \in Cuts,
                WritePartial(p, k, cut)
         PROVE  ChainInv'
    BY <1>9, <1>11 DEF WritePartial, Refuse, Goto
  <1>12. ASSUME NEW p \in Procs, SettleAppend(p) PROVE ChainInv'
    <2>1. /\ pc[p] = "settle" /\ UNCHANGED <<file, nextObj, hist, opened, batch>>
          /\ pc' = [pc EXCEPT ![p] = "publish"] \/ pc' = [pc EXCEPT ![p] = "release"]
      BY <1>12, Zenon DEF SettleAppend, Goto, Refuse, diskVars
    <2>2. \A q \in Procs : pc'[q] \notin {"open", "write", "settle"}
      BY <1>0, <1>7, <2>1 DEF Critical
    <2>3. CASE file.obj = opened[p]
      <3>1. trusted' = [trusted EXCEPT ![p] =
                [obj |-> file.obj, len |-> Len(file.lines), hash |-> batch[p][Len(batch[p])]]]
        BY <1>12, <2>3, Zenon DEF SettleAppend
      <3>2. LastHash(file.lines) = batch[p][Len(batch[p])]
        BY <2>1, <2>3 DEF ChainInv, HolderKnows
      <3> QED BY <1>0, <2>1, <2>2, <3>1, <3>2 DEF ChainInv, Objects, HolderKnows, Knows, ChainLinked
    <2>4. CASE file.obj # opened[p]
      <3>1. UNCHANGED trusted
        BY <1>12, <2>4, Zenon DEF SettleAppend
      <3> QED BY <1>0, <2>1, <2>2, <3>1 DEF ChainInv, Objects, HolderKnows, Knows, ChainLinked
    <2> QED BY <2>3, <2>4
  <1>13. ASSUME Operator PROVE ChainInv'
    <2>1. CASE RemoveStaleLock
      BY <1>Q, <2>1, QuietStep DEF RemoveStaleLock, procVars
    <2>2. CASE DeleteHistory \/ Archive
      BY <2>2, FileGone, Zenon DEF DeleteHistory, Archive, procVars
    <2> QED BY <1>13, <2>1, <2>2 DEF Operator
  <1>14. ASSUME UNCHANGED logVars PROVE ChainInv'
    BY <1>14, <1>Q, QuietStep DEF logVars, diskVars, procVars
  <1> QED BY <1>1, <1>2, <1>3, <1>4, <1>5, <1>6, <1>8, <1>10, <1>11, <1>12, <1>13, <1>14
          DEF LogNext, Progress, Fault

LEMMA DamageNext ==
    TypeInv /\ ChainInv /\ [LogNext]_logVars => (file.torn => file' \in {file, NoFile})
  <1> SUFFICES ASSUME TypeInv, ChainInv, [LogNext]_logVars, file.torn
               PROVE  file' \in {file, NoFile}
    OBVIOUS
  <1>0. file.torn = TRUE
    BY DEF TypeInv, TypeOK, File
  <1>1. file.obj # 0
    BY <1>0 DEF ChainInv, Objects, NoFile
  <1>2. ASSUME NEW p \in Procs, OpenHistory(p) PROVE UNCHANGED file
    BY <1>1, <1>2 DEF OpenHistory
  <1>3. ASSUME NEW p \in Procs, NEW k, NEW cut \in Cuts, pc[p] = "write", Persist(p, k, cut)
        PROVE  UNCHANGED file
    BY <1>0, <1>3 DEF Persist, ChainInv, HolderKnows
  <1>4. ASSUME NEW p \in Procs, \/ WriteLines(p)
                                \/ \E k \in 0 .. Len(batch[p]), cut \in Cuts : WritePartial(p, k, cut)
        PROVE  UNCHANGED file
    BY <1>3, <1>4, WholeCut, Zenon DEF WriteLines, WritePartial
  <1>5. ASSUME NEW p \in Procs, NEW e \in Receipts, Queue(p, e) PROVE UNCHANGED file
    BY <1>5 DEF Queue, diskVars
  <1>6. ASSUME NEW p \in Procs,
               \/ Flush(p) \/ StartVerify(p) \/ LockTimeout(p) \/ Restart(p) \/ AcquireLock(p)
               \/ InspectForAppend(p) \/ InspectForVerify(p) \/ SettleAppend(p)
               \/ PublishCheckpoint(p) \/ IoFault(p) \/ Release(p) \/ Crash(p)
        PROVE  UNCHANGED file
    BY <1>6, Zenon DEF Flush, StartVerify, LockTimeout, Restart, AcquireLock, InspectForAppend,
           InspectForVerify, SettleAppend, PublishCheckpoint, IoFault, Release, Crash, diskVars
  <1>7. ASSUME Operator PROVE file' \in {file, NoFile}
    BY <1>7, Zenon DEF Operator, RemoveStaleLock, DeleteHistory, Archive
  <1>8. ASSUME UNCHANGED logVars PROVE UNCHANGED file
    BY <1>8 DEF logVars, diskVars
  <1> QED BY <1>2, <1>4, <1>5, <1>6, <1>7, <1>8 DEF LogNext, Progress, Fault

\* The three invariants together.
THEOREM LogInvariant == LogSpec => [](TypeInv /\ SectionExclusive /\ ChainInv)
  <1>1. LogInit => ChainInv
    BY DEF LogInit, ChainInv, Objects, HolderKnows, Knows, ChainLinked, Linked, NoFile, NoTrust
  <1>2. LogInit => SectionExclusive
    BY DEF LogInit, SectionExclusive, Critical
  <1> QED BY <1>1, <1>2, TypeInit, TypeNext, ExclusiveNext, ChainNext, PTL DEF LogSpec

\* The history is never forked: each of its lines names the line before it.
THEOREM NeverForked == LogSpec => []ChainLinked
  <1>1. ChainInv => ChainLinked
    BY DEF ChainInv
  <1> QED BY <1>1, LogInvariant, PTL

\* A torn history stays as it is until the operator takes it away.
THEOREM DamageKept == LogSpec => DamagedNeverExtended
  <1>1. TypeInv /\ ChainInv /\ [LogNext]_logVars => [file.torn => file' \in {file, NoFile}]_logVars
    BY DamageNext
  <1> QED BY <1>1, LogInvariant, PTL DEF LogSpec, DamagedNeverExtended
-----------------------------------------------------------------------------
(***************************************************************************)
(* What a caller was told.  On its way out of the section a group that     *)
(* will be resolved is on record, under a checkpoint or in an archive.     *)
(***************************************************************************)

GroupRecorded ==
    \A p \in Procs :
        /\ job[p] = "verify" => batch[p] = <<>>
        /\ pc[p] = "settle" /\ opened[p] = file.obj => ToSet(batch[p]) \subseteq recorded
        /\ pc[p] = "publish" => ToSet(batch[p]) \subseteq recorded
        /\ pc[p] = "release" /\ outcome[p] = "ok" =>
              /\ ToSet(batch[p]) \subseteq recorded
              /\ ckpt = TRUE \/ ToSet(batch[p]) \subseteq archived

TraceInv ==
    /\ GroupRecorded
    /\ Answered \subseteq recorded
    /\ Answered \subseteq archived \/ ckpt = TRUE

\* A step that resolves nobody, takes nothing away and keeps every process where
\* the invariant says nothing of it, or as it is, keeps the invariant.
LEMMA TraceStep ==
    ASSUME TraceInv, Answered' \subseteq Answered,
           recorded \subseteq recorded', archived \subseteq archived', ckpt = TRUE => ckpt' = TRUE,
           \A q \in Procs :
               \/ /\ pc'[q] \notin {"settle", "publish", "release"}
                  /\ job'[q] = "verify" => batch'[q] = <<>>
               \/ /\ pc'[q] = pc[q] /\ job'[q] = job[q] /\ batch'[q] = batch[q]
                  /\ outcome'[q] = outcome[q]
                  /\ opened'[q] = opened[q] /\ file'.obj = file.obj
               \/ /\ pc'[q] = "release" /\ outcome'[q] = "failed"
                  /\ job'[q] = "verify" => batch'[q] = <<>>
    PROVE  TraceInv'
  BY DEF TraceInv, GroupRecorded

LEMMA AnswerResolves ==
    ASSUME NEW S, NEW a \in {"queued", "rejected", "lost"}, promise' = Answer(S, a)
    PROVE  Answered' \subseteq Answered
  BY DEF Answered, Answer

LEMMA TraceNext ==
    TypeInv /\ SectionExclusive /\ ChainInv /\ TraceInv /\ [LogNext]_logVars => TraceInv'
  <1> SUFFICES ASSUME TypeInv, SectionExclusive, ChainInv, TraceInv, [LogNext]_logVars
               PROVE  TraceInv'
    OBVIOUS
  <1>0. /\ pc \in [Procs -> Critical \cup {"idle", "lock", "down"}]
        /\ job \in [Procs -> {"none", "append", "verify"}]
        /\ outcome \in [Procs -> {"none", "ok", "failed"}]
        /\ opened \in [Procs -> Nat] /\ batch \in [Procs -> Seq(Receipts)]
        /\ file.obj \in Nat
        /\ \A q \in Procs : pc[q] \in {"idle", "down"} => batch[q] = <<>> /\ job[q] = "none"
        /\ \A q \in Procs : pc[q] \in {"open", "write", "settle"} => job[q] = "append"
        /\ \A q \in Procs : job[q] = "verify" => batch[q] = <<>>
    BY DEF TypeInv, TypeOK, GroupHeld, File, TraceInv, GroupRecorded
  <1>U. UNCHANGED promise => Answered' \subseteq Answered
    BY DEF Answered
  <1>1. ASSUME NEW p \in Procs, NEW e \in Receipts, Queue(p, e) PROVE TraceInv'
    <2>1. Answered' \subseteq Answered
      BY <1>1, AnswerResolves DEF Queue
    <2> QED BY <1>1, <2>1, TraceStep DEF Queue, diskVars, ghostVars
  <1>2. ASSUME NEW p \in Procs, \/ Flush(p) \/ StartVerify(p) \/ Restart(p) \/ AcquireLock(p)
        PROVE  TraceInv'
    <2>1. /\ UNCHANGED <<ckpt, recorded, archived, promise, opened, file>>
          /\ \A q \in Procs :
                \/ /\ pc'[q] \notin {"settle", "publish", "release"}
                   /\ job'[q] = "verify" => batch'[q] = <<>>
                \/ /\ pc'[q] = pc[q] /\ job'[q] = job[q] /\ batch'[q] = batch[q] /\ outcome'[q] = outcome[q]
      <3>1. CASE Flush(p)
        BY <1>0, <3>1 DEF Flush, Goto, diskVars, ghostVars
      <3>2. CASE StartVerify(p)
        BY <1>0, <3>2 DEF StartVerify, Goto, diskVars, ghostVars
      <3>3. CASE Restart(p)
        BY <1>0, <3>3 DEF Restart, Goto, diskVars, ghostVars
      <3>4. CASE AcquireLock(p)
        BY <1>0, <3>4 DEF AcquireLock, Goto, ghostVars
      <3> QED BY <1>2, <3>1, <3>2, <3>3, <3>4
    <2> QED BY <1>U, <2>1, TraceStep
  <1>3. ASSUME NEW p \in Procs, NEW a \in {"rejected", "lost"}, \E S : promise' = Answer(S, a),
               batch' = [batch EXCEPT ![p] = <<>>], job' = [job EXCEPT ![p] = "none"],
               pc' = [pc EXCEPT ![p] = "idle"] \/ pc' = [pc EXCEPT ![p] = "down"],
               outcome' = [outcome EXCEPT ![p] = "none"], opened' = [opened EXCEPT ![p] = 0],
               UNCHANGED <<file, ckpt, recorded, archived>>
        PROVE  TraceInv'
    <2>1. Answered' \subseteq Answered
      BY <1>3, AnswerResolves
    <2>2. \A q \in Procs :
             \/ pc'[q] \notin {"settle", "publish", "release"} /\ job'[q] # "verify"
             \/ /\ pc'[q] = pc[q] /\ job'[q] = job[q] /\ batch'[q] = batch[q]
                /\ outcome'[q] = outcome[q] /\ opened'[q] = opened[q]
      BY <1>0, <1>3
    <2> QED BY <1>3, <2>1, <2>2, TraceStep
  <1>4. ASSUME NEW p \in Procs, LockTimeout(p) PROVE TraceInv'
    BY <1>3, <1>4, Zenon DEF LockTimeout, Finish, Goto, diskVars, ghostVars
  <1>5. ASSUME NEW p \in Procs, Crash(p) PROVE TraceInv'
    BY <1>3, <1>5, Zenon DEF Crash, Goto, diskVars
  <1>6. ASSUME NEW p \in Procs, pc' = [pc EXCEPT ![p] = "release"],
               outcome' = [outcome EXCEPT ![p] = "failed"],
               UNCHANGED <<job, batch, promise, ckpt, archived>>, recorded \subseteq recorded',
               \A q \in Procs : q # p => opened'[q] = opened[q],
               file'.obj = file.obj \/ \A q \in Procs : q # p => pc[q] \notin {"settle", "publish", "release"}
        PROVE  TraceInv'
    BY <1>0, <1>6, <1>U, TraceStep
  <1>7. ASSUME NEW p \in Procs, pc[p] \in Critical
        PROVE  \A q \in Procs : q # p => pc[q] \notin {"settle", "publish", "release"}
    BY <1>7 DEF SectionExclusive, Critical
  <1>8. ASSUME NEW p \in Procs, IoFault(p) PROVE TraceInv'
    BY <1>6, <1>8, Zenon DEF IoFault, Refuse, Goto, diskVars
  <1>9. ASSUME NEW p \in Procs, InspectForAppend(p) PROVE TraceInv'
    <2>1. /\ UNCHANGED <<file, ckpt, recorded, archived, promise, job, batch, opened>>
          /\ \/ pc' = [pc EXCEPT ![p] = "open"] /\ outcome' = outcome
             \/ pc' = [pc EXCEPT ![p] = "release"] /\ outcome' = [outcome EXCEPT ![p] = "failed"]
      BY <1>9, Zenon DEF InspectForAppend, Refuse, Goto, diskVars, ghostVars
    <2>2. \A q \in Procs :
             \/ pc'[q] = "open" /\ job'[q] = job[q] /\ batch'[q] = batch[q]
             \/ pc'[q] = pc[q] /\ outcome'[q] = outcome[q]
             \/ pc'[q] = "release" /\ outcome'[q] = "failed"
      BY <1>0, <2>1
    <2> QED BY <1>0, <1>U, <2>1, <2>2, TraceStep
  <1>10. ASSUME NEW p \in Procs, InspectForVerify(p) PROVE TraceInv'
    <2>1. /\ UNCHANGED <<file, ckpt, recorded, archived, promise, job, batch, opened, outcome>>
          /\ job[p] = "verify" /\ pc' = [pc EXCEPT ![p] = "release"]
      BY <1>10 DEF InspectForVerify, Goto, diskVars, ghostVars
    <2>2. ToSet(batch[p]) = {}
      BY <1>0, <2>1, EmptySeq DEF ToSet
    <2> QED BY <1>0, <2>1, <2>2 DEF TraceInv, GroupRecorded, Answered
  <1>11. ASSUME NEW p \in Procs, OpenHistory(p) PROVE TraceInv'
    <2>1. /\ pc[p] = "open" /\ UNCHANGED <<ckpt, recorded, archived, promise, job, batch>>
          /\ \A q \in Procs : q # p => opened'[q] = opened[q]
          /\ \/ pc' = [pc EXCEPT ![p] = "write"] /\ outcome' = outcome
             \/ pc' = [pc EXCEPT ![p] = "release"] /\ outcome' = [outcome EXCEPT ![p] = "failed"]
      BY <1>0, <1>11 DEF OpenHistory, Refuse, Goto, ghostVars
    <2>2. \A q \in Procs : q # p => pc[q] \notin {"settle", "publish", "release"}
      BY <1>7, <2>1 DEF Critical
    <2>3. \A q \in Procs :
             \/ pc'[q] \notin {"settle", "publish", "release"}
             \/ q # p /\ pc'[q] = pc[q] /\ outcome'[q] = outcome[q]
             \/ q = p /\ pc'[q] = "release" /\ outcome'[q] = "failed"
      BY <1>0, <2>1
    <2>4. \A q \in Procs : \/ pc'[q] \notin {"settle", "publish", "release"}
                           \/ pc'[q] = "release" /\ outcome'[q] = "failed"
      BY <2>2, <2>3
    <2> QED BY <1>0, <1>U, <2>1, <2>4, TraceStep
  <1>12. ASSUME NEW p \in Procs, NEW k, NEW cut \in Cuts, Persist(p, k, cut)
         PROVE  file'.obj = file.obj /\ recorded \subseteq recorded'
    <2>1. recorded \subseteq recorded'
      BY <1>12, Zenon DEF Persist
    <2> QED BY <1>12, <2>1, Persisted
  <1>13. ASSUME NEW p \in Procs, WriteLines(p) PROVE TraceInv'
    <2>1. /\ pc[p] = "write" /\ pc' = [pc EXCEPT ![p] = "settle"]
          /\ UNCHANGED <<ckpt, archived, promise, job, batch, opened, outcome>>
          /\ file'.obj = file.obj /\ recorded \subseteq recorded'
      BY <1>12, <1>13, WholeCut DEF WriteLines, Goto
    <2>2. file.obj = opened[p] => ToSet(batch[p]) \subseteq recorded'
      <3>1. SubSeq(batch[p], 1, Len(batch[p])) = batch[p]
        BY <1>0, SubSeqFull
      <3> QED BY <1>13, <3>1 DEF WriteLines, Persist
    <2>3. Answered' = Answered
      BY <2>1 DEF Answered
    <2> QED BY <1>0, <2>1, <2>2, <2>3 DEF TraceInv, GroupRecorded
  <1>14. ASSUME NEW p \in Procs, NEW k \in 0 .. Len(batch[p]), NEW cut \in Cuts,
                WritePartial(p, k, cut)
         PROVE  TraceInv'
    <2>1. file'.obj = file.obj /\ recorded \subseteq recorded'
      BY <1>12, <1>14 DEF WritePartial
    <2> QED BY <1>6, <1>14, <2>1 DEF WritePartial, Refuse, Goto
  <1>15. ASSUME NEW p \in Procs, SettleAppend(p) PROVE TraceInv'
    <2>1. /\ pc[p] = "settle"
          /\ UNCHANGED <<file, ckpt, recorded, archived, promise, job, batch, opened>>
          /\ \/ file.obj = opened[p] /\ pc' = [pc EXCEPT ![p] = "publish"] /\ outcome' = outcome
             \/ pc' = [pc EXCEPT ![p] = "release"] /\ outcome' = [outcome EXCEPT ![p] = "failed"]
      BY <1>15, Zenon DEF SettleAppend, Refuse, Goto, diskVars, ghostVars
    <2> QED BY <1>0, <2>1 DEF TraceInv, GroupRecorded, Answered
  <1>16. ASSUME NEW p \in Procs, PublishCheckpoint(p) PROVE TraceInv'
    <2>1. /\ pc[p] = "publish" /\ pc' = [pc EXCEPT ![p] = "release"]
          /\ \/ ckpt' = TRUE /\ outcome' = outcome
             \/ ckpt' = ckpt /\ outcome' = [outcome EXCEPT ![p] = "failed"]
          /\ UNCHANGED <<file, recorded, archived, promise, job, batch, opened>>
      BY <1>16, Zenon DEF PublishCheckpoint, Refuse, Goto, ghostVars
    <2> QED BY <1>0, <2>1 DEF TraceInv, GroupRecorded, Answered
  <1>17. ASSUME NEW p \in Procs, Release(p) PROVE TraceInv'
    <2>1. UNCHANGED <<file, ckpt, recorded, archived>>
      BY <1>17 DEF Release
    <2>2. CASE Finish(p, "rejected")
      BY <1>3, <2>1, <2>2, Zenon DEF Finish, Goto
    <2>3. CASE ~ Finish(p, "rejected")
      <3>1. outcome[p] = "ok" /\ Finish(p, "resolved") /\ pc[p] = "release"
        BY <1>17, <2>3, Zenon DEF Release
      <3>2. /\ ToSet(batch[p]) \subseteq recorded
            /\ ckpt = TRUE \/ ToSet(batch[p]) \subseteq archived
        BY <3>1 DEF TraceInv, GroupRecorded
      <3>3. Answered' \subseteq Answered \cup ToSet(batch[p])
        BY <3>1 DEF Finish, Answered, Answer
      <3>4. /\ pc' = [pc EXCEPT ![p] = "idle"] /\ batch' = [batch EXCEPT ![p] = <<>>]
            /\ job' = [job EXCEPT ![p] = "none"] /\ outcome' = [outcome EXCEPT ![p] = "none"]
            /\ opened' = [opened EXCEPT ![p] = 0]
        BY <3>1 DEF Finish, Goto
      <3>5. GroupRecorded'
        BY <1>0, <2>1, <3>4 DEF TraceInv, GroupRecorded
      <3> QED BY <2>1, <3>2, <3>3, <3>5 DEF TraceInv
    <2> QED BY <2>2, <2>3
  <1>18. ASSUME Operator PROVE TraceInv'
    <2>1. UNCHANGED <<recorded, procVars, promise>>
      BY <1>18, Zenon DEF Operator, RemoveStaleLock, DeleteHistory, Archive, procVars
    <2>2. \/ file' = file /\ UNCHANGED <<ckpt, archived>>
          \/ file' = NoFile /\ UNCHANGED <<ckpt, archived>>
          \/ file' = NoFile /\ archived' = recorded
      BY <1>18, Zenon DEF Operator, RemoveStaleLock, DeleteHistory, Archive
    <2>3. Answered' = Answered
      BY <2>1 DEF Answered
    <2>4. \A q \in Procs : pc[q] = "settle" => opened[q] # 0
      BY DEF ChainInv, HolderKnows
    <2> QED BY <2>1, <2>2, <2>3, <2>4 DEF TraceInv, GroupRecorded, procVars, NoFile
  <1>19. ASSUME UNCHANGED logVars PROVE TraceInv'
    BY <1>19 DEF TraceInv, GroupRecorded, Answered, logVars, diskVars, procVars, ghostVars
  <1> QED BY <1>1, <1>2, <1>4, <1>5, <1>8, <1>9, <1>10, <1>11, <1>13, <1>14, <1>15, <1>16, <1>17,
             <1>18, <1>19 DEF LogNext, Progress, Fault

LEMMA TraceInit == LogInit => TraceInv
  BY DEF LogInit, TraceInv, GroupRecorded, Answered

\* A caller that was told its receipt is persisted can rely on it: it is, and a
\* later deletion of the history leaves a checkpoint behind.
THEOREM AnsweredIsRecorded == LogSpec => [](Answered \subseteq recorded /\ DeletionLeavesTrace)
  <1>1. TraceInv => Answered \subseteq recorded /\ DeletionLeavesTrace
    BY DEF TraceInv, DeletionLeavesTrace
  <1> QED BY <1>1, TraceInit, TraceNext, LogInvariant, PTL DEF LogSpec
-----------------------------------------------------------------------------
(***************************************************************************)
(* One receipt, one place.  A receipt whose caller waits is held by one    *)
(* process, once; it is not on record while it may still be written.       *)
(***************************************************************************)

Waiting == {e \in Receipts : promise[e] = "queued"}

Held(p) == ToSet(queue[p]) \cup ToSet(batch[p])

OnceInv ==
    /\ \A p \in Procs :
          /\ IsInjective(queue[p]) /\ IsInjective(batch[p])
          /\ ToSet(queue[p]) \cap ToSet(batch[p]) = {}
          /\ Held(p) \subseteq Waiting
          /\ ToSet(queue[p]) \cap recorded = {}
          /\ pc[p] \in {"lock", "inspect", "open", "write"} => ToSet(batch[p]) \cap recorded = {}
    /\ \A p, q \in Procs : p # q => Held(p) \cap Held(q) = {}
    /\ \A e \in recorded : promise[e] # "none"

LEMMA EmptyGroup == ToSet(<<>>) = {} /\ IsInjective(<<>>)
  BY EmptySeq DEF ToSet, IsInjective

LEMMA AppendGroup ==
    ASSUME NEW s \in Seq(Receipts), NEW e \in Receipts, IsInjective(s), e \notin ToSet(s)
    PROVE  ToSet(Append(s, e)) = ToSet(s) \cup {e} /\ IsInjective(Append(s, e))
  <1>1. /\ DOMAIN s = 1 .. Len(s) /\ DOMAIN Append(s, e) = 1 .. Len(s) + 1
        /\ Len(s) \in Nat
        /\ \A i \in 1 .. Len(s) : Append(s, e)[i] = s[i]
        /\ Append(s, e)[Len(s) + 1] = e
    BY AppendProperties, LenProperties
  <1>2. \A i \in 1 .. Len(s) + 1 : i \in 1 .. Len(s) \/ i = Len(s) + 1
    BY <1>1
  <1>3. \A i \in 1 .. Len(s) : i \in 1 .. Len(s) + 1 /\ s[i] \in ToSet(s)
    BY <1>1 DEF ToSet
  <1>4. ToSet(Append(s, e)) = ToSet(s) \cup {e}
    <2>1. ToSet(Append(s, e)) \subseteq ToSet(s) \cup {e}
      BY <1>1, <1>2 DEF ToSet
    <2>2. Len(s) + 1 \in 1 .. Len(s) + 1
      BY <1>1
    <2>3. ToSet(s) \subseteq ToSet(Append(s, e)) /\ e \in ToSet(Append(s, e))
      BY <1>1, <1>3, <2>2 DEF ToSet
    <2> QED BY <2>1, <2>3
  <1>5. ASSUME NEW i \in 1 .. Len(s) + 1, NEW j \in 1 .. Len(s) + 1,
               Append(s, e)[i] = Append(s, e)[j]
        PROVE  i = j
    BY <1>1, <1>2, <1>3, <1>5 DEF IsInjective
  <1> QED BY <1>1, <1>4, <1>5 DEF IsInjective

\* Any part of a group is one of the orders of the receipts in it.
LEMMA GroupOrder ==
    ASSUME NEW s \in Seq(Receipts), IsInjective(s), NEW k \in 0 .. Len(s)
    PROVE  /\ SubSeq(s, 1, k) \in SetToSeqs(ToSet(SubSeq(s, 1, k)))
           /\ ToSet(SubSeq(s, 1, k)) \subseteq ToSet(s)
           /\ ToSet(SubSeq(s, 1, k)) = {} => k = 0
  <1> DEFINE t == SubSeq(s, 1, k)
  <1>1. k \in Nat /\ Len(s) \in Nat /\ DOMAIN s = 1 .. Len(s)
    BY LenProperties
  <1>2. \A i \in 1 .. k : s[i] \in Receipts /\ i \in 1 .. Len(s)
    BY <1>1, ElementOfSeq
  <1>3. /\ t \in Seq(Receipts)
        /\ Len(t) = IF 1 <= k THEN k - 1 + 1 ELSE 0
        /\ \A i \in 1 .. k - 1 + 1 : t[i] = s[1 + i - 1]
    BY <1>1, <1>2, SubSeqProperties
  <1>4. /\ DOMAIN t = 1 .. k
        /\ \A i \in 1 .. k : t[i] = s[i]
    BY <1>1, <1>3, LenProperties
  <1>5. t = [i \in DOMAIN t |-> t[i]]
    BY <1>3, LenProperties
  <1> HIDE DEF t
  <1>6. /\ ToSet(t) \subseteq ToSet(s)
        /\ t \in [1 .. k -> ToSet(t)]
        /\ \A i, j \in 1 .. k : t[i] = t[j] => i = j
        /\ \A x \in ToSet(t) : \E i \in 1 .. k : t[i] = x
    BY <1>1, <1>2, <1>4, <1>5 DEF ToSet, IsInjective
  <1>7. t \in Bijection(1 .. k, ToSet(t))
    BY <1>4, <1>6 DEF Bijection, Injection, Surjection, IsInjective
  <1>8. Cardinality(ToSet(t)) = k
    BY <1>1, <1>7, FS_CountingElements DEF ExistsBijection
  <1>9. t \in SetToSeqs(ToSet(t))
    BY <1>6, <1>8 DEF SetToSeqs
  <1>10. ToSet(t) = {} => k = 0
    BY <1>1, <1>6
  <1> QED BY <1>6, <1>9, <1>10 DEF t

\* Nothing is queued, taken up, answered or written.
LEMMA OnceQuiet ==
    ASSUME OnceInv, UNCHANGED <<promise, queue, batch, recorded>>,
           \A q \in Procs : pc'[q] \in {"lock", "inspect", "open", "write"} =>
               pc[q] \in {"lock", "inspect", "open", "write"} \/ batch[q] = <<>>
    PROVE  OnceInv'
  BY EmptyGroup DEF OnceInv, Held, Waiting

\* The group of one process, or all it holds, is answered and let go.
LEMMA OnceAnswered ==
    ASSUME TypeInv, OnceInv, NEW p \in Procs, NEW S, NEW a \in {"resolved", "rejected", "lost"},
           promise' = Answer(S, a), UNCHANGED recorded,
           pc'[p] \in {"idle", "down"}, \A q \in Procs : q # p => pc'[q] = pc[q],
           batch' = [batch EXCEPT ![p] = <<>>],
           \/ UNCHANGED queue /\ S = ToSet(batch[p])
           \/ queue' = [queue EXCEPT ![p] = <<>>] /\ S = Held(p)
    PROVE  OnceInv'
  <1>1. /\ \A q \in Procs : q # p => queue'[q] = queue[q] /\ batch'[q] = batch[q]
        /\ batch'[p] = <<>>
        /\ queue'[p] = <<>> \/ (queue'[p] = queue[p] /\ S = ToSet(batch[p]))
        /\ S \subseteq Held(p)
    BY DEF TypeInv, TypeOK, Held
  <1>2. /\ \A e \in Receipts : e \notin S => promise'[e] = promise[e]
        /\ \A e \in Receipts : e \in S => promise'[e] = a
    BY DEF Answer
  <1>3. \A q \in Procs : Held(q)' \subseteq Held(q) /\ Held(q)' \cap S = {}
    <2>1. ASSUME NEW q \in Procs, q # p PROVE Held(q)' = Held(q) /\ Held(q) \cap S = {}
      BY <1>1, <2>1 DEF Held, OnceInv
    <2>2. Held(p)' \subseteq Held(p) /\ Held(p)' \cap S = {}
      BY <1>1, EmptyGroup DEF Held, OnceInv
    <2> QED BY <2>1, <2>2
  <1>4. \A q \in Procs : Held(q)' \subseteq Waiting'
    BY <1>2, <1>3 DEF OnceInv, Waiting
  <1>5. \A e \in recorded' : promise'[e] # "none"
    BY <1>2 DEF OnceInv, TypeInv, TypeOK
  <1>6. \A q, r \in Procs : q # r => Held(q)' \cap Held(r)' = {}
    BY <1>3 DEF OnceInv
  <1>7. ASSUME NEW q \in Procs
        PROVE  /\ IsInjective(queue'[q]) /\ IsInjective(batch'[q])
               /\ ToSet(queue'[q]) \cap ToSet(batch'[q]) = {}
               /\ ToSet(queue'[q]) \cap recorded' = {}
               /\ pc'[q] \in {"lock", "inspect", "open", "write"} => ToSet(batch'[q]) \cap recorded' = {}
    <2>1. CASE q = p
      BY <1>1, <2>1, EmptyGroup DEF OnceInv
    <2>2. CASE q # p
      BY <1>1, <2>2 DEF OnceInv
    <2> QED BY <2>1, <2>2
  <1> QED BY <1>4, <1>5, <1>6, <1>7 DEF OnceInv

\* Some of a group reaches the disk, and the process moves on.
LEMMA OnceWritten ==
    ASSUME TypeInv, OnceInv, NEW p \in Procs, pc'[p] \in {"settle", "release"},
           \A q \in Procs : q # p => pc'[q] = pc[q],
           UNCHANGED <<promise, queue, batch>>,
           recorded' \subseteq recorded \cup ToSet(batch[p])
    PROVE  OnceInv'
  <1>1. \A e \in recorded' : promise[e] # "none"
    BY DEF OnceInv, Held, Waiting
  <1>2. \A q \in Procs : q # p => Held(q) \cap ToSet(batch[p]) = {}
    BY DEF OnceInv, Held
  <1>3. ASSUME NEW q \in Procs
        PROVE  /\ ToSet(queue[q]) \cap recorded' = {}
               /\ pc'[q] \in {"lock", "inspect", "open", "write"} => ToSet(batch[q]) \cap recorded' = {}
    <2>1. CASE q = p
      BY <2>1 DEF OnceInv
    <2>2. CASE q # p
      BY <1>2, <2>2 DEF OnceInv, Held
    <2> QED BY <2>1, <2>2
  <1> QED BY <1>1, <1>3 DEF OnceInv, Held, Waiting

LEMMA PersistRecords ==
    ASSUME TypeInv, OnceInv, NEW p \in Procs, NEW k \in 0 .. Len(batch[p]), NEW cut \in Cuts, Persist(p, k, cut)
    PROVE  recorded' \subseteq recorded \cup ToSet(batch[p])
  <1>1. batch[p] \in Seq(Receipts) /\ IsInjective(batch[p])
    BY DEF TypeInv, TypeOK, OnceInv
  <1>2. ToSet(SubSeq(batch[p], 1, k)) \subseteq ToSet(batch[p])
    BY <1>1, GroupOrder
  <1> QED BY <1>2 DEF Persist

LEMMA OnceNext == TypeInv /\ OnceInv /\ [LogNext]_logVars => OnceInv'
  <1> SUFFICES ASSUME TypeInv, OnceInv, [LogNext]_logVars PROVE OnceInv'
    OBVIOUS
  <1>0. /\ pc \in [Procs -> Critical \cup {"idle", "lock", "down"}]
        /\ queue \in [Procs -> Seq(Receipts)] /\ batch \in [Procs -> Seq(Receipts)]
        /\ \A q \in Procs : pc[q] \in {"idle", "down"} => batch[q] = <<>>
    BY DEF TypeInv, TypeOK
  <1>1. ASSUME NEW p \in Procs, NEW e \in Receipts, Queue(p, e) PROVE OnceInv'
    <2>1. /\ promise[e] = "none" /\ promise' = Answer({e}, "queued")
          /\ queue' = [queue EXCEPT ![p] = Append(queue[p], e)]
          /\ UNCHANGED <<recorded, batch, pc>>
      BY <1>1 DEF Queue, ghostVars
    <2>2. e \notin Waiting /\ e \notin recorded
      BY <2>1 DEF Waiting, OnceInv
    <2>3. Waiting' = Waiting \cup {e} /\ \A x \in Receipts : x # e => promise'[x] = promise[x]
      BY <2>1 DEF Waiting, Answer
    <2>4. \A q \in Procs : e \notin Held(q)
      BY <2>2 DEF OnceInv
    <2>5. ToSet(queue'[p]) = ToSet(queue[p]) \cup {e} /\ IsInjective(queue'[p])
      BY <1>0, <2>1, <2>4, AppendGroup DEF OnceInv, Held
    <2>6. \A q \in Procs : q # p => queue'[q] = queue[q]
      BY <1>0, <2>1
    <2>7. \A q \in Procs : Held(q)' = IF q = p THEN Held(q) \cup {e} ELSE Held(q)
      BY <2>1, <2>5, <2>6 DEF Held
    <2>8. \A q, r \in Procs : q # r => Held(q)' \cap Held(r)' = {}
      BY <2>4, <2>7 DEF OnceInv
    <2>9. \A x \in recorded' : promise'[x] # "none"
      BY <2>1, <2>2, <2>3 DEF OnceInv, TypeInv, TypeOK
    <2>10. ASSUME NEW q \in Procs
           PROVE  /\ IsInjective(queue'[q]) /\ IsInjective(batch'[q])
                  /\ ToSet(queue'[q]) \cap ToSet(batch'[q]) = {}
                  /\ Held(q)' \subseteq Waiting'
                  /\ ToSet(queue'[q]) \cap recorded' = {}
                  /\ pc'[q] \in {"lock", "inspect", "open", "write"} => ToSet(batch'[q]) \cap recorded' = {}
      <3>1. CASE q = p
        BY <2>1, <2>2, <2>3, <2>4, <2>5, <2>7, <3>1 DEF OnceInv, Held
      <3>2. CASE q # p
        BY <2>1, <2>3, <2>6, <2>7, <3>2 DEF OnceInv
      <3> QED BY <3>1, <3>2
    <2> QED BY <2>8, <2>9, <2>10 DEF OnceInv
  <1>2. ASSUME NEW p \in Procs, Flush(p) PROVE OnceInv'
    <2>1. /\ batch' = [batch EXCEPT ![p] = queue[p]] /\ queue' = [queue EXCEPT ![p] = <<>>]
          /\ pc' = [pc EXCEPT ![p] = "lock"] /\ batch[p] = <<>>
          /\ UNCHANGED <<promise, recorded>>
      BY <1>0, <1>2 DEF Flush, Goto, ghostVars
    <2>2. /\ batch'[p] = queue[p] /\ queue'[p] = <<>>
          /\ \A q \in Procs : q # p => batch'[q] = batch[q] /\ queue'[q] = queue[q] /\ pc'[q] = pc[q]
      BY <1>0, <2>1
    <2>3. \A q \in Procs : Held(q)' = Held(q)
      BY <2>1, <2>2, EmptyGroup DEF Held
    <2>4. ASSUME NEW q \in Procs
          PROVE  /\ IsInjective(queue'[q]) /\ IsInjective(batch'[q])
                 /\ ToSet(queue'[q]) \cap ToSet(batch'[q]) = {}
                 /\ ToSet(queue'[q]) \cap recorded' = {}
                 /\ pc'[q] \in {"lock", "inspect", "open", "write"} => ToSet(batch'[q]) \cap recorded' = {}
      <3>1. CASE q = p
        BY <2>1, <2>2, <3>1, EmptyGroup DEF OnceInv
      <3>2. CASE q # p
        BY <2>1, <2>2, <3>2 DEF OnceInv
      <3> QED BY <3>1, <3>2
    <2> QED BY <2>1, <2>3, <2>4 DEF OnceInv, Waiting
  <1>3. ASSUME NEW p \in Procs, \/ LockTimeout(p) \/ Release(p) PROVE OnceInv'
    <2>1. UNCHANGED <<recorded, queue>>
      BY <1>3, Zenon DEF LockTimeout, Release, ghostVars
    <2>2. PICK a \in {"resolved", "rejected"} : Finish(p, a)
      BY <1>3 DEF LockTimeout, Release
    <2>3. /\ promise' = Answer(ToSet(batch[p]), a) /\ batch' = [batch EXCEPT ![p] = <<>>]
          /\ pc' = [pc EXCEPT ![p] = "idle"]
      BY <2>2 DEF Finish, Goto
    <2> QED BY <1>0, <2>1, <2>3, OnceAnswered
  <1>4. ASSUME NEW p \in Procs, Crash(p) PROVE OnceInv'
    <2>1. /\ promise' = Answer(Held(p), "lost") /\ batch' = [batch EXCEPT ![p] = <<>>]
          /\ queue' = [queue EXCEPT ![p] = <<>>] /\ pc' = [pc EXCEPT ![p] = "down"]
          /\ UNCHANGED recorded
      BY <1>4 DEF Crash, Goto, Held
    <2> QED BY <1>0, <2>1, OnceAnswered
  <1>5. ASSUME NEW p \in Procs,
               \/ WriteLines(p)
               \/ \E k \in 0 .. Len(batch[p]), cut \in Cuts : WritePartial(p, k, cut)
        PROVE  OnceInv'
    <2>1. /\ UNCHANGED <<promise, queue, batch>>
          /\ pc' = [pc EXCEPT ![p] = "settle"] \/ pc' = [pc EXCEPT ![p] = "release"]
      BY <1>5, Zenon DEF WriteLines, WritePartial, Goto, Refuse
    <2>2. Len(batch[p]) \in 0 .. Len(batch[p])
      BY <1>0, LenProperties
    <2>3. \E k \in 0 .. Len(batch[p]), cut \in Cuts : Persist(p, k, cut)
      BY <1>5, <2>2, WholeCut, Zenon DEF WriteLines, WritePartial
    <2>4. recorded' \subseteq recorded \cup ToSet(batch[p])
      BY <2>3, PersistRecords
    <2> QED BY <1>0, <2>1, <2>4, OnceWritten
  <1>6. ASSUME NEW p \in Procs,
               \/ StartVerify(p) \/ Restart(p) \/ AcquireLock(p) \/ InspectForAppend(p)
               \/ InspectForVerify(p) \/ OpenHistory(p) \/ SettleAppend(p)
               \/ PublishCheckpoint(p) \/ IoFault(p)
        PROVE  OnceInv'
    <2>1. UNCHANGED <<promise, queue, batch, recorded>>
      BY <1>6, Zenon DEF StartVerify, Restart, AcquireLock, InspectForAppend, InspectForVerify,
             OpenHistory, SettleAppend, PublishCheckpoint, IoFault, diskVars, ghostVars
    <2>2. \/ /\ pc[p] \in {"lock", "inspect", "open"}
             /\ \E l \in {"inspect", "open", "write"} : pc' = [pc EXCEPT ![p] = l]
          \/ \E l \in {"idle", "publish", "release"} : pc' = [pc EXCEPT ![p] = l]
          \/ pc[p] = "idle" /\ pc' = [pc EXCEPT ![p] = "lock"]
      BY <1>6 DEF StartVerify, Restart, AcquireLock, InspectForAppend, InspectForVerify,
             OpenHistory, SettleAppend, PublishCheckpoint, IoFault, Goto, Refuse
    <2> QED BY <1>0, <2>1, <2>2, OnceQuiet
  <1>7. ASSUME Operator PROVE OnceInv'
    <2>1. UNCHANGED <<procVars, promise, recorded>>
      BY <1>7, Zenon DEF Operator, RemoveStaleLock, DeleteHistory, Archive
    <2> QED BY <2>1, OnceQuiet DEF procVars
  <1>8. ASSUME UNCHANGED logVars PROVE OnceInv'
    BY <1>8, OnceQuiet DEF logVars, procVars, ghostVars
  <1> QED BY <1>1, <1>2, <1>3, <1>4, <1>5, <1>6, <1>7, <1>8 DEF LogNext, Progress, Fault

LEMMA OnceInit == LogInit => OnceInv
  BY EmptyGroup DEF LogInit, OnceInv, Held, Waiting
-----------------------------------------------------------------------------
(***************************************************************************)
(* Refinement.  Each step of the log is a step of ReceiptHistory, or       *)
(* changes nothing of what ReceiptHistory sees.                            *)
(***************************************************************************)

\* The chain ReceiptHistory speaks of: the receipts of the lines.
ChainOf(lines) == [i \in DOMAIN lines |-> lines[i].id]

LEMMA SameLength ==
    ASSUME NEW m \in Nat, NEW n \in Nat, 1 .. m = 1 .. n
    PROVE  m = n
  <1>1. (m > 0 => m \in 1 .. m) /\ (n > 0 => n \in 1 .. n)
    OBVIOUS
  <1>2. (m > 0 => m \in 1 .. n) /\ (n > 0 => n \in 1 .. m)
    BY <1>1
  <1> QED BY <1>2

\* Lines of a group reach the chain as the receipts they are lines of.
LEMMA ChainGrows ==
    ASSUME NEW lines \in Seq(Line), NEW prior \in Receipts \cup {None},
           NEW s \in Seq(Receipts), NEW k \in 0 .. Len(s), NEW cut \in Cuts
    PROVE  ChainOf(lines \o Chained(prior, s, k, cut)) = ChainOf(lines) \o SubSeq(s, 1, k)
  <1> DEFINE tail == Chained(prior, s, k, cut)
             new == lines \o tail
             b == SubSeq(s, 1, k)
             ids == ChainOf(lines)
  <1>1. Len(lines) \in Nat /\ Len(s) \in Nat /\ k \in Nat /\ DOMAIN lines = 1 .. Len(lines)
    BY LenProperties
  <1>2. \A i \in 1 .. k : i \in 1 .. Len(s) /\ s[i] \in Receipts
    BY <1>1, ElementOfSeq
  <1>3. tail \in Seq(Line) /\ Len(tail) = k /\ \A i \in 1 .. k : tail[i].id = s[i]
    <2>1. /\ tail \in Seq(Line) /\ Len(tail) = k
          /\ \A i \in 1 .. k : /\ tail[i].id = s[i]
                              /\ tail[i].prev = IF i = 1 THEN prior ELSE s[i - 1]
      BY ChainedType
    <2> HIDE DEF tail
    <2> QED BY <2>1
  <1>4. /\ b \in Seq(Receipts)
        /\ Len(b) = IF 1 <= k THEN k - 1 + 1 ELSE 0
        /\ \A i \in 1 .. k - 1 + 1 : b[i] = s[1 + i - 1]
    BY <1>1, <1>2, SubSeqProperties
  <1>5. Len(b) = k /\ \A i \in 1 .. k : b[i] = s[i]
    <2> HIDE DEF b
    <2> QED BY <1>1, <1>2, <1>4
  <1>6. \A i \in 1 .. Len(lines) : lines[i] \in Line
    BY ElementOfSeq
  <1>7. /\ ids \in Seq(Receipts) /\ Len(ids) = Len(lines)
        /\ \A i \in 1 .. Len(lines) : ids[i] = lines[i].id
    <2>1. ids = [i \in 1 .. Len(lines) |-> lines[i].id]
      BY <1>1 DEF ChainOf
    <2>2. \A i \in 1 .. Len(lines) : lines[i].id \in Receipts
      BY <1>6 DEF Line
    <2>3. ids \in [1 .. Len(lines) -> Receipts]
      BY <2>1, <2>2
    <2>4. ids \in Seq(Receipts)
      BY <1>1, <2>3, SeqDef
    <2>5. Len(ids) \in Nat /\ DOMAIN ids = 1 .. Len(ids) /\ DOMAIN ids = 1 .. Len(lines)
      BY <2>1, <2>4, LenProperties
    <2> HIDE DEF ids
    <2>6. Len(ids) = Len(lines)
      BY <1>1, <2>5, SameLength
    <2> QED BY <2>1, <2>4, <2>6
  <1>8. /\ new \in Seq(Line) /\ Len(new) = Len(lines) + k
        /\ \A i \in 1 .. Len(lines) + k :
               new[i] = IF i <= Len(lines) THEN lines[i] ELSE tail[i - Len(lines)]
    <2> HIDE DEF tail
    <2> QED BY <1>3, ConcatProperties
  <1> DEFINE cat == ids \o b
  <1>9. /\ cat \in Seq(Receipts) /\ Len(cat) = Len(lines) + k
        /\ \A i \in 1 .. Len(lines) + k :
               cat[i] = IF i <= Len(lines) THEN ids[i] ELSE b[i - Len(lines)]
    <2>1. ids \in Seq(Receipts) /\ b \in Seq(Receipts) /\ Len(ids) = Len(lines) /\ Len(b) = k
      BY <1>4, <1>5, <1>7
    <2> HIDE DEF ids, b
    <2>2. /\ ids \o b \in Seq(Receipts)
          /\ Len(ids \o b) = Len(ids) + Len(b)
          /\ \A i \in 1 .. Len(ids) + Len(b) :
                 (ids \o b)[i] = IF i <= Len(ids) THEN ids[i] ELSE b[i - Len(ids)]
      BY <2>1, ConcatProperties
    <2> QED BY <2>1, <2>2
  <1> HIDE DEF ids, b, new, tail, cat
  <1>10. ASSUME NEW i \in 1 .. Len(lines) + k PROVE new[i].id = cat[i]
    <2>1. CASE i <= Len(lines)
      BY <1>1, <1>7, <1>8, <1>9, <2>1
    <2>2. CASE ~ i <= Len(lines)
      <3> DEFINE j == i - Len(lines)
      <3>1. j \in 1 .. k
        BY <1>1, <2>2
      <3>2. new[i] = tail[j] /\ cat[i] = b[j]
        BY <1>8, <1>9, <2>2
      <3> HIDE DEF j
      <3> QED BY <1>3, <1>5, <3>1, <3>2
    <2> QED BY <2>1, <2>2
  <1>11. DOMAIN new = 1 .. Len(lines) + k /\ cat \in [1 .. Len(lines) + k -> Receipts]
    BY <1>8, <1>9, LenProperties
  <1>12. ChainOf(new) = [i \in 1 .. Len(lines) + k |-> new[i].id]
    BY <1>11 DEF ChainOf
  <1>13. ChainOf(new) = cat
    BY <1>10, <1>11, <1>12
  <1> QED BY <1>13 DEF ids, b, new, tail, cat

LEMMA EmptyChain == ChainOf(<<>>) = <<>>
  <1>1. <<>> \in [1 .. 0 -> Receipts]
    <2>1. <<>> \in Seq(Receipts) /\ Len(<<>>) = 0
      BY EmptySeq
    <2> QED BY <2>1, LenProperties
  <1>2. ChainOf(<<>>) \in [1 .. 0 -> Receipts]
    BY <1>1 DEF ChainOf
  <1> QED BY <1>1, <1>2

\* The whole of a group, or all that a process holds, is answered at once.
LEMMA SettleStep ==
    ASSUME TypeInv, NEW S, S \subseteq Waiting, UNCHANGED <<file, recorded>>,
           \/ promise' = Answer(S, "rejected")
           \/ promise' = Answer(S, "lost")
           \/ promise' = Answer(S, "resolved") /\ S \subseteq recorded
    PROVE  History!Next \/ UNCHANGED History!vars
  <1>1. CASE S = {}
    <2>1. promise' = promise
      BY <1>1 DEF Answer, TypeInv, TypeOK
    <2> QED BY <2>1 DEF History!vars
  <1>2. CASE S # {}
    <2>1. S \in SUBSET History!Pending
      BY DEF Waiting, History!Pending
    <2>2. UNCHANGED <<[i \in DOMAIN file.lines |-> file.lines[i].id], recorded>>
      OBVIOUS
    <2>3. History!Settle(S) \/ History!Lose(S)
      BY <1>2, <2>1, <2>2 DEF History!Settle, History!Lose, History!Answer, Answer
    <2> QED BY <2>1, <2>3 DEF History!Next
  <1> QED BY <1>1, <1>2

LEMMA RecordWhole ==
    ASSUME NEW S, NEW s \in SetToSeqs(S), S # {}, S \subseteq Waiting \ recorded,
           ChainOf(file'.lines) = ChainOf(file.lines) \o s, recorded' = recorded \cup S,
           UNCHANGED promise
    PROVE  History!Next
  <1>1. s \in History!SetToSeqs(S)
    BY DEF History!SetToSeqs, SetToSeqs, History!Cardinality, Cardinality
  <1>2. [i \in DOMAIN file.lines |-> file.lines[i].id]'
          = [i \in DOMAIN file.lines |-> file.lines[i].id] \o s
    BY DEF ChainOf
  <1>3. S \in SUBSET History!Pending /\ S \subseteq History!Pending \ recorded
    BY DEF Waiting, History!Pending
  <1>4. History!Record(S)
    BY <1>1, <1>2, <1>3 DEF History!Record
  <1> QED BY <1>3, <1>4 DEF History!Next

\* A write records what it appends, or, in a file that left its path, nothing.
LEMMA RecordStep ==
    ASSUME TypeInv, ChainInv, OnceInv, NEW p \in Procs, NEW k \in 0 .. Len(batch[p]), NEW cut \in Cuts,
           pc[p] = "write", Persist(p, k, cut), UNCHANGED promise
    PROVE  History!Next \/ UNCHANGED History!vars
  <1>1. CASE file.obj # opened[p]
    BY <1>1 DEF Persist, History!vars
  <1>2. CASE file.obj = opened[p]
    <2> DEFINE S == ToSet(SubSeq(batch[p], 1, k))
               s == SubSeq(batch[p], 1, k)
    <2>1. /\ batch[p] \in Seq(Receipts) /\ IsInjective(batch[p])
          /\ hist[p].hash \in Receipts \cup {None}
          /\ file.lines \in Seq(Line)
      BY DEF TypeInv, TypeOK, OnceInv, File, Position
    <2>2. /\ file'.lines = file.lines \o Chained(hist[p].hash, batch[p], k, cut)
          /\ recorded' = recorded \cup S
      BY <1>2, Persisted
    <2>3. ChainOf(file'.lines) = ChainOf(file.lines) \o s
      <3>1. ChainOf(file.lines \o Chained(hist[p].hash, batch[p], k, cut))
              = ChainOf(file.lines) \o SubSeq(batch[p], 1, k)
        BY <2>1, ChainGrows
      <3> QED BY <2>2, <3>1, Zenon
    <2>4. s \in SetToSeqs(S) /\ S \subseteq ToSet(batch[p]) /\ (S = {} => k = 0)
      BY <2>1, GroupOrder
    <2>5. S \subseteq Waiting \ recorded
      BY <2>4 DEF OnceInv, Held
    <2>6. CASE S = {}
      <3>1. file'.lines = file.lines
        <4>1. hist[p].hash = LastHash(file.lines)
          BY <1>2 DEF ChainInv, HolderKnows
        <4>2. Linked(file.lines) /\ k = 0
          BY <2>4, <2>6 DEF ChainInv, ChainLinked
        <4>3. Extension(file.lines, batch[p], k, cut) = file.lines
          BY <2>1, <4>2, Extended
        <4> QED BY <2>2, <4>1, <4>3 DEF Extension
      <3>2. UNCHANGED <<[i \in DOMAIN file.lines |-> file.lines[i].id], recorded, promise>>
        BY <2>2, <2>6, <3>1
      <3> QED BY <3>2 DEF History!vars
    <2>7. CASE S # {}
      <3> HIDE DEF S, s
      <3> QED BY <2>2, <2>3, <2>4, <2>5, <2>7, RecordWhole
    <2> QED BY <2>6, <2>7
  <1> QED BY <1>1, <1>2

LEMMA HistoryNext ==
    TypeInv /\ ChainInv /\ TraceInv /\ OnceInv /\ [LogNext]_logVars => [History!Next]_History!vars
  <1> SUFFICES ASSUME TypeInv, ChainInv, TraceInv, OnceInv, [LogNext]_logVars
               PROVE  History!Next \/ UNCHANGED History!vars
    OBVIOUS
  <1>0. \A q \in Procs : ToSet(batch[q]) \subseteq Waiting /\ Held(q) \subseteq Waiting
    BY DEF OnceInv, Held
  <1>1. ASSUME NEW p \in Procs, NEW e \in Receipts, Queue(p, e) PROVE History!Next
    <2>1. /\ promise[e] = "none" /\ promise' = Answer({e}, "queued")
          /\ UNCHANGED <<file, recorded>>
      BY <1>1 DEF Queue, diskVars, ghostVars
    <2>2. UNCHANGED <<[i \in DOMAIN file.lines |-> file.lines[i].id], recorded>>
      BY <2>1
    <2>3. History!Queue(e)
      BY <2>1, <2>2 DEF History!Queue, History!Answer, Answer
    <2> QED BY <2>3 DEF History!Next
  <1>2. ASSUME NEW p \in Procs, LockTimeout(p) PROVE History!Next \/ UNCHANGED History!vars
    <2>1. promise' = Answer(ToSet(batch[p]), "rejected") /\ UNCHANGED <<file, recorded>>
      BY <1>2 DEF LockTimeout, Finish, diskVars, ghostVars
    <2> QED BY <1>0, <2>1, SettleStep
  <1>3. ASSUME NEW p \in Procs, Release(p) PROVE History!Next \/ UNCHANGED History!vars
    <2>1. /\ UNCHANGED <<file, recorded>>
          /\ \/ promise' = Answer(ToSet(batch[p]), "rejected")
             \/ outcome[p] = "ok" /\ promise' = Answer(ToSet(batch[p]), "resolved")
      BY <1>3 DEF Release, Finish
    <2>2. outcome[p] = "ok" => ToSet(batch[p]) \subseteq recorded
      BY <1>3 DEF Release, TraceInv, GroupRecorded
    <2> QED BY <1>0, <2>1, <2>2, SettleStep
  <1>4. ASSUME NEW p \in Procs, Crash(p) PROVE History!Next \/ UNCHANGED History!vars
    <2>1. promise' = Answer(Held(p), "lost") /\ UNCHANGED <<file, recorded>>
      BY <1>4 DEF Crash, Held, diskVars
    <2> QED BY <1>0, <2>1, SettleStep
  <1>5. ASSUME NEW p \in Procs,
               \/ WriteLines(p)
               \/ \E k \in 0 .. Len(batch[p]), cut \in Cuts : WritePartial(p, k, cut)
        PROVE  History!Next \/ UNCHANGED History!vars
    <2>1. pc[p] = "write" /\ UNCHANGED promise
      BY <1>5, Zenon DEF WriteLines, WritePartial
    <2>2. Len(batch[p]) \in 0 .. Len(batch[p])
      BY LenProperties DEF TypeInv, TypeOK
    <2>3. \E k \in 0 .. Len(batch[p]), cut \in Cuts : Persist(p, k, cut)
      BY <1>5, <2>2, WholeCut, Zenon DEF WriteLines, WritePartial
    <2> QED BY <2>1, <2>3, RecordStep
  <1>6. ASSUME NEW p \in Procs, OpenHistory(p) PROVE UNCHANGED History!vars
    <2>1. UNCHANGED <<recorded, promise>>
      BY <1>6 DEF OpenHistory, ghostVars
    <2>2. file'.lines = file.lines
      <3>1. CASE file.obj = 0
        BY <1>6, <3>1 DEF OpenHistory, CreateEmpty, ChainInv, Objects, NoFile
      <3>2. CASE file.obj # 0
        BY <1>6, <3>2 DEF OpenHistory
      <3> QED BY <3>1, <3>2
    <2>3. UNCHANGED [i \in DOMAIN file.lines |-> file.lines[i].id]
      BY <2>2
    <2> QED BY <2>1, <2>3 DEF History!vars
  <1>7. ASSUME NEW p \in Procs,
               \/ Flush(p) \/ StartVerify(p) \/ Restart(p) \/ AcquireLock(p)
               \/ InspectForAppend(p) \/ InspectForVerify(p) \/ SettleAppend(p)
               \/ PublishCheckpoint(p) \/ IoFault(p)
        PROVE  UNCHANGED History!vars
    <2>1. UNCHANGED <<file, recorded, promise>>
      BY <1>7, Zenon DEF Flush, StartVerify, Restart, AcquireLock, InspectForAppend, InspectForVerify,
             SettleAppend, PublishCheckpoint, IoFault, diskVars, ghostVars
    <2> QED BY <2>1 DEF History!vars
  <1>8. ASSUME Operator PROVE History!Next \/ UNCHANGED History!vars
    <2>1. UNCHANGED <<recorded, promise>> /\ file' \in {file, NoFile}
      BY <1>8, Zenon DEF Operator, RemoveStaleLock, DeleteHistory, Archive
    <2>2. CASE file' = file
      BY <2>1, <2>2 DEF History!vars
    <2>3. CASE file' = NoFile
      <3>1. file'.lines = <<>>
        BY <2>3 DEF NoFile
      <3>2. [i \in DOMAIN file.lines |-> file.lines[i].id]' = <<>>
        BY <3>1, EmptyChain DEF ChainOf
      <3>3. History!TakeAway
        BY <2>1, <3>2 DEF History!TakeAway
      <3> QED BY <3>3 DEF History!Next
    <2> QED BY <2>1, <2>2, <2>3
  <1>9. ASSUME UNCHANGED logVars PROVE UNCHANGED History!vars
    BY <1>9 DEF logVars, diskVars, ghostVars, History!vars
  <1> QED BY <1>1, <1>2, <1>3, <1>4, <1>5, <1>6, <1>7, <1>8, <1>9 DEF LogNext, Progress, Fault

\* The log implements ReceiptHistory: every flush, whatever it interleaves with and
\* wherever it fails, appends receipts that wait to the end of one chain, each once,
\* and answers a whole group, "resolved" only when all of it was recorded first.
THEOREM HistoryImplemented == LogSpec => ImplementsHistory
  <1>1. LogInit => History!Init
    BY EmptyChain DEF LogInit, History!Init, NoFile, ChainOf
  <1> QED BY <1>1, TraceInit, TraceNext, OnceInit, OnceNext, HistoryNext, LogInvariant, PTL
          DEF LogSpec, ImplementsHistory, History!Spec
-----------------------------------------------------------------------------
(***************************************************************************)
(* What a verification may conclude.  Receipts that were promised are in   *)
(* the history, or archived, or the history is gone or a fresh empty file  *)
(* and the checkpoint that outlived it keeps any writer from starting over.*)
(***************************************************************************)

Ids(lines) == {lines[i].id : i \in DOMAIN lines}

Kept(S) == S \ archived \subseteq Ids(file.lines) \/ (file.lines = <<>> /\ ckpt = TRUE)

KeptInv ==
    /\ Kept(Answered)
    /\ \A p \in Procs :
          /\ trusted[p].obj # 0 => trusted[p].len > 0
          /\ pc[p] = "open" /\ hist[p].obj # 0 => hist[p].len > 0
          /\ pc[p] = "open" /\ hist[p].obj = 0 => ckpt = FALSE
          /\ pc[p] = "write" /\ opened[p] = file.obj /\ file.lines = <<>> => ckpt = FALSE
          /\ pc[p] = "settle" /\ opened[p] = file.obj => ToSet(batch[p]) \subseteq Ids(file.lines)
          /\ pc[p] = "publish" =>
                ToSet(batch[p]) \ archived \subseteq Ids(file.lines) \/ file.lines = <<>>
          /\ pc[p] = "release" /\ outcome[p] = "ok" => Kept(ToSet(batch[p]))

\* The receipts of an extended history are those it had and those of the lines added.
LEMMA IdsGrow ==
    ASSUME NEW lines \in Seq(Line), NEW prior \in Receipts \cup {None},
           NEW s \in Seq(Receipts), NEW k \in 0 .. Len(s), NEW cut \in Cuts
    PROVE  /\ Ids(lines) \subseteq Ids(lines \o Chained(prior, s, k, cut))
           /\ k = Len(s) => ToSet(s) \subseteq Ids(lines \o Chained(prior, s, k, cut))
  <1> DEFINE tail == Chained(prior, s, k, cut)
             new == lines \o tail
  <1>1. /\ Len(lines) \in Nat /\ Len(s) \in Nat /\ k \in Nat
        /\ DOMAIN lines = 1 .. Len(lines) /\ DOMAIN s = 1 .. Len(s)
    BY LenProperties
  <1>2. /\ tail \in Seq(Line) /\ Len(tail) = k
        /\ \A i \in 1 .. k : tail[i].id = s[i]
    BY ChainedType
  <1> HIDE DEF tail
  <1>4. /\ new \in Seq(Line) /\ Len(new) = Len(lines) + k
        /\ \A i \in 1 .. Len(lines) + k :
               new[i] = IF i <= Len(lines) THEN lines[i] ELSE tail[i - Len(lines)]
    BY <1>2, ConcatProperties
  <1> HIDE DEF new
  <1>5. DOMAIN new = 1 .. Len(lines) + k
    BY <1>4, LenProperties
  <1>6. ASSUME NEW i \in 1 .. Len(lines) PROVE lines[i].id \in Ids(new)
    <2>1. i \in DOMAIN new /\ new[i] = lines[i]
      BY <1>1, <1>4, <1>5
    <2> QED BY <2>1 DEF Ids
  <1>7. ASSUME k = Len(s), NEW i \in 1 .. Len(s) PROVE s[i] \in Ids(new)
    <2> DEFINE j == Len(lines) + i
    <2>1. j \in DOMAIN new /\ ~ j <= Len(lines) /\ j - Len(lines) = i
      BY <1>1, <1>5, <1>7
    <2> HIDE DEF j
    <2>2. new[j] = tail[i]
      BY <1>4, <1>5, <2>1
    <2>3. new[j].id = s[i]
      BY <1>2, <1>7, <2>2
    <2> QED BY <2>1, <2>3 DEF Ids
  <1>8. Ids(lines) \subseteq Ids(new)
    BY <1>1, <1>6 DEF Ids
  <1>9. k = Len(s) => ToSet(s) \subseteq Ids(new)
    BY <1>1, <1>7 DEF ToSet
  <1> QED BY <1>8, <1>9 DEF new, tail

LEMMA ResolvedOnly ==
    ASSUME NEW S, NEW a, promise' = Answer(S, a)
    PROVE  Answered' \subseteq Answered \cup S
  BY DEF Answered, Answer

\* A step that writes nothing, resolves nobody and moves nobody on keeps the invariant.
LEMMA KeptQuiet ==
    ASSUME KeptInv, Answered' \subseteq Answered, UNCHANGED <<file, ckpt, archived>>,
           \A q \in Procs :
               /\ trusted'[q] \in {trusted[q], NoTrust}
               /\ \/ /\ pc'[q] \notin {"open", "write", "settle", "publish"}
                     /\ pc'[q] = "release" => outcome'[q] = "failed"
                  \/ /\ pc'[q] = pc[q] /\ hist'[q] = hist[q] /\ opened'[q] = opened[q]
                     /\ batch'[q] = batch[q] /\ outcome'[q] = outcome[q]
    PROVE  KeptInv'
  <1>1. Kept(Answered)'
    BY DEF KeptInv, Kept
  <1>2. \A q \in Procs : trusted'[q].obj # 0 => trusted'[q].len > 0
    BY DEF KeptInv, NoTrust
  <1>3. ASSUME NEW q \in Procs
        PROVE  /\ pc'[q] = "open" /\ hist'[q].obj # 0 => hist'[q].len > 0
               /\ pc'[q] = "open" /\ hist'[q].obj = 0 => ckpt' = FALSE
               /\ pc'[q] = "write" /\ opened'[q] = file'.obj /\ file'.lines = <<>> => ckpt' = FALSE
               /\ pc'[q] = "settle" /\ opened'[q] = file'.obj => ToSet(batch'[q]) \subseteq Ids(file'.lines)
               /\ pc'[q] = "publish" =>
                     ToSet(batch'[q]) \ archived' \subseteq Ids(file'.lines) \/ file'.lines = <<>>
               /\ pc'[q] = "release" /\ outcome'[q] = "ok" => Kept(ToSet(batch[q]))'
    BY DEF KeptInv, Kept
  <1> QED BY <1>1, <1>2, <1>3 DEF KeptInv

LEMMA KeptNext ==
    TypeInv /\ SectionExclusive /\ ChainInv /\ TraceInv /\ KeptInv /\ [LogNext]_logVars => KeptInv'
  <1> SUFFICES ASSUME TypeInv, SectionExclusive, ChainInv, TraceInv, KeptInv, [LogNext]_logVars
               PROVE  KeptInv'
    OBVIOUS
  <1>0. /\ pc \in [Procs -> Critical \cup {"idle", "lock", "down"}]
        /\ outcome \in [Procs -> {"none", "ok", "failed"}]
        /\ hist \in [Procs -> Position] /\ trusted \in [Procs -> Position]
        /\ opened \in [Procs -> Nat] /\ batch \in [Procs -> Seq(Receipts)]
        /\ file.lines \in Seq(Line) /\ Len(file.lines) \in Nat /\ file.obj \in Nat
        /\ ckpt \in BOOLEAN
    BY LenProperties DEF TypeInv, TypeOK, File
  <1>L. (Len(file.lines) = 0) <=> (file.lines = <<>>)
    BY <1>0, EmptySeq
  <1>U. UNCHANGED promise => Answered' \subseteq Answered
    BY DEF Answered
  <1>X. ASSUME NEW p \in Procs, pc[p] \in Critical
        PROVE  \A q \in Procs : q # p => pc[q] \notin Critical
    BY <1>X DEF SectionExclusive
  <1>1. ASSUME NEW p \in Procs, NEW e \in Receipts, Queue(p, e) PROVE KeptInv'
    <2>1. Answered' \subseteq Answered
      BY <1>1, AnswerResolves DEF Queue
    <2> QED BY <1>1, <2>1, KeptQuiet DEF Queue, diskVars, ghostVars
  <1>2. ASSUME NEW p \in Procs, \/ Flush(p) \/ StartVerify(p) \/ Restart(p) \/ AcquireLock(p)
        PROVE  KeptInv'
    <2>1. UNCHANGED <<file, ckpt, archived, promise, trusted, hist, opened>>
      BY <1>2, Zenon DEF Flush, StartVerify, Restart, AcquireLock, diskVars, ghostVars
    <2>2. \A q \in Procs :
              \/ pc'[q] \in {"lock", "idle", "inspect"}
              \/ pc'[q] = pc[q] /\ batch'[q] = batch[q] /\ outcome'[q] = outcome[q]
      <3>1. CASE Flush(p)
        BY <1>0, <3>1 DEF Flush, Goto
      <3>2. CASE StartVerify(p)
        BY <1>0, <3>2 DEF StartVerify, Goto
      <3>3. CASE Restart(p)
        BY <1>0, <3>3 DEF Restart, Goto
      <3>4. CASE AcquireLock(p)
        BY <1>0, <3>4 DEF AcquireLock, Goto
      <3> QED BY <1>2, <3>1, <3>2, <3>3, <3>4
    <2> QED BY <1>U, <2>1, <2>2, KeptQuiet
  <1>3. ASSUME NEW p \in Procs, Answered' \subseteq Answered,
               UNCHANGED <<file, ckpt, archived>>,
               trusted' = trusted \/ trusted' = [trusted EXCEPT ![p] = NoTrust],
               pc' = [pc EXCEPT ![p] = "idle"] \/ pc' = [pc EXCEPT ![p] = "down"],
               batch' = [batch EXCEPT ![p] = <<>>], hist' = [hist EXCEPT ![p] = NoTrust],
               outcome' = [outcome EXCEPT ![p] = "none"], opened' = [opened EXCEPT ![p] = 0]
        PROVE  KeptInv'
    <2>1. \A q \in Procs :
              \/ pc'[q] \in {"idle", "down"}
              \/ /\ pc'[q] = pc[q] /\ hist'[q] = hist[q] /\ opened'[q] = opened[q]
                 /\ batch'[q] = batch[q] /\ outcome'[q] = outcome[q]
      BY <1>0, <1>3
    <2>2. \A q \in Procs : trusted'[q] \in {trusted[q], NoTrust}
      BY <1>0, <1>3
    <2> QED BY <1>3, <2>1, <2>2, KeptQuiet
  <1>4. ASSUME NEW p \in Procs, LockTimeout(p) PROVE KeptInv'
    <2>1. /\ Finish(p, "rejected") /\ UNCHANGED <<file, ckpt, archived, trusted>>
      BY <1>4 DEF LockTimeout, diskVars, ghostVars
    <2>2. Answered' \subseteq Answered
      BY <2>1, AnswerResolves DEF Finish
    <2> QED BY <1>3, <2>1, <2>2, Zenon DEF Finish, Goto
  <1>5. ASSUME NEW p \in Procs, Crash(p) PROVE KeptInv'
    <2>1. Answered' \subseteq Answered
      BY <1>5, AnswerResolves DEF Crash
    <2> QED BY <1>3, <1>5, <2>1, Zenon DEF Crash, Goto, diskVars
  <1>6. ASSUME NEW p \in Procs, IoFault(p) PROVE KeptInv'
    <2>1. /\ UNCHANGED <<file, ckpt, archived, promise, trusted, hist, opened, batch>>
          /\ pc' = [pc EXCEPT ![p] = "release"] /\ outcome' = [outcome EXCEPT ![p] = "failed"]
      BY <1>6 DEF IoFault, Refuse, Goto, diskVars
    <2> QED BY <1>0, <1>U, <2>1, KeptQuiet
  <1>7. ASSUME NEW p \in Procs, InspectForAppend(p) PROVE KeptInv'
    <2>1. /\ UNCHANGED <<file, ckpt, archived, promise, opened, batch>>
          /\ pc[p] = "inspect"
      BY <1>7 DEF InspectForAppend, diskVars, ghostVars
    <2>2. CASE trusted[p].obj # 0 /\ SameFile(trusted[p], file)
      <3>1. /\ hist' = [hist EXCEPT ![p] = trusted[p]]
            /\ pc' = [pc EXCEPT ![p] = "open"] /\ UNCHANGED <<trusted, outcome>>
        BY <1>7, <2>2, Zenon DEF InspectForAppend, Goto
      <3>2. hist'[p].obj # 0 /\ hist'[p].len > 0
        BY <1>0, <2>2, <3>1 DEF KeptInv
      <3>3. \A q \in Procs : q # p => pc'[q] = pc[q] /\ hist'[q] = hist[q]
        BY <1>0, <3>1
      <3>4. pc'[p] = "open"
        BY <1>0, <3>1
      <3> QED BY <2>1, <3>1, <3>2, <3>3, <3>4 DEF KeptInv, Kept, Answered
    <2>3. CASE ~ (trusted[p].obj # 0 /\ SameFile(trusted[p], file))
      <3> DEFINE ok == IF file.obj = 0 THEN ~ckpt ELSE Valid(file)
      <3>1. /\ hist' = [hist EXCEPT ![p] = Identity(file)]
            /\ trusted' = [trusted EXCEPT ![p] = IF ok THEN Identity(file) ELSE NoTrust]
            /\ \/ ok /\ pc' = [pc EXCEPT ![p] = "open"] /\ outcome' = outcome
               \/ pc' = [pc EXCEPT ![p] = "release"] /\ outcome' = [outcome EXCEPT ![p] = "failed"]
        BY <1>7, <2>3, Zenon DEF InspectForAppend, Goto, Refuse
      <3>2. Identity(file).obj = file.obj /\ Identity(file).len = Len(file.lines)
        BY DEF Identity
      <3>3. ok /\ file.obj # 0 => Len(file.lines) > 0
        BY <1>0, <1>L DEF Valid
      <3>4. ok /\ file.obj = 0 => ckpt = FALSE
        BY <1>0
      <3> HIDE DEF ok
      <3>5. /\ hist'[p] = Identity(file)
            /\ trusted'[p] \in {Identity(file), NoTrust}
            /\ trusted'[p] = Identity(file) \/ trusted'[p] = NoTrust
            /\ ~ok => trusted'[p] = NoTrust
            /\ \/ ok /\ pc'[p] = "open"
               \/ pc'[p] = "release" /\ outcome'[p] = "failed"
            /\ \A q \in Procs : q # p => /\ pc'[q] = pc[q] /\ hist'[q] = hist[q]
                                         /\ trusted'[q] = trusted[q] /\ outcome'[q] = outcome[q]
        BY <1>0, <3>1
      <3>6. trusted'[p].obj # 0 => trusted'[p].len > 0
        BY <3>2, <3>3, <3>5 DEF NoTrust
      <3> QED BY <2>1, <3>2, <3>3, <3>4, <3>5, <3>6 DEF KeptInv, Kept, Answered
    <2> QED BY <2>2, <2>3
  <1>8. ASSUME NEW p \in Procs, InspectForVerify(p) PROVE KeptInv'
    <2>1. /\ UNCHANGED <<file, ckpt, archived, promise, trusted, hist, opened, batch, outcome>>
          /\ job[p] = "verify" /\ pc' = [pc EXCEPT ![p] = "release"]
      BY <1>8 DEF InspectForVerify, Goto, diskVars, ghostVars
    <2>2. ToSet(batch[p]) = {}
      BY <2>1, EmptyGroup DEF TraceInv, GroupRecorded
    <2>3. Kept(ToSet(batch[p]))
      BY <2>2 DEF Kept
    <2> QED BY <1>0, <2>1, <2>3 DEF KeptInv, Kept, Answered
  <1>9. ASSUME NEW p \in Procs, OpenHistory(p) PROVE KeptInv'
    <2>1. /\ pc[p] = "open" /\ UNCHANGED <<ckpt, archived, promise, trusted, hist, batch>>
          /\ \/ pc' = [pc EXCEPT ![p] = "write"] /\ outcome' = outcome
             \/ pc' = [pc EXCEPT ![p] = "release"] /\ outcome' = [outcome EXCEPT ![p] = "failed"]
      BY <1>9, Zenon DEF OpenHistory, Refuse, Goto, ghostVars
    <2>2. file'.lines = file.lines
      <3>1. CASE file.obj = 0
        BY <1>9, <3>1 DEF OpenHistory, CreateEmpty, ChainInv, Objects, NoFile
      <3>2. CASE file.obj # 0
        BY <1>9, <3>2 DEF OpenHistory
      <3> QED BY <3>1, <3>2
    <2>3. pc'[p] = "write" => IF hist[p].obj = 0 THEN file.obj = 0 ELSE SameFile(hist[p], file)
      BY <1>0, <1>9 DEF OpenHistory, Refuse, Goto
    <2>4. pc'[p] = "write" /\ file.lines = <<>> => ckpt = FALSE
      <3>1. CASE hist[p].obj = 0
        BY <2>1, <3>1 DEF KeptInv
      <3>2. CASE hist[p].obj # 0
        BY <1>L, <2>1, <2>3, <3>2 DEF KeptInv, SameFile
      <3> QED BY <3>1, <3>2
    <2>5. \A q \in Procs : q # p => pc'[q] = pc[q] /\ pc[q] \notin Critical
      BY <1>0, <1>X, <2>1 DEF Critical
    <2>6. pc'[p] = "write" \/ (pc'[p] = "release" /\ outcome'[p] = "failed")
      BY <1>0, <2>1
    <2>7. Kept(Answered)'
      BY <2>1, <2>2 DEF KeptInv, Kept, Answered
    <2>8. \A q \in Procs : q # p => pc'[q] \notin {"open", "write", "settle", "publish", "release"}
      BY <2>5 DEF Critical
    <2> QED BY <2>1, <2>2, <2>4, <2>6, <2>7, <2>8 DEF KeptInv
  <1>10. ASSUME NEW p \in Procs, NEW k \in 0 .. Len(batch[p]), NEW cut \in Cuts, pc[p] = "write",
                Persist(p, k, cut), UNCHANGED <<ckpt, archived, promise, trusted, opened, batch>>,
                \/ pc' = [pc EXCEPT ![p] = "release"] /\ outcome' = [outcome EXCEPT ![p] = "failed"]
                \/ pc' = [pc EXCEPT ![p] = "settle"] /\ k = Len(batch[p])
         PROVE  KeptInv'
    <2>1. \A q \in Procs : q # p => pc'[q] \notin {"open", "write", "settle", "publish", "release"}
      BY <1>0, <1>X, <1>10 DEF Critical
    <2>2. \/ pc'[p] = "release" /\ outcome'[p] = "failed"
          \/ pc'[p] = "settle" /\ k = Len(batch[p])
      BY <1>0, <1>10
    <2>3. CASE file.obj # opened[p]
      <3>1. UNCHANGED file
        BY <1>10, <2>3 DEF Persist
      <3>2. Kept(Answered)'
        BY <1>10, <3>1 DEF KeptInv, Kept, Answered
      <3> QED BY <1>10, <2>1, <2>2, <2>3, <3>1, <3>2 DEF KeptInv
    <2>4. CASE file.obj = opened[p]
      <3>1. file'.lines = file.lines \o Chained(hist[p].hash, batch[p], k, cut)
        BY <1>10, <2>4, Persisted
      <3>2. batch[p] \in Seq(Receipts) /\ hist[p].hash \in Receipts \cup {None}
        BY <1>0 DEF Position
      <3>3. /\ Ids(file.lines) \subseteq Ids(file.lines \o Chained(hist[p].hash, batch[p], k, cut))
            /\ k = Len(batch[p]) =>
                  ToSet(batch[p]) \subseteq Ids(file.lines \o Chained(hist[p].hash, batch[p], k, cut))
        BY <1>0, <3>2, IdsGrow
      <3>4. /\ Ids(file.lines) \subseteq Ids(file'.lines)
            /\ k = Len(batch[p]) => ToSet(batch[p]) \subseteq Ids(file'.lines)
        BY <3>1, <3>3, Zenon
      <3>5. file.lines = <<>> => Answered \subseteq archived
        BY <1>10, <2>4 DEF KeptInv, TraceInv
      <3>6. Answered \ archived \subseteq Ids(file.lines)
        BY <3>5 DEF KeptInv, Kept
      <3>7. Kept(Answered)'
        BY <1>10, <3>4, <3>6 DEF Kept, Answered
      <3> QED BY <1>10, <2>1, <2>2, <3>4, <3>7 DEF KeptInv
    <2> QED BY <2>3, <2>4
  <1>11. ASSUME NEW p \in Procs, WriteLines(p) PROVE KeptInv'
    <2>1. Len(batch[p]) \in 0 .. Len(batch[p])
      BY <1>0, LenProperties
    <2> QED BY <1>10, <1>11, <2>1, WholeCut DEF WriteLines, Goto
  <1>12. ASSUME NEW p \in Procs, NEW k \in 0 .. Len(batch[p]), NEW cut \in Cuts,
                WritePartial(p, k, cut)
         PROVE  KeptInv'
    BY <1>10, <1>12 DEF WritePartial, Refuse, Goto
  <1>13. ASSUME NEW p \in Procs, SettleAppend(p) PROVE KeptInv'
    <2>1. /\ pc[p] = "settle"
          /\ UNCHANGED <<file, ckpt, archived, promise, hist, opened, batch>>
          /\ \/ /\ file.obj = opened[p] /\ pc' = [pc EXCEPT ![p] = "publish"] /\ outcome' = outcome
                /\ trusted' = [trusted EXCEPT ![p] = [obj |-> file.obj, len |-> Len(file.lines),
                                                      hash |-> batch[p][Len(batch[p])]]]
             \/ /\ pc' = [pc EXCEPT ![p] = "release"] /\ outcome' = [outcome EXCEPT ![p] = "failed"]
                /\ trusted' = trusted
      BY <1>13, Zenon DEF SettleAppend, Refuse, Goto, diskVars, ghostVars
    <2>2. CASE pc' = [pc EXCEPT ![p] = "release"] /\ outcome' = [outcome EXCEPT ![p] = "failed"]
               /\ trusted' = trusted
      BY <1>0, <1>U, <2>1, <2>2, KeptQuiet
    <2>3. CASE /\ file.obj = opened[p] /\ pc' = [pc EXCEPT ![p] = "publish"] /\ outcome' = outcome
               /\ trusted' = [trusted EXCEPT ![p] = [obj |-> file.obj, len |-> Len(file.lines),
                                                     hash |-> batch[p][Len(batch[p])]]]
      <3>1. ToSet(batch[p]) \subseteq Ids(file.lines)
        BY <2>1, <2>3 DEF KeptInv
      <3>2. batch[p] # <<>> /\ batch[p] \in Seq(Receipts)
        BY <1>0, <2>1 DEF TypeInv, GroupHeld
      <3>3. ToSet(batch[p]) # {}
        <4>1. 1 \in DOMAIN batch[p]
          BY <3>2, EmptySeq, LenProperties
        <4> QED BY <4>1 DEF ToSet
      <3>4. Len(file.lines) > 0
        <4>1. DOMAIN file.lines = 1 .. Len(file.lines)
          BY <1>0, LenProperties
        <4>2. DOMAIN file.lines # {}
          BY <3>1, <3>3 DEF Ids
        <4> QED BY <1>0, <4>1, <4>2
      <3>5. trusted'[p].len > 0
        BY <1>0, <2>3, <3>4
      <3>6. pc'[p] = "publish" /\ \A q \in Procs : q # p => pc'[q] = pc[q] /\ trusted'[q] = trusted[q]
        BY <1>0, <2>3
      <3> QED BY <2>1, <2>3, <3>1, <3>5, <3>6 DEF KeptInv, Kept, Answered
    <2> QED BY <2>1, <2>2, <2>3
  <1>14. ASSUME NEW p \in Procs, PublishCheckpoint(p) PROVE KeptInv'
    <2>1. /\ pc[p] = "publish" /\ pc' = [pc EXCEPT ![p] = "release"]
          /\ UNCHANGED <<file, archived, promise, trusted, hist, opened, batch>>
          /\ \/ ckpt' = TRUE /\ outcome' = outcome
             \/ ckpt' = ckpt /\ outcome' = [outcome EXCEPT ![p] = "failed"]
      BY <1>14, Zenon DEF PublishCheckpoint, Refuse, Goto, ghostVars
    <2>2. CASE ckpt' = ckpt /\ outcome' = [outcome EXCEPT ![p] = "failed"]
      BY <1>0, <1>U, <2>1, <2>2, KeptQuiet
    <2>3. CASE ckpt' = TRUE /\ outcome' = outcome
      <3>1. \A q \in Procs : q # p => pc'[q] \notin {"open", "write", "settle", "publish", "release"}
        BY <1>0, <1>X, <2>1 DEF Critical
      <3>2. pc'[p] = "release" /\ Kept(ToSet(batch[p]))'
        BY <1>0, <2>1, <2>3 DEF KeptInv, Kept
      <3>3. Kept(Answered)'
        BY <2>1 DEF KeptInv, Kept, Answered
      <3> QED BY <2>1, <2>3, <3>1, <3>2, <3>3 DEF KeptInv
    <2> QED BY <2>1, <2>2, <2>3
  <1>15. ASSUME NEW p \in Procs, Release(p) PROVE KeptInv'
    <2>1. UNCHANGED <<file, ckpt, archived, trusted>>
      BY <1>15 DEF Release
    <2>2. CASE Finish(p, "rejected")
      <3>1. Answered' \subseteq Answered
        BY <2>2, AnswerResolves DEF Finish
      <3> QED BY <1>3, <2>1, <2>2, <3>1, Zenon DEF Finish, Goto
    <2>3. CASE ~ Finish(p, "rejected")
      <3>1. outcome[p] = "ok" /\ Finish(p, "resolved") /\ pc[p] = "release"
        BY <1>15, <2>3, Zenon DEF Release
      <3>2. Kept(ToSet(batch[p])) /\ Kept(Answered)
        BY <3>1 DEF KeptInv
      <3>3. Answered' \subseteq Answered \cup ToSet(batch[p])
        BY <3>1, ResolvedOnly DEF Finish
      <3>4. Kept(Answered)'
        BY <2>1, <3>2, <3>3 DEF Kept
      <3>5. \A q \in Procs :
                \/ pc'[q] = "idle"
                \/ /\ pc'[q] = pc[q] /\ hist'[q] = hist[q] /\ opened'[q] = opened[q]
                   /\ batch'[q] = batch[q] /\ outcome'[q] = outcome[q]
        BY <1>0, <3>1 DEF Finish, Goto
      <3> QED BY <2>1, <3>4, <3>5 DEF KeptInv, Kept
    <2> QED BY <2>2, <2>3
  <1>16. ASSUME RemoveStaleLock PROVE KeptInv'
    BY <1>16, <1>U, KeptQuiet DEF RemoveStaleLock, procVars
  <1>17. ASSUME file' = NoFile, UNCHANGED <<procVars, promise, recorded>>,
                \/ UNCHANGED <<ckpt, archived>>
                \/ ckpt' = FALSE /\ archived' = recorded
         PROVE  KeptInv'
    <2>1. file'.lines = <<>> /\ file'.obj = 0
      BY <1>17 DEF NoFile
    <2>2. ASSUME NEW S, S \subseteq recorded, ckpt = TRUE \/ S \subseteq archived
          PROVE  \/ S \ archived' \subseteq Ids(file'.lines)
                 \/ file'.lines = <<>> /\ ckpt' = TRUE
      BY <1>17, <2>1, <2>2
    <2>3. Kept(Answered)'
      BY <1>17, <2>2 DEF TraceInv, Kept, Answered
    <2>4. ASSUME NEW q \in Procs, pc[q] = "release", outcome[q] = "ok"
          PROVE  Kept(ToSet(batch[q]))'
      BY <1>17, <2>2, <2>4 DEF TraceInv, GroupRecorded, Kept, procVars
    <2>5. \A q \in Procs : pc[q] \in {"write", "settle"} => opened[q] # 0
      BY DEF ChainInv, HolderKnows
    <2>6. \A q \in Procs : pc[q] = "open" /\ hist[q].obj = 0 => ckpt' = FALSE
      BY <1>17 DEF KeptInv
    <2> QED BY <1>17, <2>1, <2>3, <2>4, <2>5, <2>6 DEF KeptInv, procVars
  <1>18. ASSUME Operator PROVE KeptInv'
    BY <1>16, <1>17, <1>18, Zenon DEF Operator, DeleteHistory, Archive
  <1>19. ASSUME UNCHANGED logVars PROVE KeptInv'
    BY <1>19, <1>U, KeptQuiet DEF logVars, diskVars, procVars, ghostVars
  <1> QED BY <1>1, <1>2, <1>4, <1>5, <1>6, <1>7, <1>8, <1>9, <1>11, <1>12, <1>13, <1>14, <1>15,
             <1>18, <1>19 DEF LogNext, Progress, Fault

LEMMA KeptInit == LogInit => KeptInv
  BY DEF LogInit, KeptInv, Kept, Answered, NoTrust

\* Only the end of a scan sets a verdict.
LEMMA VerdictSet ==
    ASSUME TypeInv, [LogNext]_logVars, NEW p \in Procs
    PROVE  verdict'[p] \in {verdict[p], NoVerdict, NotRun} \/ InspectForVerify(p)
  <1>0. verdict \in [Procs -> Verdict]
    BY DEF TypeInv, TypeOK
  <1>1. ASSUME NEW q \in Procs, NEW e \in Receipts, Queue(q, e) PROVE UNCHANGED verdict
    BY <1>1 DEF Queue
  <1>2. ASSUME NEW q \in Procs, InspectForVerify(q)
        PROVE  verdict'[p] = verdict[p] \/ InspectForVerify(p)
    BY <1>0, <1>2 DEF InspectForVerify
  <1>3. ASSUME NEW q \in Procs, LockTimeout(q) \/ Release(q) \/ StartVerify(q) \/ Crash(q)
        PROVE  verdict'[p] \in {verdict[p], NoVerdict, NotRun}
    <2>1. \/ verdict' = verdict
          \/ verdict' = [verdict EXCEPT ![q] = NotRun]
          \/ verdict' = [verdict EXCEPT ![q] = NoVerdict]
      BY <1>3, Zenon DEF LockTimeout, Release, StartVerify, Crash, Finish
    <2> QED BY <1>0, <2>1
  <1>4. ASSUME NEW q \in Procs,
               \/ Flush(q) \/ Restart(q) \/ AcquireLock(q) \/ InspectForAppend(q)
               \/ OpenHistory(q) \/ WriteLines(q) \/ SettleAppend(q) \/ PublishCheckpoint(q) \/ IoFault(q)
               \/ \E k \in 0 .. Len(batch[q]), cut \in Cuts : WritePartial(q, k, cut)
        PROVE  UNCHANGED verdict
    BY <1>4, Zenon DEF Flush, Restart, AcquireLock, InspectForAppend, OpenHistory,
           WriteLines, SettleAppend, PublishCheckpoint, IoFault, WritePartial
  <1>5. ASSUME Operator PROVE UNCHANGED verdict
    BY <1>5, Zenon DEF Operator, RemoveStaleLock, DeleteHistory, Archive, procVars
  <1>6. ASSUME UNCHANGED logVars PROVE UNCHANGED verdict
    BY <1>6 DEF logVars, procVars
  <1> QED BY <1>1, <1>2, <1>3, <1>4, <1>5, <1>6 DEF LogNext, Progress, Fault

\* A verification finds the chain intact only over a history that holds every
\* promised receipt not archived since, and is ok without a record only when every
\* one was archived.
THEOREM VerdictIsHonest == LogSpec => VerdictHonest
  <1>1. TypeInv /\ TraceInv /\ KeptInv /\ [LogNext]_logVars =>
            [\A p \in Procs : verdict'[p] # verdict[p] =>
               /\ verdict'[p].basis = "chain_intact" =>
                     Answered \ archived \subseteq {file.lines[i].id : i \in DOMAIN file.lines}
               /\ verdict'[p].ok /\ verdict'[p].basis = "no_record" => Answered \subseteq archived]_logVars
    <2> SUFFICES ASSUME TypeInv, TraceInv, KeptInv, [LogNext]_logVars, NEW p \in Procs,
                        verdict'[p] # verdict[p]
                 PROVE  /\ verdict'[p].basis = "chain_intact" =>
                              Answered \ archived \subseteq {file.lines[i].id : i \in DOMAIN file.lines}
                        /\ verdict'[p].ok /\ verdict'[p].basis = "no_record" => Answered \subseteq archived
      OBVIOUS
    <2>1. CASE verdict'[p] \in {NoVerdict, NotRun}
      BY <2>1 DEF NoVerdict, NotRun
    <2>2. CASE InspectForVerify(p)
      <3>1. verdict'[p] = VerdictOf(file, ckpt)
        BY <2>2 DEF InspectForVerify, TypeInv, TypeOK
      <3>2. verdict'[p].basis = Basis(file, ckpt)
        BY <3>1 DEF VerdictOf
      <3>3. verdict'[p].basis = "chain_intact" => file.lines # <<>>
        BY <3>2 DEF Basis, Valid
      <3>4. verdict'[p].basis = "no_record" => ckpt # TRUE
        BY <3>2 DEF Basis
      <3> QED BY <3>3, <3>4 DEF KeptInv, Kept, Ids, TraceInv
    <2> QED BY <2>1, <2>2, VerdictSet
  <1> QED BY <1>1, TraceInit, TraceNext, KeptInit, KeptNext, LogInvariant, PTL
          DEF LogSpec, VerdictHonest

-----------------------------------------------------------------------------
(***************************************************************************)
(* Fetches.                                                                *)
(***************************************************************************)

LEMMA AwaitQueues ==
    ASSUME NEW r \in Requests, NEW ev \in Events, NEW s, Await(r, ev, s)
    PROVE  /\ \E p \in Procs, e \in Receipts : Queue(p, e)
           /\ stage' = [stage EXCEPT ![r] = s]
  <1>1. Owner[r] \in Procs /\ <<r, ev>> \in Receipts
    BY OwnerAssumption, ReceiptsAssumption
  <1> QED BY <1>1 DEF Await, Reach

\* A fetch only queues receipts, or waits.
LEMMA FetchStepsLog ==
    ASSUME NEW r \in Requests, Preflight(r) \/ Continue(r) \/ Network(r)
    PROVE  [LogNext]_logVars
  <1>1. CASE Preflight(r)
    BY <1>1, AwaitQueues DEF Preflight, Events, LogNext
  <1>2. CASE Continue(r)
    BY <1>2 DEF Continue, AfterPreflight, AfterResolve, Dial, Deliver, AfterError, Resume
  <1>3. CASE ResolveTarget(r) \/ Respond(r)
    BY <1>3, AwaitQueues DEF ResolveTarget, Respond, Events, LogNext
  <1>4. CASE SocketError(r)
    <2>1. Owner[r] \in Procs /\ <<r, "transport_failed">> \in Receipts
      BY OwnerAssumption, ReceiptsAssumption DEF Events
    <2> QED BY <1>4, <2>1 DEF SocketError, LogNext
  <1> QED BY <1>1, <1>2, <1>3, <1>4 DEF Network

LEMMA NextStepsLog == [Next]_vars => [LogNext]_logVars
  <1> SUFFICES ASSUME [Next]_vars PROVE [LogNext]_logVars
    OBVIOUS
  <1>1. CASE \E r \in Requests : Preflight(r) \/ Continue(r) \/ Network(r)
    BY <1>1, FetchStepsLog
  <1>2. CASE LogStep
    BY <1>2, Zenon DEF LogStep, LogNext, Fault
  <1>3. CASE \E p \in Procs : CrashOwner(p)
    BY <1>3 DEF CrashOwner, LogNext, Fault
  <1>4. CASE UNCHANGED vars
    BY <1>4 DEF vars
  <1> QED BY <1>1, <1>2, <1>3, <1>4 DEF Next

\* Fetches over the history are a behaviour of the history: each step of a fetch
\* is a step of its log, or none.
LEMMA FetchUsesLog == Spec => LogSpec
  BY NextStepsLog, PTL DEF Spec, Init, LogSpec
-----------------------------------------------------------------------------
Dialed == {"dialing", "responding", "erring", "delivered", "failed"}

\* A fetch past an await has the receipt it awaited on record.
Evidence ==
    \A r \in Requests :
        /\ stage[r] \in Dialed \cup {"resolving", "starting"} => <<r, "preflight_allowed">> \in recorded
        /\ stage[r] \in Dialed => <<r, "dial_started">> \in recorded
        /\ stage[r] = "delivered" => <<r, "response_received">> \in recorded

FetchInv == stage \in [Requests -> Stages] /\ Evidence

LEMMA RecordedGrows == [LogNext]_logVars => recorded \subseteq recorded'
  <1> SUFFICES ASSUME [LogNext]_logVars PROVE recorded \subseteq recorded'
    OBVIOUS
  <1>1. ASSUME NEW p \in Procs, NEW e \in Receipts, Queue(p, e) PROVE UNCHANGED recorded
    BY <1>1 DEF Queue, ghostVars
  <1>2. ASSUME NEW p \in Procs, NEW k, NEW cut \in Cuts, Persist(p, k, cut) PROVE recorded \subseteq recorded'
    BY <1>2 DEF Persist
  <1>3. ASSUME NEW p \in Procs, \/ WriteLines(p)
                                \/ \E k \in 0 .. Len(batch[p]), cut \in Cuts : WritePartial(p, k, cut)
        PROVE  recorded \subseteq recorded'
    BY <1>2, <1>3, WholeCut, Zenon DEF WriteLines, WritePartial
  <1>4. ASSUME NEW p \in Procs,
               \/ Flush(p) \/ StartVerify(p) \/ LockTimeout(p) \/ Restart(p) \/ AcquireLock(p)
               \/ InspectForAppend(p) \/ InspectForVerify(p) \/ OpenHistory(p) \/ SettleAppend(p)
               \/ PublishCheckpoint(p) \/ IoFault(p) \/ Release(p) \/ Crash(p)
        PROVE  UNCHANGED recorded
    BY <1>4, Zenon DEF Flush, StartVerify, LockTimeout, Restart, AcquireLock, InspectForAppend,
           InspectForVerify, OpenHistory, SettleAppend, PublishCheckpoint, IoFault, Release, Crash,
           ghostVars
  <1>5. ASSUME Operator PROVE UNCHANGED recorded
    BY <1>5, Zenon DEF Operator, RemoveStaleLock, DeleteHistory, Archive
  <1>6. ASSUME UNCHANGED logVars PROVE UNCHANGED recorded
    BY <1>6 DEF logVars, ghostVars
  <1> QED BY <1>1, <1>3, <1>4, <1>5, <1>6 DEF LogNext, Progress, Fault

\* Resuming after a resolved await finds its receipt on record.
LEMMA ResumeRecorded ==
    ASSUME Answered \subseteq recorded, NEW r \in Requests, NEW ev \in Events, Resolved(r, ev)
    PROVE  <<r, ev>> \in recorded
  <1>1. <<r, ev>> \in Receipts
    BY ReceiptsAssumption
  <1> QED BY <1>1 DEF Resolved, Answered

LEMMA EvidenceNext ==
    Answered \subseteq recorded /\ FetchInv /\ [Next]_vars => FetchInv'
  <1> SUFFICES ASSUME Answered \subseteq recorded, FetchInv, [Next]_vars PROVE FetchInv'
    OBVIOUS
  <1>0. recorded \subseteq recorded' /\ stage \in [Requests -> Stages]
    BY NextStepsLog, RecordedGrows DEF FetchInv
  <1> USE DEF FetchInv, Evidence, Dialed, Stages, Final
  <1>1. ASSUME NEW r \in Requests, Preflight(r) PROVE FetchInv'
    <2>1. \E s \in {"denying", "allowing"} : stage' = [stage EXCEPT ![r] = s]
      BY <1>1, AwaitQueues DEF Preflight, Events
    <2> QED BY <1>0, <2>1
  <1>2. ASSUME NEW r \in Requests, AfterPreflight(r) PROVE FetchInv'
    <2>1. Resolved(r, "preflight_allowed") => <<r, "preflight_allowed">> \in recorded
      BY ResumeRecorded DEF Events
    <2> QED BY <1>0, <1>2, <2>1 DEF AfterPreflight, Resume, Reach
  <1>3. ASSUME NEW r \in Requests, ResolveTarget(r) PROVE FetchInv'
    <2>1. /\ stage[r] = "resolving"
          /\ \E s \in {"starting", "unresolved"} : stage' = [stage EXCEPT ![r] = s]
      BY <1>3, AwaitQueues DEF ResolveTarget, Events
    <2> QED BY <1>0, <2>1
  <1>4. ASSUME NEW r \in Requests, Dial(r) PROVE FetchInv'
    <2>1. Resolved(r, "dial_started") => <<r, "dial_started">> \in recorded
      BY ResumeRecorded DEF Events
    <2> QED BY <1>0, <1>4, <2>1 DEF Dial, Resume, Reach
  <1>5. ASSUME NEW r \in Requests, Respond(r) PROVE FetchInv'
    <2>1. stage[r] = "dialing" /\ stage' = [stage EXCEPT ![r] = "responding"]
      BY <1>5, AwaitQueues DEF Respond, Events
    <2> QED BY <1>0, <2>1
  <1>6. ASSUME NEW r \in Requests, SocketError(r) PROVE FetchInv'
    BY <1>0, <1>6 DEF SocketError, Reach
  <1>7. ASSUME NEW r \in Requests, Deliver(r) PROVE FetchInv'
    <2>1. Resolved(r, "response_received") => <<r, "response_received">> \in recorded
      BY ResumeRecorded DEF Events
    <2> QED BY <1>0, <1>7, <2>1 DEF Deliver, Resume, Reach
  <1>8. ASSUME NEW r \in Requests, AfterResolve(r) \/ AfterError(r) PROVE FetchInv'
    BY <1>0, <1>8 DEF AfterResolve, AfterError, Resume, Reach
  <1>9. ASSUME NEW p \in Procs, CrashOwner(p) PROVE FetchInv'
    BY <1>0, <1>9 DEF CrashOwner
  <1>10. ASSUME LogStep \/ UNCHANGED vars PROVE FetchInv'
    BY <1>0, <1>10 DEF LogStep, vars, fetchVars
  <1> QED BY <1>1, <1>2, <1>3, <1>4, <1>5, <1>6, <1>7, <1>8, <1>9, <1>10 DEF Next, Continue, Network

\* "no dial without a persisted receipt", for every number of processes and fetches.
THEOREM NoUnrecordedDial == Spec => []NoDialWithoutReceipt
  <1>1. Init => FetchInv
    BY DEF Init, FetchInv, Evidence, Dialed, Stages
  <1>2. FetchInv => NoDialWithoutReceipt
    BY DEF FetchInv, Evidence, Dialed, NoDialWithoutReceipt
  <1> QED BY <1>1, <1>2, EvidenceNext, FetchUsesLog, AnsweredIsRecorded, PTL DEF Spec
-----------------------------------------------------------------------------
(***************************************************************************)
(* The order of the evidence.  A receipt whose caller has asked for it     *)
(* follows, in the history, those its fetch awaited before.                *)
(***************************************************************************)

Before(lines, later, earlier) ==
    \A i, j \in DOMAIN lines : lines[i].id = later /\ lines[j].id = earlier => j < i

\* What a step does to the lines: those there stay in place, if the file does,
\* and those added hold receipts of the set S.
LinesStep(S) ==
    \A i \in DOMAIN file'.lines :
        \/ i \in DOMAIN file.lines /\ file'.lines[i].id = file.lines[i].id
        \/ (\A j \in DOMAIN file.lines : j < i) /\ file'.lines[i].id \in S

LEMMA LinesGrow ==
    ASSUME NEW lines \in Seq(Line), NEW prior \in Receipts \cup {None},
           NEW s \in Seq(Receipts), NEW k \in 0 .. Len(s), NEW cut \in Cuts,
           NEW new, new = lines \o Chained(prior, s, k, cut),
           NEW i \in DOMAIN new
    PROVE  \/ i \in DOMAIN lines /\ new[i].id = lines[i].id
           \/ (\A j \in DOMAIN lines : j < i) /\ new[i].id \in ToSet(SubSeq(s, 1, k))
  <1> DEFINE tail == Chained(prior, s, k, cut)
             b == SubSeq(s, 1, k)
  <1>1. /\ Len(lines) \in Nat /\ Len(s) \in Nat /\ k \in Nat
        /\ DOMAIN lines = 1 .. Len(lines)
    BY LenProperties
  <1>2. \A j \in 1 .. k : j \in 1 .. Len(s) /\ s[j] \in Receipts
    BY <1>1, ElementOfSeq
  <1>3. /\ b \in Seq(Receipts)
        /\ Len(b) = IF 1 <= k THEN k - 1 + 1 ELSE 0
        /\ \A j \in 1 .. k - 1 + 1 : b[j] = s[1 + j - 1]
    BY <1>1, <1>2, SubSeqProperties
  <1>4. /\ tail \in Seq(Line) /\ Len(tail) = k
        /\ \A j \in 1 .. k : tail[j].id = s[j]
    <2>1. /\ tail \in Seq(Line) /\ Len(tail) = k
          /\ \A j \in 1 .. k : /\ tail[j].id = s[j]
                              /\ tail[j].prev = IF j = 1 THEN prior ELSE s[j - 1]
      BY ChainedType
    <2> HIDE DEF tail
    <2> QED BY <2>1
  <1> HIDE DEF tail, b
  <1>5. DOMAIN b = 1 .. k /\ \A j \in 1 .. k : b[j] = s[j]
    BY <1>1, <1>3, LenProperties
  <1>6. ASSUME NEW j \in 1 .. k PROVE tail[j].id \in ToSet(b)
    <2>1. tail[j].id = b[j]
      BY <1>4, <1>5
    <2> QED BY <1>5, <2>1 DEF ToSet
  <1>7. /\ new \in Seq(Line) /\ Len(new) = Len(lines) + k
        /\ \A j \in 1 .. Len(lines) + k :
               new[j] = IF j <= Len(lines) THEN lines[j] ELSE tail[j - Len(lines)]
    <2>1. new = lines \o tail
      BY DEF tail
    <2>2. /\ lines \o tail \in Seq(Line) /\ Len(lines \o tail) = Len(lines) + Len(tail)
          /\ \A j \in 1 .. Len(lines) + Len(tail) :
                 (lines \o tail)[j] = IF j <= Len(lines) THEN lines[j] ELSE tail[j - Len(lines)]
      BY <1>4, ConcatProperties
    <2> QED BY <1>4, <2>1, <2>2
  <1>8. i \in 1 .. Len(lines) + k
    BY <1>7, LenProperties
  <1>9. CASE i <= Len(lines)
    BY <1>1, <1>7, <1>8, <1>9
  <1>10. CASE ~ i <= Len(lines)
    <2> DEFINE j == i - Len(lines)
    <2>1. j \in 1 .. k /\ new[i] = tail[j]
      BY <1>1, <1>7, <1>8, <1>10
    <2>2. \A l \in DOMAIN lines : l < i
      BY <1>1, <1>8, <1>10
    <2> HIDE DEF j
    <2>3. new[i].id \in ToSet(b)
      BY <1>6, <2>1
    <2> QED BY <2>2, <2>3 DEF b
  <1> QED BY <1>9, <1>10

\* What is recorded in a step was waiting for it, and was not on record.
LEMMA RecordedWaited ==
    ASSUME TypeInv, ChainInv, OnceInv, [LogNext]_logVars
    PROVE  \E S \in SUBSET (Waiting \ recorded) : recorded' = recorded \cup S /\ LinesStep(S)
  <1> DEFINE Goal == \E S \in SUBSET (Waiting \ recorded) : recorded' = recorded \cup S /\ LinesStep(S)
  <1>1. ASSUME recorded' = recorded, file'.lines = file.lines \/ file'.lines = <<>> PROVE Goal
    <2>1. DOMAIN <<>> = {}
      BY EmptySeq
    <2>2. LinesStep({})
      BY <1>1, <2>1 DEF LinesStep
    <2> QED BY <1>1, <2>2
  <1>2. ASSUME NEW p \in Procs, NEW k \in 0 .. Len(batch[p]), NEW cut \in Cuts, pc[p] = "write", Persist(p, k, cut)
        PROVE  Goal
    <2>1. CASE file.obj # opened[p]
      BY <1>1, <1>2, <2>1 DEF Persist
    <2>2. CASE file.obj = opened[p]
      <3> DEFINE S == ToSet(SubSeq(batch[p], 1, k))
      <3>1. /\ batch[p] \in Seq(Receipts) /\ IsInjective(batch[p])
            /\ hist[p].hash \in Receipts \cup {None} /\ file.lines \in Seq(Line)
        BY DEF TypeInv, TypeOK, OnceInv, File, Position
      <3>2. /\ file'.lines = file.lines \o Chained(hist[p].hash, batch[p], k, cut)
            /\ recorded' = recorded \cup S
        BY <1>2, <2>2, Persisted
      <3>3. S \subseteq ToSet(batch[p])
        BY <3>1, GroupOrder
      <3>4. S \in SUBSET (Waiting \ recorded)
        BY <1>2, <3>3 DEF OnceInv, Held
      <3>5. LinesStep(S)
        <4> SUFFICES ASSUME NEW i \in DOMAIN file'.lines
                     PROVE  \/ i \in DOMAIN file.lines /\ file'.lines[i].id = file.lines[i].id
                            \/ (\A j \in DOMAIN file.lines : j < i) /\ file'.lines[i].id \in S
          BY DEF LinesStep
        <4> HIDE DEF Goal
        <4> DEFINE lines == file.lines
                   prior == hist[p].hash
                   s == batch[p]
                   new == file'.lines
        <4>1. /\ lines \in Seq(Line) /\ prior \in Receipts \cup {None} /\ s \in Seq(Receipts)
              /\ k \in 0 .. Len(s) /\ new = lines \o Chained(prior, s, k, cut) /\ i \in DOMAIN new
          BY <3>1, <3>2
        <4> HIDE DEF lines, prior, s, new
        <4>2. \/ i \in DOMAIN lines /\ new[i].id = lines[i].id
              \/ (\A j \in DOMAIN lines : j < i) /\ new[i].id \in ToSet(SubSeq(s, 1, k))
          BY <4>1, LinesGrow
        <4> QED BY <4>2 DEF lines, new, s
      <3> HIDE DEF S
      <3> QED BY <3>2, <3>4, <3>5
    <2> QED BY <2>1, <2>2
  <1> HIDE DEF Goal
  <1>3. ASSUME NEW p \in Procs,
               \/ WriteLines(p)
               \/ \E k \in 0 .. Len(batch[p]), cut \in Cuts : WritePartial(p, k, cut)
        PROVE  Goal
    <2>1. pc[p] = "write"
      BY <1>3, Zenon DEF WriteLines, WritePartial
    <2>2. Len(batch[p]) \in 0 .. Len(batch[p])
      BY LenProperties DEF TypeInv, TypeOK
    <2>3. \E k \in 0 .. Len(batch[p]), cut \in Cuts : Persist(p, k, cut)
      BY <1>3, <2>2, WholeCut, Zenon DEF WriteLines, WritePartial
    <2> QED BY <1>2, <2>1, <2>3
  <1>4. ASSUME NEW p \in Procs, OpenHistory(p) PROVE Goal
    <2>1. UNCHANGED recorded
      BY <1>4 DEF OpenHistory, ghostVars
    <2>2. file'.lines = file.lines
      <3>1. CASE file.obj = 0
        BY <1>4, <3>1 DEF OpenHistory, CreateEmpty, ChainInv, Objects, NoFile
      <3>2. CASE file.obj # 0
        BY <1>4, <3>2 DEF OpenHistory
      <3> QED BY <3>1, <3>2
    <2> QED BY <1>1, <2>1, <2>2
  <1>5. ASSUME NEW p \in Procs, NEW e \in Receipts, Queue(p, e) PROVE Goal
    BY <1>1, <1>5 DEF Queue, diskVars, ghostVars
  <1>6. ASSUME NEW p \in Procs,
               \/ Flush(p) \/ StartVerify(p) \/ LockTimeout(p) \/ Restart(p) \/ AcquireLock(p)
               \/ InspectForAppend(p) \/ InspectForVerify(p) \/ SettleAppend(p)
               \/ PublishCheckpoint(p) \/ IoFault(p) \/ Release(p) \/ Crash(p)
        PROVE  Goal
    <2>1. UNCHANGED <<file, recorded>>
      BY <1>6, Zenon DEF Flush, StartVerify, LockTimeout, Restart, AcquireLock, InspectForAppend,
             InspectForVerify, SettleAppend, PublishCheckpoint, IoFault, Release, Crash, diskVars, ghostVars
    <2> QED BY <1>1, <2>1
  <1>7. ASSUME Operator PROVE Goal
    <2>1. UNCHANGED recorded /\ file' \in {file, NoFile}
      BY <1>7, Zenon DEF Operator, RemoveStaleLock, DeleteHistory, Archive
    <2> QED BY <1>1, <2>1 DEF NoFile
  <1>8. ASSUME UNCHANGED logVars PROVE Goal
    BY <1>1, <1>8 DEF logVars, diskVars, ghostVars
  <1>9. Goal
    BY <1>3, <1>4, <1>5, <1>6, <1>7, <1>8 DEF LogNext, Progress, Fault
  <1> QED BY <1>9 DEF Goal

\* The log asks for nothing of its own: a receipt nobody asked for stays so.
LEMMA UnaskedStays ==
    ASSUME TypeInv, OnceInv, LogStep \/ (\E p \in Procs : CrashOwner(p)) \/ UNCHANGED vars,
           NEW e \in Receipts, promise[e] = "none"
    PROVE  promise'[e] = "none"
  <1>1. \A p \in Procs : e \notin Held(p) /\ e \notin ToSet(batch[p])
    BY DEF OnceInv, Held, Waiting
  <1>2. ASSUME NEW p \in Procs, LockTimeout(p) \/ Release(p) PROVE promise'[e] = "none"
    <2>1. \E a : promise' = Answer(ToSet(batch[p]), a)
      BY <1>2 DEF LockTimeout, Release, Finish
    <2> QED BY <1>1, <2>1 DEF Answer
  <1>3. ASSUME NEW p \in Procs, CrashOwner(p) PROVE promise'[e] = "none"
    <2>1. promise' = Answer(Held(p), "lost")
      BY <1>3 DEF CrashOwner, Crash, Held
    <2> QED BY <1>1, <2>1 DEF Answer
  <1>4. ASSUME NEW p \in Procs,
               \/ Flush(p) \/ AcquireLock(p) \/ InspectForAppend(p) \/ InspectForVerify(p)
               \/ OpenHistory(p) \/ WriteLines(p) \/ SettleAppend(p) \/ PublishCheckpoint(p)
               \/ StartVerify(p) \/ Restart(p) \/ IoFault(p)
               \/ \E k \in 0 .. Len(batch[p]), cut \in Cuts : WritePartial(p, k, cut)
        PROVE  UNCHANGED promise
    BY <1>4, Zenon DEF Flush, AcquireLock, InspectForAppend, InspectForVerify, OpenHistory, WriteLines,
           SettleAppend, PublishCheckpoint, StartVerify, Restart, IoFault, WritePartial
  <1>5. ASSUME Operator PROVE UNCHANGED promise
    BY <1>5, Zenon DEF Operator, RemoveStaleLock, DeleteHistory, Archive
  <1>6. ASSUME UNCHANGED vars PROVE UNCHANGED promise
    BY <1>6 DEF vars, logVars
  <1> QED BY <1>2, <1>3, <1>4, <1>5, <1>6 DEF LogStep, Progress

\* A receipt that was asked for follows those its fetch awaited.
AskedInv ==
    \A r \in Requests :
        /\ stage[r] = "new" => \A ev \in Events : promise[<<r, ev>>] = "none"
        /\ promise[<<r, "preflight_denied">>] = "none" \/ promise[<<r, "preflight_allowed">>] = "none"
        /\ promise[<<r, "dial_started">>] # "none" => <<r, "preflight_allowed">> \in recorded
        /\ promise[<<r, "response_received">>] # "none" => <<r, "dial_started">> \in recorded

\* One fetch asks for one receipt, in a stage that has what precedes it.
LEMMA AskStep ==
    ASSUME TypeInv, AskedInv, NEW r \in Requests, NEW ev \in Events, NEW p \in Procs,
           Queue(p, <<r, ev>>), recorded \subseteq recorded',
           \A q \in Requests : stage'[q] = "new" => stage[q] = "new" /\ q # r,
           ev \in {"preflight_denied", "preflight_allowed"} => stage[r] = "new",
           ev = "dial_started" => <<r, "preflight_allowed">> \in recorded,
           ev = "response_received" => <<r, "dial_started">> \in recorded
    PROVE  AskedInv'
  <1>1. promise' = Answer({<<r, ev>>}, "queued")
    BY DEF Queue
  <1>2. \A q \in Requests, e2 \in Events :
            <<q, e2>> # <<r, ev>> => promise'[<<q, e2>>] = promise[<<q, e2>>]
    BY <1>1, ReceiptsAssumption DEF Answer
  <1>3. ASSUME NEW q \in Requests, q # r, NEW e2 \in Events PROVE promise'[<<q, e2>>] = promise[<<q, e2>>]
    BY <1>2, <1>3
  <1>4. ASSUME NEW e2 \in Events, e2 # ev PROVE promise'[<<r, e2>>] = promise[<<r, e2>>]
    BY <1>2, <1>4
  <1>5. {"preflight_denied", "preflight_allowed", "dial_started", "response_received"} \subseteq Events
    BY DEF Events
  <1>6. ASSUME NEW q \in Requests
        PROVE  /\ stage'[q] = "new" => \A e2 \in Events : promise'[<<q, e2>>] = "none"
               /\ \/ promise'[<<q, "preflight_denied">>] = "none"
                  \/ promise'[<<q, "preflight_allowed">>] = "none"
               /\ promise'[<<q, "dial_started">>] # "none" => <<q, "preflight_allowed">> \in recorded'
               /\ promise'[<<q, "response_received">>] # "none" => <<q, "dial_started">> \in recorded'
    <2>1. CASE q # r
      BY <1>3, <1>5, <2>1 DEF AskedInv
    <2>2. CASE q = r
      <3>1. stage'[r] # "new"
        BY <2>2
      <3>2. \/ promise'[<<r, "preflight_denied">>] = "none"
            \/ promise'[<<r, "preflight_allowed">>] = "none"
        BY <1>4, <1>5 DEF AskedInv
      <3>3. promise'[<<r, "dial_started">>] # "none" => <<r, "preflight_allowed">> \in recorded'
        BY <1>4, <1>5 DEF AskedInv
      <3>4. promise'[<<r, "response_received">>] # "none" => <<r, "dial_started">> \in recorded'
        BY <1>4, <1>5 DEF AskedInv
      <3> QED BY <2>2, <3>1, <3>2, <3>3, <3>4
    <2> QED BY <2>1, <2>2
  <1> QED BY <1>6 DEF AskedInv

\* Steps that ask for nothing.
LEMMA AskedQuiet ==
    ASSUME AskedInv, recorded \subseteq recorded',
           \A e \in Receipts : promise[e] = "none" => promise'[e] = "none",
           \A q \in Requests : stage'[q] = "new" => stage[q] = "new"
    PROVE  AskedInv'
  <1>1. \A q \in Requests, ev \in Events : promise[<<q, ev>>] = "none" => promise'[<<q, ev>>] = "none"
    BY ReceiptsAssumption
  <1>2. {"preflight_denied", "preflight_allowed", "dial_started", "response_received"} \subseteq Events
    BY DEF Events
  <1> QED BY <1>1, <1>2 DEF AskedInv

LEMMA AskedNext ==
    TypeInv /\ OnceInv /\ FetchInv /\ AskedInv /\ [Next]_vars => AskedInv'
  <1> SUFFICES ASSUME TypeInv, OnceInv, FetchInv, AskedInv, [Next]_vars PROVE AskedInv'
    OBVIOUS
  <1>0. recorded \subseteq recorded' /\ stage \in [Requests -> Stages]
    BY NextStepsLog, RecordedGrows DEF FetchInv
  <1>1. {"preflight_denied", "preflight_allowed", "dial_started", "response_received",
         "transport_failed"} \subseteq Events
    BY DEF Events
  <1>2. ASSUME NEW r \in Requests, NEW ev \in Events, NEW s \in Stages \ {"new"}, Await(r, ev, s),
               ev \in {"preflight_denied", "preflight_allowed"} => stage[r] = "new",
               ev = "dial_started" => stage[r] = "resolving",
               ev = "response_received" => stage[r] = "dialing"
        PROVE  AskedInv'
    <2>1. Queue(Owner[r], <<r, ev>>) /\ stage' = [stage EXCEPT ![r] = s] /\ Owner[r] \in Procs
      BY <1>2, OwnerAssumption DEF Await, Reach
    <2>2. \A q \in Requests : stage'[q] = "new" => stage[q] = "new" /\ q # r
      BY <1>0, <2>1
    <2>3. /\ ev = "dial_started" => <<r, "preflight_allowed">> \in recorded
          /\ ev = "response_received" => <<r, "dial_started">> \in recorded
      BY <1>2 DEF FetchInv, Evidence, Dialed
    <2> QED BY <1>0, <1>2, <2>1, <2>2, <2>3, AskStep
  <1>3. ASSUME NEW r \in Requests, Preflight(r) PROVE AskedInv'
    BY <1>1, <1>2, <1>3 DEF Preflight, Stages, Final
  <1>4. ASSUME NEW r \in Requests, ResolveTarget(r) PROVE AskedInv'
    BY <1>1, <1>2, <1>4 DEF ResolveTarget, Stages, Final
  <1>5. ASSUME NEW r \in Requests, Respond(r) PROVE AskedInv'
    BY <1>1, <1>2, <1>5 DEF Respond, Stages, Final
  <1>6. ASSUME NEW r \in Requests, SocketError(r) PROVE AskedInv'
    <2>1. /\ Queue(Owner[r], <<r, "transport_failed">>) /\ Owner[r] \in Procs
          /\ stage[r] # "new"
          /\ stage' = [stage EXCEPT ![r] = "erring"] \/ stage' = stage
      BY <1>6, OwnerAssumption DEF SocketError, Reach
    <2>2. \A q \in Requests : stage'[q] = "new" => stage[q] = "new" /\ q # r
      BY <1>0, <2>1
    <2> QED BY <1>0, <1>1, <2>1, <2>2, AskStep
  <1>7. ASSUME NEW r \in Requests, Continue(r) PROVE AskedInv'
    <2>1. UNCHANGED promise
      BY <1>7 DEF Continue, AfterPreflight, AfterResolve, Dial, Deliver, AfterError, Resume, logVars
    <2>2. \E s \in {"refused", "resolving", "dialing", "delivered", "failed"} :
              stage' = [stage EXCEPT ![r] = s]
      BY <1>7 DEF Continue, AfterPreflight, AfterResolve, Dial, Deliver, AfterError, Resume, Reach
    <2>3. \A q \in Requests : stage'[q] = "new" => stage[q] = "new"
      BY <1>0, <2>2
    <2> QED BY <1>0, <2>1, <2>3, AskedQuiet
  <1>8. ASSUME LogStep \/ (\E p \in Procs : CrashOwner(p)) \/ UNCHANGED vars PROVE AskedInv'
    <2>1. \A e \in Receipts : promise[e] = "none" => promise'[e] = "none"
      BY <1>8, UnaskedStays
    <2>2. \A q \in Requests : stage'[q] = "new" => stage[q] = "new"
      BY <1>0, <1>8 DEF LogStep, CrashOwner, vars, fetchVars
    <2> QED BY <1>0, <2>1, <2>2, AskedQuiet
  <1> QED BY <1>3, <1>4, <1>5, <1>6, <1>7, <1>8 DEF Next, Network

\* The lines of the history are on record, and in the order their fetches awaited them.
OrderInv ==
    /\ Ids(file.lines) \subseteq recorded
    /\ \A r \in Requests :
          /\ Before(file.lines, <<r, "dial_started">>, <<r, "preflight_allowed">>)
          /\ Before(file.lines, <<r, "response_received">>, <<r, "dial_started">>)

\* A receipt on record before another is asked for precedes it in the history.
LEMMA BeforeStays ==
    ASSUME TypeInv, Ids(file.lines) \subseteq recorded, NEW later, NEW earlier,
           NEW S, S \cap recorded = {}, LinesStep(S),
           Before(file.lines, later, earlier),
           later \in recorded \cup S => earlier \in recorded
    PROVE  Before(file.lines, later, earlier)'
  <1> SUFFICES ASSUME NEW i \in DOMAIN file'.lines, NEW j \in DOMAIN file'.lines,
                      file'.lines[i].id = later, file'.lines[j].id = earlier
               PROVE  j < i
    BY DEF Before
  <1>1. earlier \in recorded
    <2>1. CASE i \in DOMAIN file.lines /\ file'.lines[i].id = file.lines[i].id
      BY <2>1 DEF Ids
    <2>2. CASE file'.lines[i].id \in S
      BY <2>2
    <2> QED BY <2>1, <2>2 DEF LinesStep
  <1>2. j \in DOMAIN file.lines /\ file.lines[j].id = earlier
    BY <1>1 DEF LinesStep
  <1>3. CASE i \in DOMAIN file.lines /\ file'.lines[i].id = file.lines[i].id
    BY <1>2, <1>3 DEF Before
  <1>4. CASE \A l \in DOMAIN file.lines : l < i
    BY <1>2, <1>4
  <1> QED BY <1>3, <1>4 DEF LinesStep

LEMMA OrderNext ==
    TypeInv /\ ChainInv /\ OnceInv /\ AskedInv /\ OrderInv /\ [LogNext]_logVars => OrderInv'
  <1> SUFFICES ASSUME TypeInv, ChainInv, OnceInv, AskedInv, OrderInv, [LogNext]_logVars
               PROVE  OrderInv'
    OBVIOUS
  <1>1. PICK S \in SUBSET (Waiting \ recorded) : recorded' = recorded \cup S /\ LinesStep(S)
    BY RecordedWaited
  <1>2. Ids(file'.lines) \subseteq recorded'
    BY <1>1 DEF OrderInv, Ids, LinesStep
  <1>3. ASSUME NEW r \in Requests, NEW ev \in Events, <<r, ev>> \in recorded \cup S
        PROVE  promise[<<r, ev>>] # "none"
    BY <1>1, <1>3 DEF OnceInv, Waiting
  <1>4. ASSUME NEW r \in Requests
        PROVE  /\ Before(file.lines, <<r, "dial_started">>, <<r, "preflight_allowed">>)'
               /\ Before(file.lines, <<r, "response_received">>, <<r, "dial_started">>)'
    <2>1. /\ <<r, "dial_started">> \in recorded \cup S => <<r, "preflight_allowed">> \in recorded
          /\ <<r, "response_received">> \in recorded \cup S => <<r, "dial_started">> \in recorded
      BY <1>3 DEF AskedInv, Events
    <2> QED BY <1>1, <2>1, BeforeStays DEF OrderInv
  <1> QED BY <1>2, <1>4 DEF OrderInv

\* The record of a fetch is causal, for every number of processes and fetches and
\* whatever fails in between: decision, dial and response are on record in this
\* order, and never both decisions.
THEOREM EvidenceIsCausal == Spec => []EvidenceCausal
  <1>1. Init => FetchInv
    BY DEF Init, FetchInv, Evidence, Dialed, Stages
  <1>2. Init => AskedInv
    <2> SUFFICES ASSUME Init PROVE AskedInv
      OBVIOUS
    <2>1. \A q \in Requests, ev \in Events : promise[<<q, ev>>] = "none"
      BY ReceiptsAssumption DEF Init, LogInit
    <2>2. {"preflight_denied", "preflight_allowed", "dial_started", "response_received"} \subseteq Events
      BY DEF Events
    <2> QED BY <2>1, <2>2 DEF AskedInv
  <1>3. Init => OrderInv
    <2>1. DOMAIN <<>> = {}
      BY EmptySeq
    <2> QED BY <2>1 DEF Init, LogInit, OrderInv, Before, Ids, NoFile
  <1>4. OnceInv /\ AskedInv /\ OrderInv => EvidenceCausal
    <2> SUFFICES ASSUME OnceInv, AskedInv, OrderInv, NEW r \in Requests
                 PROVE  /\ <<r, "dial_started">> \in recorded => <<r, "preflight_allowed">> \in recorded
                        /\ <<r, "response_received">> \in recorded => <<r, "dial_started">> \in recorded
                        /\ ~ {<<r, "preflight_denied">>, <<r, "preflight_allowed">>} \subseteq recorded
                        /\ Before(file.lines, <<r, "dial_started">>, <<r, "preflight_allowed">>)
                        /\ Before(file.lines, <<r, "response_received">>, <<r, "dial_started">>)
      BY DEF EvidenceCausal, Before
    <2>1. \A ev : <<r, ev>> \in recorded => promise[<<r, ev>>] # "none"
      BY DEF OnceInv
    <2> QED BY <2>1 DEF AskedInv, OrderInv
  <1>5. OnceInv /\ TypeInv /\ ChainInv /\ AskedInv /\ OrderInv /\ [Next]_vars => OrderInv'
    BY OrderNext, NextStepsLog
  <1>6. LogSpec => []OnceInv
    BY TypeInit, TypeNext, OnceInit, OnceNext, PTL DEF LogSpec
  <1> QED BY <1>1, <1>2, <1>3, <1>4, <1>5, <1>6, EvidenceNext, AskedNext, FetchUsesLog, LogInvariant,
             AnsweredIsRecorded, PTL DEF Spec
=============================================================================
