---------------------------- MODULE BudgetControl -----------------------------
(***************************************************************************)
(* segreant budget --control (src/cli/controlCmd.ts with                   *)
(* src/budget/onlineControl.ts, src/budget/controlLock.ts): one bounded    *)
(* step of the autonomous controller of the daily cap, and the other       *)
(* writers of config.json (mutateConfig of src/config.ts).                 *)
(* Every file operation is a step; a process may die before any of them,   *)
(* and an operation may fail.  A write may also come up short without any  *)
(* error: durableWrite, durableAppend and persistConfigUnlocked all ignore *)
(* the count that writeSync returns, and go on.                            *)
(*                                                                         *)
(* A lock file holds the token of the call that created it.  Numbers stand *)
(* for amounts, a certified recommendation is an input, and "breaker"      *)
(* stands for a disabled or expired policy and every failed runaway check. *)
(***************************************************************************)
EXTENDS Integers, Sequences

CONSTANTS Controllers, Editors,   \* processes: the controller's, and settings commands'
          Policies,               \* policy files the operator has at hand
          Caps, StepScale,        \* amounts; maxRelativeStep is policy.step / StepScale
          None,                   \* no cap, no file, no lock
          MaxRuns, MaxEdits, MaxFaults

ASSUME PolicyAssumption ==
    \A p \in Policies : /\ {p.baseline, p.min, p.max} \subseteq Caps
                        /\ p.min <= p.baseline /\ p.baseline <= p.max
                        /\ p.step \in 1 .. StepScale /\ p.version \in Nat
ASSUME BoundsAssumption == {MaxRuns, MaxEdits, MaxFaults} \subseteq Nat /\ Caps \subseteq Nat \ {0}

Daily == Caps \cup {None}
Actions == {"no_action", "apply_recommended", "rollback_to_baseline"}
Tokens == {"run", "edit"} \X Nat

\* A state of the controller that has never acted is armed and owns nothing.
States ==
    {s \in [policy : Policies, phase : {"armed", "controlling", "rolled_back"},
            revision : Nat, lastApplied : Daily] :
       /\ s.phase = "armed" <=> s.revision = 0
       /\ s.phase = "armed" <=> s.lastApplied = None}

\* BudgetControlPendingMutation.
Intents ==
    [tx : Tokens, policy : Policies, previous : States, next : States,
     action : Actions \ {"no_action"}, from : Daily, to : Caps]

ASSUME NoneAssumption == None \notin Caps /\ None \notin Tokens /\ None \notin States /\ None \notin Intents

VARIABLES config,        \* config.json: [daily, edits, author]; edits counts the editors' changes in it
          controlLock, configLock,
          pending,       \* budget-control-pending.json
          state,         \* budget-control-state.json
          audit,         \* budget-control-audit.jsonl: the events whose append began,
          tail,          \* and the file's end; only the events of a Readable file can be read back
          torn,          \* files whose last write came up short: they do not parse
          handovers,     \* auxiliary: lengths of the audit when the state file changed policy ids
          pc, run,       \* per controller: its next step, and what it holds in memory
          edit,          \* per editor: [at, token, config]
          saved,         \* transactions whose saveConfig took place
          runs, edits, faults

files == <<pending, state, audit, tail, torn, handovers>>
counters == <<runs, edits, faults>>
vars == <<config, controlLock, configLock, files, pc, run, edit, saved, counters>>

NewRun(token, p, apply) ==
    [token |-> token, policy |-> p, apply |-> apply, config |-> None, previous |-> None, plan |-> None]
NoRun == NewRun(None, None, FALSE)
Readable == tail # "broken"

Fault == faults < MaxFaults /\ faults' = faults + 1

\* durableWrite and persistConfigUnlocked: the file is replaced, perhaps by a part of its text.
Written(file) ==
    \/ torn' = torn \ {file} /\ UNCHANGED faults
    \/ Fault /\ torn' = torn \cup {file}
-----------------------------------------------------------------------------
(* The plan: onlineControl.ts *)

initialState(p) == [policy |-> p, phase |-> "armed", revision |-> 0, lastApplied |-> None]

noAction(s, current, override) ==
    [action |-> "no_action", to |-> current, next |-> s, override |-> override]

stateFor(s, phase, cap) ==
    [policy |-> s.policy, phase |-> phase, revision |-> s.revision + 1, lastApplied |-> cap]

\* Only the controller's own last write is undone.
rollback(p, s, current) ==
    IF s.phase # "controlling" THEN noAction(s, current, FALSE)
    ELSE IF s.lastApplied # current THEN noAction(s, current, TRUE)
    ELSE [action |-> "rollback_to_baseline", to |-> p.baseline,
          next |-> stateFor(s, "rolled_back", p.baseline), override |-> FALSE]

Owned(p, s) == IF s.phase = "controlling" THEN s.lastApplied ELSE p.baseline

relativeStepExceeds(p, target, current) ==
    (IF target >= current THEN target - current ELSE current - target) * StepScale > current * p.step

planBudgetControl(p, s, current, inForce, breaker, target) ==
    IF ~ inForce \/ s.phase = "rolled_back" THEN noAction(s, current, FALSE)
    ELSE IF breaker \/ target = None THEN rollback(p, s, current)
    ELSE IF target \notin p.min .. p.max THEN rollback(p, s, current)
    ELSE IF current # Owned(p, s) THEN noAction(s, current, TRUE)
    ELSE IF relativeStepExceeds(p, target, current) THEN rollback(p, s, current)
    ELSE IF current = target THEN noAction(s, current, FALSE)
    ELSE [action |-> "apply_recommended", to |-> target,
          next |-> stateFor(s, "controlling", target), override |-> FALSE]

reconcile_Rearms(p, current) ==
    IF "state" \in torn THEN {}
    ELSE IF state # None /\ state.policy = p /\ state.phase # "rolled_back" THEN {state}
    ELSE IF state # None /\ state.policy # p /\ state.policy.id = p.id /\ state.policy.version >= p.version THEN {}
    ELSE IF current = p.baseline THEN {initialState(p)} ELSE {}

\* loadState with reconcileBudgetControlState: the states to go on with, none on a refusal.
reconcile(p, current) ==
    IF "state" \in torn THEN {}
    ELSE IF state # None /\ state.policy = p THEN {state}
    ELSE IF state # None /\ state.policy.id = p.id /\ state.policy.version >= p.version THEN {}
    ELSE IF current = p.baseline THEN {initialState(p)} ELSE {}

Recorded(tx) == \E i \in DOMAIN audit : audit[i].tx = tx

resolve_ClaimsAborted(m, current) ==
    IF Recorded(m.tx) THEN "already_recorded"
    ELSE IF current = m.from THEN "complete"
    ELSE IF current = m.to THEN "abort" ELSE "conflict"

\* resolveBudgetControlPending of a pending mutation m.
resolve(m, current) ==
    IF Recorded(m.tx) THEN "already_recorded"
    ELSE IF current = m.to THEN "complete"
    ELSE IF current = m.from THEN "abort" ELSE "conflict"
-----------------------------------------------------------------------------
(* A run of the controller: cmdBudgetControl *)

Go(c, next) == pc' = [pc EXCEPT ![c] = next]

\* A throw reaches the finally blocks.
Throw(c) == Go(c, "release_config")

Start(c) ==
    /\ pc[c] = "off"
    /\ runs < MaxRuns /\ runs' = runs + 1
    /\ controlLock = None /\ controlLock' = <<"run", runs'>>
    /\ \E p \in Policies, apply \in BOOLEAN :
          run' = [run EXCEPT ![c] = NewRun(controlLock', p, apply)]
    /\ Go(c, "control")
    /\ UNCHANGED <<config, configLock, files, edit, saved, edits, faults>>

AcquireConfig_Steals(c) ==
    /\ pc[c] = "control"
    /\ IF ~ run[c].apply /\ pending # None
       THEN Go(c, "release_control") /\ UNCHANGED configLock
       ELSE /\ configLock' = IF run[c].apply THEN run[c].token ELSE configLock
            /\ Go(c, "load")
    /\ UNCHANGED <<config, controlLock, files, run, edit, saved, counters>>

\* --apply holds the configuration from here on; a preview refuses an interrupted mutation.
AcquireConfig(c) ==
    /\ pc[c] = "control"
    /\ IF IF run[c].apply THEN configLock # None ELSE pending # None
       THEN Go(c, "release_control") /\ UNCHANGED configLock
       ELSE /\ configLock' = IF run[c].apply THEN run[c].token ELSE configLock
            /\ Go(c, "load")
    /\ UNCHANGED <<config, controlLock, files, run, edit, saved, counters>>

Load(c) ==
    /\ pc[c] = "load"
    /\ IF "config" \in torn
       THEN Throw(c) /\ UNCHANGED run
       ELSE /\ run' = [run EXCEPT ![c].config = config]
            /\ Go(c, IF run[c].apply THEN "recover" ELSE "plan")
    /\ UNCHANGED <<config, controlLock, configLock, files, edit, saved, counters>>

Current(c) == run[c].config.daily

Recover_DropsConflict(c) ==
    /\ pc[c] = "recover"
    /\ IF pending = None THEN Go(c, "plan")
       ELSE IF "pending" \in torn \/ ~ Readable \/ pending.policy # run[c].policy THEN Throw(c)
       ELSE Go(c, IF resolve(pending, Current(c)) \in {"already_recorded", "conflict"}
                  THEN "recover_clear" ELSE "recover_state")
    /\ UNCHANGED <<config, controlLock, configLock, files, run, edit, saved, counters>>

\* recoverPending: read the pending mutation and the audit, and decide.
Recover(c) ==
    /\ pc[c] = "recover"
    /\ IF pending = None THEN Go(c, "plan")
       ELSE IF "pending" \in torn \/ ~ Readable \/ pending.policy # run[c].policy THEN Throw(c)
       ELSE Go(c, CASE resolve(pending, Current(c)) = "already_recorded" -> "recover_clear"
                    [] resolve(pending, Current(c)) = "conflict" -> "release_config"
                    [] OTHER -> "recover_state")
    /\ UNCHANGED <<config, controlLock, configLock, files, run, edit, saved, counters>>

Completes(c) == resolve(pending, Current(c)) = "complete"

\* writeState: the one state file may pass to a policy with another id.
SetState(s) ==
    /\ state' = s /\ Written("state")
    /\ handovers' = IF state # None /\ state.policy.id # s.policy.id
                    THEN handovers \cup {Len(audit)} ELSE handovers
    /\ UNCHANGED <<pending, audit, tail>>

RecoverState(c) ==
    /\ pc[c] = "recover_state"
    /\ SetState(IF Completes(c) THEN pending.next ELSE pending.previous)
    /\ Go(c, "recover_audit")
    /\ UNCHANGED <<config, controlLock, configLock, run, edit, saved, runs, edits>>

\* The event a run is about to append.
Event(c) ==
    IF pc[c] = "recover_audit"
    THEN [tx |-> pending.tx, policy |-> pending.policy, from |-> pending.from, override |-> FALSE,
          action |-> IF Completes(c) THEN pending.action ELSE "no_action",
          to |-> IF Completes(c) THEN pending.to ELSE pending.from,
          revision |-> (IF Completes(c) THEN pending.next ELSE pending.previous).revision]
    ELSE [tx |-> run[c].token, policy |-> run[c].policy, from |-> Current(c),
          override |-> run[c].plan.override, action |-> run[c].plan.action,
          to |-> run[c].plan.to, revision |-> run[c].plan.next.revision]

\* The line as it ends up in the file; after one without its newline it is glued to
\* that one, and neither parses.
WriteLine(c, end) ==
    /\ audit' = Append(audit, Event(c))
    /\ tail' = IF tail = "clean" THEN end ELSE "broken"
    /\ UNCHANGED <<pending, state, torn, handovers>>

\* appendAudit
AppendAudit(c) ==
    /\ pc[c] \in {"recover_audit", "audit"}
    /\ \/ WriteLine(c, "clean") /\ UNCHANGED faults
       \/ Fault /\ \E end \in {"unterminated", "broken"} : WriteLine(c, end)
    /\ Go(c, IF pc[c] = "recover_audit" THEN "recover_clear"
             ELSE IF run[c].plan.action = "no_action" THEN "release_config" ELSE "clear")
    /\ UNCHANGED <<config, controlLock, configLock, run, edit, saved, runs, edits>>

ClearPending(c) ==
    /\ pc[c] \in {"recover_clear", "clear"}
    /\ pending' = None /\ torn' = torn \ {"pending"}
    /\ Go(c, IF pc[c] = "recover_clear" THEN "plan" ELSE "release_config")
    /\ UNCHANGED <<config, controlLock, configLock, state, audit, tail, handovers, run, edit, saved, counters>>

\* loadState, the decision, the plan; a preview ends here, --apply reads the audit.
Plan(c) ==
    /\ pc[c] = "plan"
    /\ LET p == run[c].policy
       IN  \/ /\ reconcile(p, Current(c)) = {} \/ ~ run[c].apply \/ ~ Readable
              /\ Throw(c) /\ UNCHANGED run
           \/ /\ run[c].apply /\ Readable
              /\ \E s \in reconcile(p, Current(c)), inForce, breaker \in BOOLEAN, target \in Daily :
                   LET plan == planBudgetControl(p, s, Current(c), inForce, breaker, target)
                   IN  /\ run' = [run EXCEPT ![c] = [run[c] EXCEPT !.plan = plan, !.previous = s]]
                       /\ Go(c, IF plan.action = "no_action" THEN "state" ELSE "pending")
    /\ UNCHANGED <<config, controlLock, configLock, files, edit, saved, counters>>

WritePending_AfterConfig(c) ==
    /\ pc[c] = "pending"
    /\ Go(c, "save")
    /\ UNCHANGED <<config, controlLock, configLock, files, run, edit, saved, counters>>

\* The write-ahead record.
WritePending(c) ==
    /\ pc[c] = "pending"
    /\ pending' = [tx |-> run[c].token, policy |-> run[c].policy, previous |-> run[c].previous,
                   next |-> run[c].plan.next, action |-> run[c].plan.action,
                   from |-> Current(c), to |-> run[c].plan.to]
    /\ Written("pending")
    /\ Go(c, "save")
    /\ UNCHANGED <<config, controlLock, configLock, state, audit, tail, handovers, run, edit, saved,
                   runs, edits>>

\* saveConfigWithLock: the whole configuration as loaded, with the new cap.
SaveConfig(c) ==
    /\ pc[c] = "save"
    /\ IF configLock # run[c].token
       THEN Throw(c) /\ UNCHANGED <<config, saved, torn, faults>>
       ELSE /\ Written("config")
            /\ config' = [run[c].config EXCEPT !.daily = run[c].plan.to, !.author = "controller"]
            /\ saved' = saved \cup {run[c].token}
            /\ Go(c, "state")
    /\ UNCHANGED <<controlLock, configLock, pending, state, audit, tail, handovers, run, edit, runs, edits>>

WriteState(c) ==
    /\ pc[c] = "state"
    /\ SetState(run[c].plan.next)
    /\ Go(c, "audit")
    /\ UNCHANGED <<config, controlLock, configLock, run, edit, saved, runs, edits>>

ReleaseConfig_ClearsPending(c) ==
    /\ pc[c] = "release_config"
    /\ pending' = None /\ torn' = torn \ {"pending"}
    /\ configLock' = IF configLock = run[c].token THEN None ELSE configLock
    /\ Go(c, "release_control")
    /\ UNCHANGED <<config, controlLock, state, audit, tail, handovers, run, edit, saved, counters>>

\* finally: each lock is removed only while it holds this run's token.
ReleaseConfig(c) ==
    /\ pc[c] = "release_config"
    /\ configLock' = IF configLock = run[c].token THEN None ELSE configLock
    /\ Go(c, "release_control")
    /\ UNCHANGED <<config, controlLock, files, run, edit, saved, counters>>

ReleaseControl(c) ==
    /\ pc[c] = "release_control"
    /\ controlLock' = IF controlLock = run[c].token THEN None ELSE controlLock
    /\ run' = [run EXCEPT ![c] = NoRun]
    /\ Go(c, "off")
    /\ UNCHANGED <<config, configLock, files, edit, saved, counters>>

Durable == {"recover_state", "recover_audit", "recover_clear", "pending", "save", "state", "audit", "clear"}

\* A file operation, or issuing the certificate before "pending", throws.
Fail(c) ==
    /\ Fault
    /\ pc[c] \in Durable
    /\ Throw(c)
    /\ UNCHANGED <<config, controlLock, configLock, files, run, edit, saved, runs, edits>>

\* The process dies; its lock files stay.
Crash(c) ==
    /\ Fault
    /\ pc[c] # "off"
    /\ run' = [run EXCEPT ![c] = NoRun]
    /\ Go(c, "off")
    /\ UNCHANGED <<config, controlLock, configLock, files, edit, saved, runs, edits>>

\* The append writes part of its line or all of it, and then the process dies or fsync fails.
CutAppend(c) ==
    /\ Fault
    /\ pc[c] \in {"recover_audit", "audit"}
    /\ \E end \in {"clean", "unterminated", "broken"} : WriteLine(c, end)
    /\ \/ run' = [run EXCEPT ![c] = NoRun] /\ Go(c, "off")
       \/ UNCHANGED run /\ Throw(c)
    /\ UNCHANGED <<config, controlLock, configLock, edit, saved, runs, edits>>
-----------------------------------------------------------------------------
(* Settings commands and the dashboard: mutateConfig *)

NoEdit == [at |-> "off", token |-> None, config |-> None]

EditAcquire(e) ==
    /\ edit[e].at = "off"
    /\ edits < MaxEdits /\ edits' = edits + 1
    /\ configLock = None /\ configLock' = <<"edit", edits'>>
    /\ edit' = [edit EXCEPT ![e] = [NoEdit EXCEPT !.at = "load", !.token = configLock']]
    /\ UNCHANGED <<config, controlLock, files, pc, run, saved, runs, faults>>

EditLoad(e) ==
    /\ edit[e].at = "load"
    /\ edit' = IF "config" \in torn THEN [edit EXCEPT ![e].at = "release"]
               ELSE [edit EXCEPT ![e].at = "persist", ![e].config = config]
    /\ UNCHANGED <<config, controlLock, configLock, files, pc, run, saved, counters>>

\* The mutator sets the cap, or leaves it and changes something else.
EditPersist(e) ==
    /\ edit[e].at = "persist"
    /\ LET c == edit[e].config
       IN  \E daily \in Daily :
             config' = [daily |-> daily, edits |-> c.edits + 1,
                        author |-> IF daily = c.daily THEN c.author ELSE "operator"]
    /\ Written("config")
    /\ edit' = [edit EXCEPT ![e].at = "release"]
    /\ UNCHANGED <<controlLock, configLock, pending, state, audit, tail, handovers, pc, run, saved, runs, edits>>

EditRelease(e) ==
    /\ edit[e].at = "release"
    /\ configLock' = IF configLock = edit[e].token THEN None ELSE configLock
    /\ edit' = [edit EXCEPT ![e] = NoEdit]
    /\ UNCHANGED <<config, controlLock, files, pc, run, saved, counters>>

EditCrash(e) ==
    /\ Fault
    /\ edit[e].at # "off"
    /\ edit' = [edit EXCEPT ![e] = NoEdit]
    /\ UNCHANGED <<config, controlLock, configLock, files, pc, run, saved, runs, edits>>

\* The operator removes a lock whose process is gone.
Live == {run[c].token : c \in Controllers} \cup {edit[e].token : e \in Editors}

RemoveStaleLock ==
    /\ \/ controlLock \notin Live \cup {None} /\ controlLock' = None /\ UNCHANGED configLock
       \/ configLock \notin Live \cup {None} /\ configLock' = None /\ UNCHANGED controlLock
    /\ UNCHANGED <<config, files, pc, run, edit, saved, counters>>
-----------------------------------------------------------------------------
Init ==
    /\ config \in [daily : {p.baseline : p \in Policies}, edits : {0}, author : {"operator"}]
    /\ controlLock = None /\ configLock = None
    /\ pending = None /\ state = None /\ audit = <<>> /\ tail = "clean"
    /\ torn = {} /\ handovers = {}
    /\ pc = [c \in Controllers |-> "off"] /\ run = [c \in Controllers |-> NoRun]
    /\ edit = [e \in Editors |-> NoEdit]
    /\ saved = {} /\ runs = 0 /\ edits = 0 /\ faults = 0

RunNext(c) ==
    \/ Start(c) \/ AcquireConfig(c) \/ Load(c) \/ Recover(c) \/ RecoverState(c)
    \/ AppendAudit(c) \/ ClearPending(c) \/ Plan(c) \/ WritePending(c) \/ SaveConfig(c)
    \/ WriteState(c) \/ ReleaseConfig(c) \/ ReleaseControl(c)
    \/ Fail(c) \/ Crash(c) \/ CutAppend(c)

EditNext(e) ==
    EditAcquire(e) \/ EditLoad(e) \/ EditPersist(e) \/ EditRelease(e) \/ EditCrash(e)

Next ==
    \/ \E c \in Controllers : RunNext(c)
    \/ \E e \in Editors : EditNext(e)
    \/ RemoveStaleLock

Spec == Init /\ [][Next]_vars
-----------------------------------------------------------------------------
Configs == [daily : Daily, edits : Nat, author : {"operator", "controller"}]
Plans == [action : Actions, to : Daily, next : States, override : BOOLEAN]
Runs == [token : Tokens \cup {None}, policy : Policies \cup {None}, apply : BOOLEAN,
         config : Configs \cup {None}, previous : States \cup {None}, plan : Plans \cup {None}]
Edits == [at : {"off", "load", "persist", "release"}, token : Tokens \cup {None}, config : Configs \cup {None}]
AuditEvents ==
    [tx : Tokens, policy : Policies, from : Daily, override : BOOLEAN,
     action : Actions, to : Daily, revision : Nat]
Labels == Durable \cup {"off", "control", "load", "recover", "plan", "release_config", "release_control"}

TypeOK ==
    /\ config \in Configs
    /\ controlLock \in Tokens \cup {None} /\ configLock \in Tokens \cup {None}
    /\ pending \in Intents \cup {None} /\ state \in States \cup {None}
    /\ audit \in Seq(AuditEvents) /\ tail \in {"clean", "unterminated", "broken"}
    /\ torn \in SUBSET {"pending", "state", "config"} /\ handovers \in SUBSET Nat
    /\ pc \in [Controllers -> Labels] /\ run \in [Controllers -> Runs]
    /\ edit \in [Editors -> Edits]
    /\ saved \in SUBSET Tokens
    /\ runs \in Nat /\ edits \in Nat /\ faults \in Nat

Mutations == {i \in DOMAIN audit : audit[i].action # "no_action"}
LastMutation == CHOOSE i \in Mutations : \A j \in Mutations : j <= i

\* config.ts: "Atomic Segreant read-modify-write transaction": no writer ever
\* overwrites a change an editor made after the writer read the file.
NoLostUpdate == [][config'.edits >= config.edits]_vars

\* The write-ahead intent comes first: while the intent and the audit can be read, a
\* cap the controller saved is in the audit or still pending, whatever died or failed.
EverySaveAccounted ==
    Readable /\ "pending" \notin torn =>
        \A tx \in saved : (pending # None /\ pending.tx = tx) \/ Recorded(tx)

\* While no mutation is pending, a cap the controller set is the one its last
\* audited mutation names, if the audit can be read.
AuditExplainsCap ==
    Readable /\ pending = None /\ config.author = "controller" =>
        Mutations # {} /\ audit[LastMutation].to = config.daily

\* A state file that parses and owns a cap was reached by an audited mutation of that policy.
EveryRevisionAudited ==
    Readable /\ "state" \notin torn /\ pending = None /\ state # None /\ state.revision > 0 =>
        \E i \in Mutations : /\ audit[i].policy = state.policy /\ audit[i].revision = state.revision
                             /\ audit[i].to = state.lastApplied

Moves == {i \in Mutations : audit[i].from # audit[i].to}

\* "The next invocation can prove whether the config reached the from-side or
\* to-side": the caps the audit says the controller moved are caps it did save.
RecoveryProves == Readable => \A i \in Moves : audit[i].tx \in saved

\* The same while nobody else writes the configuration, where it finds them all.
RecoveryProvesAlone ==
    Readable /\ edits = 0 /\ pending = None => /\ RecoveryProves
                                              /\ saved \subseteq {audit[i].tx : i \in Mutations}

\* The same comment of the files it needs: a pending intent and the audit can be read.
RecoveryReads == pending # None => Readable /\ "pending" \notin torn

\* The j-th event moves the cap under a policy that the i-th had rolled back, or
\* under an older or reused version of it.
Rearms(i, j) ==
    /\ i < j /\ audit[i].action = "rollback_to_baseline"
    /\ audit[i].policy.id = audit[j].policy.id /\ audit[i].policy.version >= audit[j].policy.version

\* onlineControl.ts: "The same exact policy never re-arms itself: rolled_back
\* remains terminal": nothing is applied under a policy after its rollback.
NeverRearmed == \A i, j \in Mutations : ~ Rearms(i, j)

\* What the code guarantees of it: the one state file must have passed to a policy
\* with another id in between.
RearmedOnlyByHandover ==
    \A i, j \in Mutations : Rearms(i, j) => \E h \in handovers : i <= h /\ h < j

\* onlineControl.ts: "A manual edit is a human override and terminates autonomous
\* authority for this policy instance": once a run of a controller that had acted
\* found the cap edited, nothing more is applied under that policy.
OverrideTerminates ==
    \A i \in DOMAIN audit, j \in Mutations :
        i < j /\ audit[i].override /\ audit[i].revision > 0 => audit[i].policy # audit[j].policy
=============================================================================
