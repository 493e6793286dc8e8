------------------------ MODULE BudgetControl_proofs ------------------------
(***************************************************************************)
(* Theorems about BudgetControl: what holds after every crash, failing     *)
(* write and torn audit line, for any controllers, settings commands and   *)
(* policies.                                                               *)
(***************************************************************************)
EXTENDS BudgetControl, TLAPS, SequenceTheorems

(* Steps of a run, grouped by what it then holds. *)
On(c) == pc[c] # "off"
Recovering == {"recover_state", "recover_audit", "recover_clear"}
Deciding == {"pending", "save", "state", "audit", "clear"}
After == {"state", "audit", "clear"}
Held == {"load", "recover", "plan", "release_config"} \cup Recovering \cup Deciding
Reading == {"recover", "plan"} \cup Recovering \cup Deciding
ApplyOnly == {"recover"} \cup Recovering \cup Deciding

\* The plan of a run changes the cap.
Mutates(c) == run[c].plan.action # "no_action"

\* What a run remembers of its plan fits its policy.
PlanOK(r) ==
    /\ r.plan \in Plans /\ r.previous \in States
    /\ r.previous.policy = r.policy /\ r.plan.next.policy = r.policy
    /\ r.plan.action = "no_action" => r.plan.next = r.previous
    /\ r.plan.action # "no_action" => r.plan.to \in Caps /\ r.plan.next.lastApplied = r.plan.to
    /\ r.plan.action = "rollback_to_baseline" => r.plan.next.phase = "rolled_back"

\* A pending mutation carries both states of one policy.
IntentOK(m) ==
    /\ m.previous.policy = m.policy /\ m.next.policy = m.policy
    /\ m.next.lastApplied = m.to
    /\ m.action = "rollback_to_baseline" => m.next.phase = "rolled_back"

\* A run holds a configuration and a plan once it is past the step that takes them.
Remembers(c) ==
    /\ On(c) => run[c].policy \in Policies
    /\ pc[c] \in Reading => run[c].config \in Configs
    /\ pc[c] \in Deciding => PlanOK(run[c])

TypeInv ==
    /\ TypeOK
    /\ pending # None => IntentOK(pending)
    /\ \A c \in Controllers : Remembers(c)

\* One run at a time holds the control lock; while a run that applies, or an
\* editor, is between its load and its release, the configuration lock is its own.
LockInv ==
    /\ \A c \in Controllers :
         /\ On(c) => run[c].token = <<"run", runs>> /\ controlLock = run[c].token
         /\ pc[c] \in Held /\ run[c].apply => configLock = run[c].token
         /\ pc[c] \in ApplyOnly => run[c].apply
    /\ \A c, d \in Controllers : On(c) /\ On(d) => c = d
    /\ \A e \in Editors :
         edit[e].at # "off" => edit[e].token = <<"edit", edits>> /\ configLock = edit[e].token /\ edits > 0
    /\ \A e, f \in Editors : edit[e].at # "off" /\ edit[f].at # "off" => e = f

\* What was read under the lock is what the file still holds.
ReadInv ==
    /\ \A c \in Controllers :
         /\ pc[c] \in (Reading \ After) /\ run[c].apply => run[c].config = config
         /\ pc[c] \in After /\ Mutates(c) => config.daily = run[c].plan.to
    /\ \A e \in Editors : edit[e].at = "persist" => edit[e].config = config

\* Transactions started, and those in the audit.
Old == {"run"} \X (0 .. runs)
Txs == {audit[i].tx : i \in DOMAIN audit}

\* The pending record is the one this run wrote.
Carried(c) ==
    /\ pending # None
    /\ pending = [tx |-> run[c].token, policy |-> run[c].policy, previous |-> run[c].previous,
                  next |-> run[c].plan.next, action |-> run[c].plan.action,
                  from |-> Current(c), to |-> run[c].plan.to]

\* A run's transaction is new until it saves; the record is there from before the
\* save until after the event, and the recovery settles it before a new plan.
Intends(c) ==
    /\ pc[c] \in {"control", "load", "recover", "plan", "pending", "save"} \cup Recovering =>
          run[c].token \notin saved \cup Txs
    /\ pc[c] \in {"control", "load", "recover", "plan", "pending"} \cup Recovering =>
          (pending # None => pending.tx # run[c].token)
    /\ pc[c] \in {"state", "audit"} => run[c].token \notin Txs
    /\ pc[c] \in After /\ Mutates(c) => run[c].token \in saved
    /\ pc[c] \in {"recover_state", "recover_audit"} =>
          /\ pending # None /\ pending.tx \notin Txs /\ pending.policy = run[c].policy
          /\ config.daily \in {pending.from, pending.to}
    /\ pc[c] = "recover_clear" => pending # None /\ pending.tx \in Txs
    /\ pc[c] = "plan" /\ run[c].apply => pending = None
    /\ pc[c] = "pending" => pending = None
    /\ pc[c] \in {"pending", "save", "clear"} => Mutates(c)
    /\ pc[c] \in {"state", "audit"} /\ ~ Mutates(c) => pending = None
    /\ pc[c] \in {"save"} \cup After /\ Mutates(c) => Carried(c)
    /\ pc[c] = "clear" => pending.tx \in Txs

IntentInv ==
    /\ saved \cup Txs \subseteq Old
    /\ pending # None => pending.tx \in Old
    /\ \A c \in Controllers : Intends(c)

\* An intent whose outcome the audit does not name yet.
Unrecorded == pending # None /\ pending.tx \notin Txs

\* A cap the controller wrote is the last audited one, or the one it is about to audit.
Last(i) == i \in Mutations /\ \A j \in Mutations : j <= i
CapInv ==
    config.author = "controller" =>
      \/ \E i \in Mutations : Last(i) /\ audit[i].to = config.daily
      \/ Unrecorded /\ pending.to = config.daily

\* EverySaveAccounted over the set of audited transactions.
SavedInv == \A tx \in saved : (pending # None /\ pending.tx = tx) \/ tx \in Txs

\* The state file is behind an unrecorded intent at most: apart from it, its
\* revision is in the audit, and so is the one the intent started from.
Audited(s) ==
    s.revision > 0 =>
        \E i \in Mutations : /\ audit[i].policy = s.policy /\ audit[i].revision = s.revision
                             /\ audit[i].to = s.lastApplied
Matches(c) ==
    /\ pc[c] = "recover_audit" =>
          state = IF config.daily = pending.to THEN pending.next ELSE pending.previous
    /\ pc[c] = "audit" => state = run[c].plan.next
    /\ pc[c] \in Deciding => Audited(run[c].previous)
StateInv ==
    /\ ~ Unrecorded /\ state # None => Audited(state)
    /\ pending # None => Audited(pending.previous)
    /\ \A c \in Controllers : Matches(c)

\* While nobody edits, the cap tells whether the pending mutation was saved.
AloneInv ==
    edits = 0 =>
      /\ Unrecorded => config.daily = IF pending.tx \in saved THEN pending.to ELSE pending.from
      /\ \A i \in Moves : audit[i].tx \in saved
      /\ \A tx \in saved : (\E i \in Mutations : audit[i].tx = tx) \/ (Unrecorded /\ pending.tx = tx)

\* A rollback is live while the state file has stayed with its policy id: then nothing
\* is planned under its policy or an older one, for the state file says rolled_back, or
\* belongs to a later version.
Rollbacks == {i \in DOMAIN audit : audit[i].action = "rollback_to_baseline"}
LiveRollbacks == {i \in Rollbacks : \A h \in handovers : h < i}
Superseded(p) ==
    \A i \in LiveRollbacks : p.id = audit[i].policy.id => audit[i].policy.version < p.version
Terminal(s) ==
    \A i \in LiveRollbacks : s.policy.id = audit[i].policy.id =>
        \/ s.policy = audit[i].policy /\ s.phase = "rolled_back"
        \/ audit[i].policy.version < s.policy.version
Keeps == \A i \in LiveRollbacks : state # None /\ state.policy.id = audit[i].policy.id
Allowed(c) ==
    pc[c] \in Deciding \ {"clear"} =>
        IF Mutates(c) THEN Superseded(run[c].policy) ELSE Terminal(run[c].plan.next)
TerminalInv ==
    /\ \A h \in handovers : h <= Len(audit)
    /\ Keeps /\ (state # None => Terminal(state))
    /\ Unrecorded => Superseded(pending.policy)
    /\ \A c \in Controllers : Allowed(c)
    /\ RearmedOnlyByHandover
-----------------------------------------------------------------------------
(* The plan.                                                               *)

LEMMA StateForTyped ==
    ASSUME NEW s \in States, NEW phase \in {"controlling", "rolled_back"}, NEW cap \in Caps
    PROVE  /\ stateFor(s, phase, cap) \in States
           /\ stateFor(s, phase, cap).policy = s.policy
           /\ stateFor(s, phase, cap).phase = phase
           /\ stateFor(s, phase, cap).lastApplied = cap
<1>1. /\ s.policy \in Policies /\ s.revision \in Nat
      /\ s = [policy |-> s.policy, phase |-> s.phase, revision |-> s.revision, lastApplied |-> s.lastApplied]
  BY DEF States
<1>2. stateFor(s, phase, cap) =
        [policy |-> s.policy, phase |-> phase, revision |-> s.revision + 1, lastApplied |-> cap]
  BY <1>1 DEF stateFor
<1>3. s.revision + 1 \in Nat /\ s.revision + 1 # 0 /\ cap # None /\ cap \in Daily
  BY <1>1, NoneAssumption DEF Daily
<1> QED BY <1>1, <1>2, <1>3 DEF States

LEMMA NoActionTyped ==
    ASSUME NEW s \in States, NEW current \in Daily, NEW override \in BOOLEAN
    PROVE  /\ noAction(s, current, override) \in Plans
           /\ noAction(s, current, override).action = "no_action"
           /\ noAction(s, current, override).next = s
  BY DEF noAction, Plans, Actions

\* What a plan of a policy's own state looks like.
PlanFacts(p, s, plan) ==
    /\ plan \in Plans /\ plan.next.policy = p
    /\ plan.action = "no_action" => plan.next = s
    /\ plan.action # "no_action" =>
          s.phase # "rolled_back" /\ plan.to \in Caps /\ plan.next.lastApplied = plan.to
    /\ plan.action = "rollback_to_baseline" => plan.next.phase = "rolled_back"

LEMMA RollbackTyped ==
    ASSUME NEW p \in Policies, NEW s \in States, s.policy = p, NEW current \in Daily
    PROVE  PlanFacts(p, s, rollback(p, s, current))
<1>1. CASE s.phase # "controlling" \/ s.lastApplied # current
  BY <1>1, NoActionTyped DEF rollback, PlanFacts
<1>2. CASE s.phase = "controlling" /\ s.lastApplied = current
  <2> DEFINE n == stateFor(s, "rolled_back", p.baseline)
  <2>1. p.baseline \in Caps /\ p.baseline \in Daily
    BY PolicyAssumption DEF Daily
  <2>2. n \in States /\ n.policy = p /\ n.phase = "rolled_back" /\ n.lastApplied = p.baseline
    BY <2>1, StateForTyped
  <2>3. rollback(p, s, current) =
          [action |-> "rollback_to_baseline", to |-> p.baseline, next |-> n, override |-> FALSE]
    BY <1>2 DEF rollback
  <2> HIDE DEF n
  <2> QED BY <1>2, <2>1, <2>2, <2>3 DEF PlanFacts, Plans, Actions
<1> QED BY <1>1, <1>2

LEMMA PlanTyped ==
    ASSUME NEW p \in Policies, NEW s \in States, s.policy = p, NEW current \in Daily,
           NEW inForce, NEW breaker, NEW target \in Daily
    PROVE  PlanFacts(p, s, planBudgetControl(p, s, current, inForce, breaker, target))
<1> DEFINE plan == planBudgetControl(p, s, current, inForce, breaker, target)
           n == stateFor(s, "controlling", target)
           new == [action |-> "apply_recommended", to |-> target, next |-> n, override |-> FALSE]
<1>1. PlanFacts(p, s, noAction(s, current, FALSE)) /\ PlanFacts(p, s, noAction(s, current, TRUE))
  BY NoActionTyped DEF PlanFacts
<1>2. PlanFacts(p, s, rollback(p, s, current))
  BY RollbackTyped
<1>3. ASSUME target # None, s.phase # "rolled_back"
      PROVE  PlanFacts(p, s, new)
  <2>1. target \in Caps
    BY <1>3 DEF Daily
  <2>2. n \in States /\ n.policy = p /\ n.lastApplied = target
    BY <2>1, StateForTyped
  <2> HIDE DEF n
  <2> QED BY <1>3, <2>1, <2>2 DEF PlanFacts, Plans, Actions
<1>4. \/ plan = noAction(s, current, FALSE) \/ plan = noAction(s, current, TRUE)
      \/ plan = rollback(p, s, current)
      \/ plan = new /\ target # None /\ s.phase # "rolled_back"
  BY DEF planBudgetControl
<1> HIDE DEF new
<1>5. PlanFacts(p, s, plan)
  <2> HIDE DEF plan
  <2> QED BY <1>1, <1>2, <1>3, <1>4
<1> QED BY <1>5

LEMMA ReconcileTyped ==
    ASSUME NEW p \in Policies, NEW current, state \in States \cup {None}, NEW s \in reconcile(p, current)
    PROVE  /\ s \in States /\ s.policy = p
           /\ \/ s = state /\ state # None
              \/ /\ s = initialState(p) /\ s.revision = 0
                 /\ state # None => ~ (state.policy.id = p.id /\ state.policy.version >= p.version)
<1>1. initialState(p) \in States /\ initialState(p).policy = p /\ initialState(p).revision = 0
  BY DEF initialState, States, Daily
<1>2. CASE state # None /\ state.policy = p
  BY <1>2 DEF reconcile
<1>3. CASE ~ (state # None /\ state.policy = p)
  <2>1. s = initialState(p) /\ ~ (state # None /\ state.policy.id = p.id /\ state.policy.version >= p.version)
    BY <1>3 DEF reconcile
  <2> QED BY <1>1, <2>1
<1> QED BY <1>2, <1>3
-----------------------------------------------------------------------------
(* Types.                                                                  *)

Locks == Tokens \cup {None}

LEMMA Typed ==
    ASSUME TypeInv, NEW c \in Controllers
    PROVE  /\ run[c] \in Runs /\ run[c].token \in Locks /\ run[c].apply \in BOOLEAN
           /\ pc[c] \in Labels
           /\ On(c) => run[c].policy \in Policies
           /\ pc[c] \in Reading => run[c].config \in Configs /\ Current(c) \in Daily
           /\ pc[c] \in Deciding => PlanOK(run[c])
           /\ config.daily \in Daily
<1>1. run[c] \in Runs /\ pc[c] \in Labels /\ Remembers(c)
  BY DEF TypeInv, TypeOK
<1>2. run[c].token \in Locks /\ run[c].apply \in BOOLEAN
  BY <1>1 DEF Runs, Locks
<1>3. pc[c] \in Reading => run[c].config \in Configs /\ Current(c) \in Daily
  BY <1>1 DEF Remembers, Configs, Current
<1>4. config.daily \in Daily
  BY DEF TypeInv, TypeOK, Configs
<1> QED BY <1>1, <1>2, <1>3, <1>4 DEF Remembers

(* A run that moves to `next` and remembers u leaves the other runs alone. *)
LEMMA RunMoves ==
    ASSUME TypeInv, NEW c \in Controllers, NEW next \in Labels, NEW u \in Runs,
           Go(c, next), run' = [run EXCEPT ![c] = u]
    PROVE  /\ run' \in [Controllers -> Runs] /\ pc' \in [Controllers -> Labels]
           /\ run'[c] = u /\ pc'[c] = next
           /\ \A d \in Controllers \ {c} : pc'[d] = pc[d] /\ run'[d] = run[d]
<1>1. run \in [Controllers -> Runs] /\ pc \in [Controllers -> Labels]
  BY DEF TypeInv, TypeOK
<1> QED BY <1>1 DEF Go

LEMMA RunTyped ==
    ASSUME TypeInv, NEW c \in Controllers, NEW next \in Labels, NEW u \in Runs,
           Go(c, next), run' = [run EXCEPT ![c] = u],
           next # "off" => u.policy \in Policies,
           next \in Reading => u.config \in Configs,
           next \in Deciding => PlanOK(u)
    PROVE  /\ run' \in [Controllers -> Runs] /\ pc' \in [Controllers -> Labels]
           /\ \A d \in Controllers : Remembers(d)'
<1>1. /\ run' \in [Controllers -> Runs] /\ pc' \in [Controllers -> Labels]
      /\ run'[c] = u /\ pc'[c] = next
      /\ \A d \in Controllers \ {c} : pc'[d] = pc[d] /\ run'[d] = run[d]
  BY RunMoves
<1>2. Remembers(c)'
  BY <1>1 DEF Remembers, On
<1>3. ASSUME NEW d \in Controllers \ {c}
      PROVE  Remembers(d)'
  <2>1. Remembers(d)
    BY DEF TypeInv
  <2> QED BY <1>1, <2>1 DEF Remembers, On
<1> QED BY <1>1, <1>2, <1>3

LEMMA RunGoesOn ==
    ASSUME TypeInv, NEW c \in Controllers, NEW next \in Labels, Go(c, next), run' = run,
           pc[c] # "off",
           next \in Reading => pc[c] \in Reading,
           next \in Deciding => pc[c] \in Deciding
    PROVE  /\ run' \in [Controllers -> Runs] /\ pc' \in [Controllers -> Labels]
           /\ \A d \in Controllers : Remembers(d)'
<1>1. run \in [Controllers -> Runs] /\ run[c] \in Runs
  BY DEF TypeInv, TypeOK
<1>2. run' = [run EXCEPT ![c] = run[c]]
  BY <1>1
<1> QED BY <1>1, <1>2, Typed, RunTyped DEF PlanOK, On

LEMMA RunForgets ==
    ASSUME TypeInv, NEW c \in Controllers, Go(c, "off"), run' = [run EXCEPT ![c] = NoRun]
    PROVE  /\ run' \in [Controllers -> Runs] /\ pc' \in [Controllers -> Labels]
           /\ \A d \in Controllers : Remembers(d)'
<1>1. NoRun \in Runs
  BY DEF NoRun, NewRun, Runs
<1>2. "off" \in Labels /\ "off" \notin Reading /\ "off" \notin Deciding
  BY DEF Labels, Reading, Deciding, Recovering
<1> QED BY <1>1, <1>2, RunTyped

LEMMA EventTyped ==
    ASSUME TypeInv, NEW c \in Controllers,
           \/ pc[c] = "recover_audit" /\ pending # None
           \/ pc[c] = "audit" /\ run[c].token # None
    PROVE  Event(c) \in AuditEvents
<1>1. CASE pc[c] = "recover_audit" /\ pending # None
  <2>1. pending \in Intents
    BY <1>1 DEF TypeInv, TypeOK
  <2>2. /\ pending.tx \in Tokens /\ pending.policy \in Policies /\ pending.from \in Daily
        /\ pending.to \in Daily /\ pending.action \in Actions
        /\ pending.next.revision \in Nat /\ pending.previous.revision \in Nat
    BY <2>1 DEF Intents, States, Daily, Actions
  <2> QED BY <1>1, <2>2 DEF Event, AuditEvents, Actions
<1>2. CASE pc[c] = "audit" /\ run[c].token # None
  <2>1. /\ run[c].token \in Tokens /\ run[c].policy \in Policies /\ Current(c) \in Daily
        /\ run[c].plan \in Plans
    BY <1>2, Typed DEF Locks, On, Reading, Deciding, PlanOK
  <2>2. /\ run[c].plan.override \in BOOLEAN /\ run[c].plan.action \in Actions
        /\ run[c].plan.to \in Daily /\ run[c].plan.next.revision \in Nat
    BY <2>1 DEF Plans, States
  <2> QED BY <1>2, <2>1, <2>2 DEF Event, AuditEvents
<1> QED BY <1>1, <1>2

\* A plan from state s is made, and u is what the run then remembers.
PlansOn(c, s, plan, u) ==
    /\ run[c].apply
    /\ Go(c, IF plan.action = "no_action" THEN "state" ELSE "pending")
    /\ run' = [run EXCEPT ![c] = u]
    /\ u.plan = plan /\ u.previous = s
    /\ u.policy = run[c].policy /\ u.config = run[c].config /\ u.token = run[c].token /\ u.apply
    /\ s.policy = run[c].policy /\ PlanFacts(run[c].policy, s, plan)
    /\ \/ s = state /\ state # None
       \/ /\ s.revision = 0
          /\ state # None => ~ (state.policy.id = s.policy.id /\ state.policy.version >= s.policy.version)

LEMMA PlanLeaves ==
    ASSUME NEW c, Plan(c)
    PROVE  /\ pc[c] = "plan"
           /\ UNCHANGED <<config, controlLock, configLock, files, edit, saved, counters>>
  BY Zenon DEF Plan

LEMMA PlanStep ==
    ASSUME TypeInv, NEW c \in Controllers, Plan(c)
    PROVE  \/ Throw(c) /\ run' = run
           \/ \E s \in States, plan \in Plans, u \in Runs : PlansOn(c, s, plan, u)
<1> DEFINE P(s, i, b, t) == planBudgetControl(run[c].policy, s, Current(c), i, b, t)
           Took(s, plan) == /\ run' = [run EXCEPT ![c] = [run[c] EXCEPT !.plan = plan, !.previous = s]]
                            /\ Go(c, IF plan.action = "no_action" THEN "state" ELSE "pending")
<1>1. \/ Throw(c) /\ run' = run
      \/ run[c].apply /\ \E s \in reconcile(run[c].policy, Current(c)), i, b \in BOOLEAN, t \in Daily :
                            Took(s, P(s, i, b, t))
  BY Zenon DEF Plan
<1>2. ASSUME run[c].apply,
             NEW s \in reconcile(run[c].policy, Current(c)), NEW i \in BOOLEAN, NEW b \in BOOLEAN,
             NEW t \in Daily, NEW plan, plan = P(s, i, b, t), Took(s, plan)
      PROVE  \E q \in Plans, u \in Runs : PlansOn(c, s, q, u) /\ s \in States
  <2>1. run[c] \in Runs /\ run[c].policy \in Policies /\ Current(c) \in Daily
    <3>1. pc[c] = "plan"
      BY PlanLeaves
    <3> QED BY <3>1, Typed DEF On, Reading
  <2>2. /\ s \in States /\ s.policy = run[c].policy
        /\ \/ s = state /\ state # None
           \/ /\ s.revision = 0
              /\ state # None => ~ (state.policy.id = s.policy.id /\ state.policy.version >= s.policy.version)
    BY <2>1, ReconcileTyped DEF TypeInv, TypeOK
  <2>3. PlanFacts(run[c].policy, s, plan)
    BY <1>2, <2>1, <2>2, PlanTyped
  <2> DEFINE v == [run[c] EXCEPT !.plan = plan]
             u == [v EXCEPT !.previous = s]
  <2>4. /\ v \in Runs /\ v.plan = plan /\ v.policy = run[c].policy /\ v.config = run[c].config
        /\ v.token = run[c].token /\ v.apply = run[c].apply
    BY <2>1, <2>3 DEF PlanFacts, Runs
  <2>5. /\ u \in Runs /\ u.plan = plan /\ u.previous = s /\ u.apply = run[c].apply
        /\ u.policy = run[c].policy /\ u.config = run[c].config /\ u.token = run[c].token
    <3> HIDE DEF v
    <3> QED BY <2>2, <2>4 DEF Runs
  <2>6. run' = [run EXCEPT ![c] = u]
    BY <1>2
  <2> HIDE DEF u
  <2>7. PlansOn(c, s, plan, u) /\ plan \in Plans
    BY <1>2, <2>2, <2>3, <2>5, <2>6 DEF PlansOn, PlanFacts
  <2> QED BY <2>2, <2>5, <2>7
<1> HIDE DEF P, Took
<1> QED BY <1>1, <1>2

LEMMA IntentTyped ==
    ASSUME TypeInv, LockInv, IntentInv, NEW c \in Controllers, WritePending(c)
    PROVE  pending' \in Intents /\ IntentOK(pending')
<1>1. run[c].token \in Tokens
  <2>1. <<"run", runs>> \in Tokens
    BY DEF TypeInv, TypeOK, Tokens
  <2> QED BY <2>1 DEF WritePending, LockInv, On
<1>2. PlanOK(run[c]) /\ Mutates(c) /\ run[c].policy \in Policies /\ Current(c) \in Daily
  BY Typed DEF WritePending, Reading, Deciding, On, IntentInv, Intends
<1>3. run[c].plan.next \in States /\ run[c].plan.action \in Actions
  BY <1>2 DEF PlanOK, Plans
<1> QED BY <1>1, <1>2, <1>3 DEF WritePending, PlanOK, Intents, IntentOK, Mutates

LEMMA WrittenTyped ==
    ASSUME TypeInv, NEW file \in {"pending", "state", "config"}, Written(file)
    PROVE  torn' \in SUBSET {"pending", "state", "config"} /\ faults' \in Nat
<1>1. torn \in SUBSET {"pending", "state", "config"} /\ faults \in Nat
  BY DEF TypeInv, TypeOK
<1>2. CASE torn' = torn \ {file} /\ UNCHANGED faults
  BY <1>1, <1>2
<1>3. CASE Fault /\ torn' = torn \cup {file}
  <2>1. faults' \in Nat
    BY <1>1, <1>3 DEF Fault
  <2>2. torn' \in SUBSET {"pending", "state", "config"}
    BY <1>1, <1>3
  <2> QED BY <2>1, <2>2
<1> QED BY <1>2, <1>3 DEF Written

LEMMA SetStateTyped ==
    ASSUME TypeInv, NEW s \in States, SetState(s)
    PROVE  /\ state' \in States /\ torn' \in SUBSET {"pending", "state", "config"}
           /\ handovers' \in SUBSET Nat /\ faults' \in Nat /\ UNCHANGED <<pending, audit, tail>>
<1>1. torn' \in SUBSET {"pending", "state", "config"} /\ faults' \in Nat
  BY WrittenTyped DEF SetState
<1>2. Len(audit) \in Nat /\ handovers \in SUBSET Nat
  BY LenProperties DEF TypeInv, TypeOK
<1> QED BY <1>1, <1>2 DEF SetState

LEMMA LineTyped ==
    ASSUME TypeInv, NEW c \in Controllers, NEW end \in {"clean", "unterminated", "broken"},
           Event(c) \in AuditEvents, WriteLine(c, end)
    PROVE  /\ audit' \in Seq(AuditEvents) /\ tail' \in {"clean", "unterminated", "broken"}
           /\ UNCHANGED <<pending, state, torn, handovers>>
<1>1. Append(audit, Event(c)) \in Seq(AuditEvents)
  BY DEF TypeInv, TypeOK
<1> QED BY <1>1 DEF WriteLine, TypeInv, TypeOK

LEMMA StepTypeRun ==
    ASSUME TypeInv, LockInv, IntentInv, NEW c \in Controllers, RunNext(c)
    PROVE  TypeInv'
<1>t. /\ run[c] \in Runs /\ run \in [Controllers -> Runs] /\ pc[c] \in Labels
      /\ On(c) => run[c].token \in Tokens
      /\ pc[c] \in Recovering => pending \in Intents
  <2>1. On(c) => run[c].token \in Tokens
    <3>1. runs \in Nat
      BY DEF TypeInv, TypeOK
    <3>2. On(c) => run[c].token = <<"run", runs>>
      BY DEF LockInv
    <3> QED BY <3>1, <3>2 DEF Tokens
  <2>2. pc[c] \in Recovering => pending # None
    BY DEF IntentInv, Intends, Recovering
  <2> QED BY <2>1, <2>2, Typed DEF TypeInv, TypeOK
<1> USE DEF Labels, Durable
<1>1. CASE Start(c)
  <2>1. PICK p \in Policies, apply \in BOOLEAN :
          run' = [run EXCEPT ![c] = NewRun(controlLock', p, apply)]
    BY <1>1 DEF Start
  <2> DEFINE u == NewRun(controlLock', p, apply)
  <2>3. controlLock' \in Tokens /\ runs' \in Nat
    <3>1. runs \in Nat
      BY DEF TypeInv, TypeOK
    <3> QED BY <1>1, <3>1 DEF Start, Tokens
  <2>2. run' = [run EXCEPT ![c] = u] /\ u \in Runs /\ u.policy = p
    BY <2>1, <2>3 DEF NewRun, Runs
  <2> HIDE DEF u
  <2>4. /\ run' \in [Controllers -> Runs] /\ pc' \in [Controllers -> Labels]
        /\ \A d \in Controllers : Remembers(d)'
    BY <1>1, <2>2, RunTyped DEF Start, Reading, Deciding, Recovering
  <2> QED BY <1>1, <2>3, <2>4 DEF Start, TypeInv, TypeOK, files
<1>2. CASE AcquireConfig(c)
  <2>1. /\ run' \in [Controllers -> Runs] /\ pc' \in [Controllers -> Labels]
        /\ \A d \in Controllers : Remembers(d)'
    BY <1>2, RunGoesOn DEF AcquireConfig, Reading, Deciding, Recovering
  <2>2. configLock' \in Locks
    BY <1>2, Typed DEF AcquireConfig, TypeInv, TypeOK, Locks
  <2> QED BY <1>2, <2>1, <2>2 DEF AcquireConfig, TypeInv, TypeOK, files, counters, Locks
<1>3. CASE Load(c)
  <2> DEFINE u == [run[c] EXCEPT !.config = config]
  <2>1. u \in Runs /\ u.config = config /\ u.policy = run[c].policy /\ config \in Configs
    BY <1>t DEF Runs, TypeInv, TypeOK
  <2>2. "config" \notin torn => run' = [run EXCEPT ![c] = u]
    BY <1>3 DEF Load
  <2> HIDE DEF u
  <2>3. /\ run' \in [Controllers -> Runs] /\ pc' \in [Controllers -> Labels]
        /\ \A d \in Controllers : Remembers(d)'
    <3>1. CASE "config" \in torn
      BY <1>3, <3>1, RunGoesOn DEF Load, Throw, Reading, Deciding, Recovering
    <3>2. CASE "config" \notin torn
      BY <1>3, <2>1, <2>2, <3>2, RunTyped, Typed DEF Load, Reading, Deciding, Recovering, On
    <3> QED BY <3>1, <3>2
  <2> QED BY <1>3, <2>3 DEF Load, TypeInv, TypeOK, files, counters
<1>4. CASE Recover(c)
  <2>1. /\ run' \in [Controllers -> Runs] /\ pc' \in [Controllers -> Labels]
        /\ \A d \in Controllers : Remembers(d)'
    BY <1>4, RunGoesOn DEF Recover, Throw, Reading, Deciding, Recovering
  <2> QED BY <1>4, <2>1 DEF Recover, TypeInv, TypeOK, files, counters
<1>5. CASE RecoverState(c)
  <2>1. /\ run' \in [Controllers -> Runs] /\ pc' \in [Controllers -> Labels]
        /\ \A d \in Controllers : Remembers(d)'
    BY <1>5, RunGoesOn DEF RecoverState, Reading, Deciding, Recovering
  <2> DEFINE s == IF Completes(c) THEN pending.next ELSE pending.previous
  <2>2. s \in States /\ SetState(s)
    BY <1>5, <1>t DEF RecoverState, Recovering, Intents
  <2> HIDE DEF s
  <2>3. /\ state' \in States /\ torn' \in SUBSET {"pending", "state", "config"}
        /\ handovers' \in SUBSET Nat /\ faults' \in Nat /\ UNCHANGED <<pending, audit, tail>>
    BY <2>2, SetStateTyped
  <2> QED BY <1>5, <2>1, <2>3 DEF RecoverState, TypeInv, TypeOK
<1>e. ASSUME pc[c] \in {"recover_audit", "audit"}
      PROVE  Event(c) \in AuditEvents
  BY <1>e, <1>t, EventTyped, NoneAssumption DEF Recovering, On
<1>6. CASE AppendAudit(c)
  <2>1. /\ run' \in [Controllers -> Runs] /\ pc' \in [Controllers -> Labels]
        /\ \A d \in Controllers : Remembers(d)'
    BY <1>6, RunGoesOn DEF AppendAudit, Reading, Deciding, Recovering
  <2>2. /\ faults' \in Nat
        /\ \E end \in {"clean", "unterminated", "broken"} : WriteLine(c, end)
    BY <1>6 DEF AppendAudit, Fault, TypeInv, TypeOK
  <2>3. /\ audit' \in Seq(AuditEvents) /\ tail' \in {"clean", "unterminated", "broken"}
        /\ UNCHANGED <<pending, state, torn, handovers>>
    BY <1>6, <1>e, <2>2, LineTyped DEF AppendAudit
  <2> QED BY <1>6, <2>1, <2>2, <2>3 DEF AppendAudit, TypeInv, TypeOK
<1>7. CASE ClearPending(c)
  <2>1. /\ run' \in [Controllers -> Runs] /\ pc' \in [Controllers -> Labels]
        /\ \A d \in Controllers : Remembers(d)'
    BY <1>7, RunGoesOn DEF ClearPending, Reading, Deciding, Recovering
  <2> QED BY <1>7, <2>1 DEF ClearPending, TypeInv, TypeOK, counters
<1>8. CASE Plan(c)
  <2>0. /\ pc[c] = "plan"
        /\ UNCHANGED <<config, controlLock, configLock, files, edit, saved, counters>>
    BY <1>8, PlanLeaves
  <2>1. CASE Throw(c) /\ run' = run
    <3>1. /\ run' \in [Controllers -> Runs] /\ pc' \in [Controllers -> Labels]
          /\ \A d \in Controllers : Remembers(d)'
      BY <2>0, <2>1, RunGoesOn DEF Throw, Reading, Deciding, Recovering
    <3> QED BY <2>0, <3>1 DEF TypeInv, TypeOK, files, counters
  <2>2. ASSUME NEW s \in States, NEW plan, NEW u \in Runs, PlansOn(c, s, plan, u)
        PROVE  TypeInv'
    <3>1. u.policy \in Policies /\ u.config \in Configs /\ PlanOK(u)
      BY <2>0, <2>2, Typed DEF On, Reading, PlansOn, PlanFacts, PlanOK
    <3>2. /\ run' \in [Controllers -> Runs] /\ pc' \in [Controllers -> Labels]
          /\ \A d \in Controllers : Remembers(d)'
      BY <2>2, <3>1, RunTyped DEF PlansOn, Reading, Deciding, Recovering
    <3> QED BY <2>0, <3>2 DEF TypeInv, TypeOK, files, counters
  <2> QED BY <1>8, <2>1, <2>2, PlanStep
<1>9. CASE WritePending(c)
  <2>1. /\ run' \in [Controllers -> Runs] /\ pc' \in [Controllers -> Labels]
        /\ \A d \in Controllers : Remembers(d)'
    BY <1>9, RunGoesOn DEF WritePending, Reading, Deciding, Recovering
  <2>2. pending' \in Intents /\ IntentOK(pending')
    BY <1>9, IntentTyped
  <2>3. torn' \in SUBSET {"pending", "state", "config"} /\ faults' \in Nat
    BY <1>9, WrittenTyped DEF WritePending
  <2> QED BY <1>9, <2>1, <2>2, <2>3 DEF WritePending, TypeInv, TypeOK
<1>10. CASE SaveConfig(c)
  <2>1. /\ run' \in [Controllers -> Runs] /\ pc' \in [Controllers -> Labels]
        /\ \A d \in Controllers : Remembers(d)'
    BY <1>10, RunGoesOn DEF SaveConfig, Throw, Reading, Deciding, Recovering
  <2>2. /\ run[c].token \in Tokens /\ run[c].config \in Configs
        /\ PlanOK(run[c]) /\ Mutates(c)
    BY <1>10, <1>t, Typed DEF SaveConfig, On, Reading, Deciding, IntentInv, Intends
  <2>3. config' \in Configs
    BY <1>10, <2>2 DEF SaveConfig, PlanOK, Mutates, Configs, Daily, TypeInv, TypeOK
  <2>4. torn' \in SUBSET {"pending", "state", "config"} /\ faults' \in Nat
    BY <1>10, WrittenTyped DEF SaveConfig, TypeInv, TypeOK
  <2> QED BY <1>10, <2>1, <2>2, <2>3, <2>4 DEF SaveConfig, TypeInv, TypeOK
<1>11. CASE WriteState(c)
  <2>1. /\ run' \in [Controllers -> Runs] /\ pc' \in [Controllers -> Labels]
        /\ \A d \in Controllers : Remembers(d)'
    BY <1>11, RunGoesOn DEF WriteState, Reading, Deciding, Recovering
  <2>2. run[c].plan.next \in States
    BY <1>11, Typed DEF WriteState, Deciding, PlanOK, Plans
  <2>3. /\ state' \in States /\ torn' \in SUBSET {"pending", "state", "config"}
        /\ handovers' \in SUBSET Nat /\ faults' \in Nat /\ UNCHANGED <<pending, audit, tail>>
    BY <1>11, <2>2, SetStateTyped DEF WriteState
  <2> QED BY <1>11, <2>1, <2>3 DEF WriteState, TypeInv, TypeOK
<1>12. CASE ReleaseConfig(c)
  <2>1. /\ run' \in [Controllers -> Runs] /\ pc' \in [Controllers -> Labels]
        /\ \A d \in Controllers : Remembers(d)'
    BY <1>12, RunGoesOn DEF ReleaseConfig, Reading, Deciding, Recovering
  <2> QED BY <1>12, <2>1 DEF ReleaseConfig, TypeInv, TypeOK, files, counters
<1>13. CASE ReleaseControl(c)
  <2>1. /\ run' \in [Controllers -> Runs] /\ pc' \in [Controllers -> Labels]
        /\ \A d \in Controllers : Remembers(d)'
    BY <1>13, RunForgets DEF ReleaseControl
  <2> QED BY <1>13, <2>1 DEF ReleaseControl, TypeInv, TypeOK, files, counters
<1>14. CASE Fail(c)
  <2>1. /\ run' \in [Controllers -> Runs] /\ pc' \in [Controllers -> Labels]
        /\ \A d \in Controllers : Remembers(d)'
    BY <1>14, RunGoesOn DEF Fail, Throw, Reading, Deciding, Recovering
  <2> QED BY <1>14, <2>1 DEF Fail, Fault, TypeInv, TypeOK, files
<1>15. CASE Crash(c)
  <2>1. /\ run' \in [Controllers -> Runs] /\ pc' \in [Controllers -> Labels]
        /\ \A d \in Controllers : Remembers(d)'
    BY <1>15, RunForgets DEF Crash
  <2> QED BY <1>15, <2>1 DEF Crash, Fault, TypeInv, TypeOK, files
<1>16. CASE CutAppend(c)
  <2>1. /\ run' \in [Controllers -> Runs] /\ pc' \in [Controllers -> Labels]
        /\ \A d \in Controllers : Remembers(d)'
    <3>1. CASE Throw(c) /\ run' = run
      BY <1>16, <3>1, RunGoesOn DEF CutAppend, Throw, Reading, Deciding, Recovering
    <3>2. CASE Go(c, "off") /\ run' = [run EXCEPT ![c] = NoRun]
      BY <3>2, RunForgets
    <3> QED BY <1>16, <3>1, <3>2 DEF CutAppend
  <2>2. /\ faults' \in Nat
        /\ \E end \in {"clean", "unterminated", "broken"} : WriteLine(c, end)
    BY <1>16 DEF CutAppend, Fault, TypeInv, TypeOK
  <2>3. /\ audit' \in Seq(AuditEvents) /\ tail' \in {"clean", "unterminated", "broken"}
        /\ UNCHANGED <<pending, state, torn, handovers>>
    BY <1>16, <1>e, <2>2, LineTyped DEF CutAppend
  <2> QED BY <1>16, <2>1, <2>2, <2>3 DEF CutAppend, TypeInv, TypeOK
<1> QED BY <1>1, <1>2, <1>3, <1>4, <1>5, <1>6, <1>7, <1>8, <1>9, <1>10, <1>11, <1>12, <1>13, <1>14,
           <1>15, <1>16 DEF RunNext

LEMMA StepTypeEdit ==
    ASSUME TypeInv, ReadInv, NEW e \in Editors, EditNext(e)
    PROVE  TypeInv'
<1>t. edit \in [Editors -> Edits] /\ edit[e] \in Edits /\ edit[e].at \in {"off", "load", "persist", "release"}
  BY DEF TypeInv, TypeOK, Edits
<1>r. ASSUME UNCHANGED <<pc, run>>
      PROVE  \A d \in Controllers : Remembers(d)'
  BY <1>r DEF TypeInv, Remembers, On
<1>1. CASE EditAcquire(e)
  <2>1. configLock' \in Tokens /\ edits' \in Nat
    <3>1. edits \in Nat
      BY DEF TypeInv, TypeOK
    <3> QED BY <1>1, <3>1 DEF EditAcquire, Tokens
  <2> DEFINE v == [NoEdit EXCEPT !.at = "load"]
             u == [v EXCEPT !.token = configLock']
  <2>2. v = [at |-> "load", token |-> None, config |-> None]
    BY DEF NoEdit
  <2>3. u = [at |-> "load", token |-> configLock', config |-> None]
    <3> HIDE DEF v
    <3> QED BY <2>2
  <2>4. edit' = [edit EXCEPT ![e] = u]
    BY <1>1 DEF EditAcquire
  <2> HIDE DEF u
  <2>5. edit' \in [Editors -> Edits]
    BY <1>t, <2>1, <2>3, <2>4 DEF Edits
  <2> QED BY <1>1, <1>r, <2>1, <2>5 DEF EditAcquire, TypeInv, TypeOK, files
<1>2. CASE EditLoad(e)
  <2> DEFINE v == [edit[e] EXCEPT !.at = "persist"]
             u == [v EXCEPT !.config = config]
  <2>1. v \in Edits
    BY <1>t DEF Edits
  <2>2. u \in Edits
    <3> HIDE DEF v
    <3> QED BY <2>1 DEF Edits, TypeInv, TypeOK
  <2> DEFINE w == [edit[e] EXCEPT !.at = "release"]
  <2>3. w \in Edits /\ edit' = [edit EXCEPT ![e] = IF "config" \in torn THEN w ELSE u]
    BY <1>2, <1>t DEF EditLoad, Edits
  <2> HIDE DEF u, w
  <2>4. edit' \in [Editors -> Edits]
    BY <1>t, <2>2, <2>3
  <2> QED BY <1>2, <1>r, <2>4 DEF EditLoad, TypeInv, TypeOK, files, counters
<1>3. CASE EditPersist(e)
  <2>1. edit' \in [Editors -> Edits]
    BY <1>3, <1>t DEF EditPersist, Edits
  <2>2. edit[e].config \in Configs
    BY <1>3 DEF EditPersist, ReadInv, TypeInv, TypeOK
  <2>3. config' \in Configs
    BY <1>3, <2>2 DEF EditPersist, Configs
  <2>4. torn' \in SUBSET {"pending", "state", "config"} /\ faults' \in Nat
    BY <1>3, WrittenTyped DEF EditPersist
  <2> QED BY <1>3, <1>r, <2>1, <2>3, <2>4 DEF EditPersist, TypeInv, TypeOK
<1>4. CASE EditRelease(e)
  <2>1. edit' \in [Editors -> Edits]
    BY <1>4, <1>t DEF EditRelease, NoEdit, Edits
  <2> QED BY <1>4, <1>r, <2>1 DEF EditRelease, TypeInv, TypeOK, files, counters
<1>5. CASE EditCrash(e)
  <2>1. edit' \in [Editors -> Edits]
    BY <1>5, <1>t DEF EditCrash, NoEdit, Edits
  <2> QED BY <1>5, <1>r, <2>1 DEF EditCrash, Fault, TypeInv, TypeOK, files
<1> QED BY <1>1, <1>2, <1>3, <1>4, <1>5 DEF EditNext

LEMMA StepTypeOther ==
    ASSUME TypeInv, RemoveStaleLock \/ UNCHANGED vars
    PROVE  TypeInv'
<1>1. ASSUME UNCHANGED <<pc, run>>
      PROVE  \A d \in Controllers : Remembers(d)'
  BY <1>1 DEF TypeInv, Remembers, On
<1>2. CASE RemoveStaleLock
  BY <1>1, <1>2 DEF RemoveStaleLock, TypeInv, TypeOK, files, counters
<1>3. CASE UNCHANGED vars
  BY <1>1, <1>3 DEF vars, TypeInv, TypeOK, files, counters
<1> QED BY <1>2, <1>3

LEMMA InitType == Init => TypeInv
<1>1. Init => TypeOK
  <2> SUFFICES ASSUME Init PROVE TypeOK
    OBVIOUS
  <2>1. config \in Configs
    BY PolicyAssumption DEF Init, Configs, Daily
  <2>2. NoRun \in Runs /\ NoEdit \in Edits
    BY DEF NoRun, NewRun, Runs, NoEdit, Edits
  <2> QED BY <2>1, <2>2 DEF Init, TypeOK, Labels, Durable
<1>2. Init => pending = None /\ \A c \in Controllers : Remembers(c)
  BY DEF Init, Remembers, On, Reading, Deciding, Recovering
<1> QED BY <1>1, <1>2 DEF TypeInv
-----------------------------------------------------------------------------
(* The locks: one run at a time, and one holder of the configuration.      *)

LEMMA InitLocks == Init => LockInv /\ ReadInv
  BY DEF Init, LockInv, ReadInv, On, NoEdit, Held, Reading, ApplyOnly, After, Deciding, Recovering

\* While one run is on, there is no other.
LEMMA OneOn ==
    ASSUME LockInv, NEW c \in Controllers, On(c)
    PROVE  \A d \in Controllers \ {c} : pc[d] = "off"
  BY DEF LockInv, On

\* What an editor or a run holds is not the other's.
LEMMA TokensDiffer ==
    ASSUME TypeInv, LockInv, NEW e \in Editors, edit[e].at # "off"
    PROVE  /\ configLock # None /\ edit[e].token = configLock
           /\ \A c \in Controllers : On(c) => configLock # run[c].token
<1>1. edits \in Nat /\ runs \in Nat
  BY DEF TypeInv, TypeOK
<1>2. configLock = <<"edit", edits>> /\ edit[e].token = configLock
  BY DEF LockInv
<1>3. configLock # None
  BY <1>1, <1>2, NoneAssumption DEF Tokens
<1>4. \A c \in Controllers : On(c) => run[c].token = <<"run", runs>>
  BY DEF LockInv
<1> QED BY <1>2, <1>3, <1>4

LEMMA RunLocks ==
    ASSUME TypeInv, LockInv, NEW c \in Controllers, NEW next \in Labels, NEW u \in Runs,
           Go(c, next), run' = [run EXCEPT ![c] = u],
           \A d \in Controllers \ {c} : pc[d] = "off",
           next # "off" => u.token = <<"run", runs'>> /\ controlLock' = u.token,
           next \in Held /\ u.apply => configLock' = u.token,
           next \in ApplyOnly => u.apply,
           UNCHANGED <<edit, edits>>,
           \A e \in Editors : edit[e].at # "off" => configLock' = configLock
    PROVE  LockInv'
<1>1. /\ run'[c] = u /\ pc'[c] = next
      /\ \A d \in Controllers \ {c} : pc'[d] = "off"
  BY RunMoves
<1>2. "off" \notin Held /\ "off" \notin ApplyOnly
  BY DEF Held, ApplyOnly, Recovering, Deciding
<1>3. \A d \in Controllers :
         /\ On(d)' => (run[d].token = <<"run", runs>> /\ controlLock = run[d].token)'
         /\ (pc[d] \in Held /\ run[d].apply)' => (configLock = run[d].token)'
         /\ (pc[d] \in ApplyOnly => run[d].apply)'
  BY <1>1, <1>2 DEF On
<1>4. \A d, e \in Controllers : On(d)' /\ On(e)' => d = e
  BY <1>1 DEF On
<1>5. \A e \in Editors :
        (edit[e].at # "off" => edit[e].token = <<"edit", edits>> /\ configLock = edit[e].token /\ edits > 0)'
  BY DEF LockInv
<1>6. \A e, f \in Editors : (edit[e].at # "off" /\ edit[f].at # "off" => e = f)'
  BY DEF LockInv
<1> QED BY <1>3, <1>4, <1>5, <1>6 DEF LockInv

LEMMA RunKeepsLocks ==
    ASSUME TypeInv, LockInv, NEW c \in Controllers, NEW next \in Labels, NEW u \in Runs, On(c),
           Go(c, next), run' = [run EXCEPT ![c] = u], u.token = run[c].token, u.apply = run[c].apply,
           next \in Held => pc[c] \in Held,
           next \in ApplyOnly => run[c].apply,
           UNCHANGED <<controlLock, configLock, runs, edit, edits>>
    PROVE  LockInv'
  BY OneOn, RunLocks DEF LockInv

LEMMA StepLocksRun ==
    ASSUME TypeInv, LockInv, NEW c \in Controllers, RunNext(c)
    PROVE  LockInv'
<1>t. run[c] \in Runs /\ run = [run EXCEPT ![c] = run[c]]
  BY DEF TypeInv, TypeOK
<1>o. NoRun \in Runs
  BY DEF NoRun, NewRun, Runs
<1> USE DEF Held, ApplyOnly, Recovering, Deciding, Labels, Durable
<1>1. CASE Start(c)
  <2>1. PICK p \in Policies, apply \in BOOLEAN :
          run' = [run EXCEPT ![c] = NewRun(controlLock', p, apply)]
    BY <1>1 DEF Start
  <2> DEFINE u == NewRun(controlLock', p, apply)
  <2>2. runs \in Nat /\ controlLock' = <<"run", runs'>> /\ controlLock' \in Tokens
    BY <1>1 DEF Start, Tokens, TypeInv, TypeOK
  <2>3. u \in Runs /\ u.token = controlLock'
    BY <2>2 DEF NewRun, Runs
  <2>4. \A d \in Controllers : pc[d] = "off"
    <3>1. \A d \in Controllers : On(d) => controlLock = <<"run", runs>>
      BY DEF LockInv
    <3>2. <<"run", runs>> # None
      BY <2>2, NoneAssumption DEF Tokens
    <3> QED BY <1>1, <3>1, <3>2 DEF Start, On
  <2>5. run' = [run EXCEPT ![c] = u]
    BY <2>1
  <2> HIDE DEF u
  <2> QED BY <1>1, <2>2, <2>3, <2>4, <2>5, RunLocks DEF Start
<1>2. CASE AcquireConfig(c)
  <2>1. \A e \in Editors : edit[e].at # "off" => configLock' = configLock
    BY <1>2, TokensDiffer DEF AcquireConfig
  <2>2. On(c) /\ \A d \in Controllers \ {c} : pc[d] = "off"
    BY <1>2, OneOn DEF AcquireConfig, On
  <2>3. run[c].token = <<"run", runs>> /\ controlLock = run[c].token
    BY <2>2 DEF LockInv
  <2>4. CASE Go(c, "release_control")
    BY <1>2, <1>t, <2>1, <2>2, <2>3, <2>4, RunLocks DEF AcquireConfig, counters
  <2>5. CASE Go(c, "load") /\ configLock' = IF run[c].apply THEN run[c].token ELSE configLock
    BY <1>2, <1>t, <2>1, <2>2, <2>3, <2>5, RunLocks DEF AcquireConfig, counters
  <2> QED BY <1>2, <2>4, <2>5 DEF AcquireConfig
<1>3. CASE Load(c)
  <2> DEFINE u == [run[c] EXCEPT !.config = config]
  <2>1. u \in Runs /\ u.token = run[c].token /\ u.apply = run[c].apply
    BY <1>t DEF Runs, TypeInv, TypeOK
  <2>2. "config" \notin torn => run' = [run EXCEPT ![c] = u]
    BY <1>3 DEF Load
  <2> HIDE DEF u
  <2>3. CASE "config" \in torn
    BY <1>3, <1>t, <2>3, RunKeepsLocks DEF Load, Throw, On, counters
  <2>4. CASE "config" \notin torn
    BY <1>3, <2>1, <2>2, <2>4, RunKeepsLocks DEF Load, On, counters
  <2> QED BY <2>3, <2>4
<1>4. CASE Recover(c)
  <2>1. run[c].apply /\ On(c)
    BY <1>4 DEF Recover, LockInv, On
  <2> QED BY <1>4, <1>t, <2>1, RunKeepsLocks DEF Recover, Throw, counters
<1>5. CASE RecoverState(c)
  <2>1. run[c].apply /\ On(c)
    BY <1>5 DEF RecoverState, LockInv, On
  <2> QED BY <1>5, <1>t, <2>1, RunKeepsLocks DEF RecoverState, counters
<1>6. CASE AppendAudit(c)
  <2>1. run[c].apply /\ On(c)
    BY <1>6 DEF AppendAudit, LockInv, On
  <2> QED BY <1>6, <1>t, <2>1, RunKeepsLocks DEF AppendAudit, counters
<1>7. CASE ClearPending(c)
  <2>1. run[c].apply /\ On(c)
    BY <1>7 DEF ClearPending, LockInv, On
  <2> QED BY <1>7, <1>t, <2>1, RunKeepsLocks DEF ClearPending, counters
<1>8. CASE Plan(c)
  <2>1. On(c) /\ pc[c] \in Held /\ UNCHANGED <<controlLock, configLock, runs, edit, edits>>
    BY <1>8, PlanLeaves DEF On, counters
  <2>2. CASE Throw(c) /\ run' = run
    BY <1>t, <2>1, <2>2, RunKeepsLocks DEF Throw
  <2>3. ASSUME NEW s \in States, NEW plan, NEW u \in Runs, PlansOn(c, s, plan, u)
        PROVE  LockInv'
    BY <2>1, <2>3, RunKeepsLocks DEF PlansOn
  <2> QED BY <1>8, <2>2, <2>3, PlanStep
<1>9. CASE WritePending(c)
  <2>1. run[c].apply /\ On(c)
    BY <1>9 DEF WritePending, LockInv, On
  <2> QED BY <1>9, <1>t, <2>1, RunKeepsLocks DEF WritePending, counters
<1>10. CASE SaveConfig(c)
  <2>1. run[c].apply /\ On(c)
    BY <1>10 DEF SaveConfig, LockInv, On
  <2> QED BY <1>10, <1>t, <2>1, RunKeepsLocks DEF SaveConfig, Throw, counters
<1>11. CASE WriteState(c)
  <2>1. run[c].apply /\ On(c)
    BY <1>11 DEF WriteState, LockInv, On
  <2> QED BY <1>11, <1>t, <2>1, RunKeepsLocks DEF WriteState, counters
<1>12. CASE ReleaseConfig(c)
  <2>1. On(c) /\ \A d \in Controllers \ {c} : pc[d] = "off"
    BY <1>12, OneOn DEF ReleaseConfig, On
  <2>2. \A e \in Editors : edit[e].at # "off" => configLock' = configLock
    BY <1>12, <2>1, TokensDiffer DEF ReleaseConfig
  <2>3. run[c].token = <<"run", runs>> /\ controlLock = run[c].token
    BY <2>1 DEF LockInv
  <2> QED BY <1>12, <1>t, <2>1, <2>2, <2>3, RunLocks DEF ReleaseConfig, counters
<1>13. CASE ReleaseControl(c)
  BY <1>13, <1>o, OneOn, RunLocks DEF ReleaseControl, On, counters
<1>14. CASE Fail(c)
  BY <1>14, <1>t, RunKeepsLocks DEF Fail, Fault, Throw, On
<1>15. CASE Crash(c)
  BY <1>15, <1>o, OneOn, RunLocks DEF Crash, Fault, On
<1>16. CASE CutAppend(c)
  <2>1. /\ On(c) /\ pc[c] \in Held /\ UNCHANGED <<controlLock, configLock, runs, edit, edits>>
    BY <1>16 DEF CutAppend, On
  <2>2. CASE Throw(c) /\ run' = run
    BY <1>t, <2>1, <2>2, RunKeepsLocks DEF Throw
  <2>3. CASE Go(c, "off") /\ run' = [run EXCEPT ![c] = NoRun]
    BY <1>o, <2>1, <2>3, OneOn, RunLocks
  <2> QED BY <1>16, <2>2, <2>3 DEF CutAppend
<1> QED BY <1>1, <1>2, <1>3, <1>4, <1>5, <1>6, <1>7, <1>8, <1>9, <1>10, <1>11, <1>12, <1>13, <1>14,
           <1>15, <1>16 DEF RunNext

LEMMA StepLocksEdit ==
    ASSUME TypeInv, LockInv, NEW e \in Editors, EditNext(e)
    PROVE  LockInv'
<1>t. edit \in [Editors -> Edits] /\ edits \in Nat /\ runs \in Nat
  BY DEF TypeInv, TypeOK
<1>o. NoEdit.at = "off"
  BY DEF NoEdit
<1>1. CASE EditAcquire(e)
  <2> DEFINE v == [NoEdit EXCEPT !.at = "load"]
             u == [v EXCEPT !.token = configLock']
  <2>2. v = [at |-> "load", token |-> None, config |-> None]
    BY DEF NoEdit
  <2>3. u = [at |-> "load", token |-> configLock', config |-> None]
    <3> HIDE DEF v
    <3> QED BY <2>2
  <2>4. edit' = [edit EXCEPT ![e] = u]
    BY <1>1 DEF EditAcquire
  <2> HIDE DEF u
  <2>5. edit'[e].at = "load" /\ edit'[e].token = configLock' /\ \A f \in Editors \ {e} : edit'[f] = edit[f]
    BY <1>t, <2>3, <2>4
  <2>6. \A f \in Editors : edit[f].at = "off"
    BY <1>1, TokensDiffer DEF EditAcquire
  <2>7. \A c \in Controllers : ~ (pc[c] \in Held /\ run[c].apply)
    <3>1. \A c \in Controllers : pc[c] \in Held /\ run[c].apply => configLock = <<"run", runs>>
      BY DEF LockInv, On, Held, Recovering, Deciding
    <3>2. <<"run", runs>> # None
      BY <1>t, NoneAssumption DEF Tokens
    <3> QED BY <1>1, <3>1, <3>2 DEF EditAcquire
  <2>8. /\ edits' = edits + 1 /\ edits' > 0 /\ configLock' = <<"edit", edits'>>
        /\ UNCHANGED <<pc, run, runs, controlLock>>
    BY <1>1, <1>t DEF EditAcquire
  <2> QED BY <2>5, <2>6, <2>7, <2>8 DEF LockInv, On
<1>2. CASE EditLoad(e)
  <2> DEFINE v == [edit[e] EXCEPT !.at = "persist"]
             u == [v EXCEPT !.config = config]
             w == [edit[e] EXCEPT !.at = "release"]
  <2>1. v \in Edits /\ v.token = edit[e].token /\ w.token = edit[e].token
    BY <1>t DEF Edits
  <2>2. u.at = v.at /\ u.token = v.token
    <3> HIDE DEF v
    <3> QED BY <2>1 DEF Edits
  <2>3. edit' = [edit EXCEPT ![e] = IF "config" \in torn THEN w ELSE u]
    BY <1>2 DEF EditLoad
  <2> HIDE DEF u, w
  <2>4. edit'[e].token = edit[e].token /\ \A f \in Editors \ {e} : edit'[f] = edit[f]
    BY <1>t, <2>1, <2>2, <2>3
  <2>5. edit[e].at # "off" /\ UNCHANGED <<controlLock, configLock, pc, run, runs, edits>>
    BY <1>2 DEF EditLoad, counters
  <2>6. \A f \in Editors : edit'[f].at # "off" => edit[f].at # "off" /\ edit'[f].token = edit[f].token
    BY <2>4, <2>5
  <2> QED BY <2>5, <2>6 DEF LockInv, On
<1>3. CASE EditPersist(e)
  <2>1. edit'[e].token = edit[e].token /\ \A f \in Editors \ {e} : edit'[f] = edit[f]
    BY <1>3, <1>t DEF EditPersist, Edits
  <2> QED BY <1>3, <2>1 DEF EditPersist, LockInv, On, counters
<1>4. CASE EditRelease(e)
  <2>1. edit'[e].at = "off" /\ \A f \in Editors \ {e} : edit'[f] = edit[f] /\ edit[f].at = "off"
    BY <1>4, <1>o, <1>t DEF EditRelease, LockInv
  <2>2. \A c \in Controllers : ~ (pc[c] \in Held /\ run[c].apply)
    BY <1>4, TokensDiffer DEF EditRelease, LockInv, On, Held, Recovering, Deciding
  <2> QED BY <1>4, <2>1, <2>2 DEF EditRelease, LockInv, On, counters
<1>5. CASE EditCrash(e)
  <2>1. edit'[e].at = "off" /\ \A f \in Editors \ {e} : edit'[f] = edit[f]
    BY <1>5, <1>o, <1>t DEF EditCrash
  <2> QED BY <1>5, <2>1 DEF EditCrash, Fault, LockInv, On
<1> QED BY <1>1, <1>2, <1>3, <1>4, <1>5 DEF EditNext

LEMMA StepLocksOther ==
    ASSUME TypeInv, LockInv, RemoveStaleLock \/ UNCHANGED vars
    PROVE  LockInv'
<1>1. CASE RemoveStaleLock
  <2>1. /\ \A c \in Controllers : run[c].token \in Live
        /\ \A e \in Editors : edit[e].token \in Live
    BY DEF Live
  <2>2. UNCHANGED <<pc, run, edit, runs, edits>>
    BY <1>1 DEF RemoveStaleLock, counters
  <2>3. \A c \in Controllers : On(c) => controlLock' = controlLock
    BY <1>1, <2>1 DEF RemoveStaleLock, LockInv
  <2>4. \A c \in Controllers : pc[c] \in Held /\ run[c].apply => configLock' = configLock
    BY <1>1, <2>1 DEF RemoveStaleLock, LockInv
  <2>5. \A e \in Editors : edit[e].at # "off" => configLock' = configLock
    BY <1>1, <2>1 DEF RemoveStaleLock, LockInv
  <2> QED BY <2>2, <2>3, <2>4, <2>5 DEF LockInv, On
<1>2. CASE UNCHANGED vars
  BY <1>2 DEF vars, counters, LockInv, On
<1> QED BY <1>1, <1>2

\* Nobody edits while a run that applies holds the configuration.
LEMMA OneHolder ==
    ASSUME TypeInv, LockInv, NEW c \in Controllers, pc[c] \in Held, run[c].apply
    PROVE  \A e \in Editors : edit[e].at = "off"
  BY TokensDiffer DEF LockInv, On, Held, Recovering, Deciding
-----------------------------------------------------------------------------
(* What was read under the configuration lock is what is in the file.      *)

LEMMA RunReads ==
    ASSUME TypeInv, LockInv, ReadInv, NEW c \in Controllers, NEW next \in Labels, NEW u \in Runs,
           Go(c, next), run' = [run EXCEPT ![c] = u],
           \A d \in Controllers \ {c} : pc[d] = "off",
           next \in Reading \ After /\ u.apply => u.config = config',
           next \in After /\ u.plan.action # "no_action" => config'.daily = u.plan.to,
           edit' = edit,
           config' = config \/ \A e \in Editors : edit[e].at = "off"
    PROVE  ReadInv'
<1>1. /\ run'[c] = u /\ pc'[c] = next
      /\ \A d \in Controllers \ {c} : pc'[d] = "off"
  BY RunMoves
<1>2. "off" \notin Reading /\ "off" \notin After
  BY DEF Reading, After, Recovering, Deciding
<1>3. \A d \in Controllers :
         /\ (pc[d] \in (Reading \ After) /\ run[d].apply)' => (run[d].config = config)'
         /\ (pc[d] \in After /\ Mutates(d))' => (config.daily = run[d].plan.to)'
  BY <1>1, <1>2 DEF Mutates
<1>4. \A e \in Editors : (edit[e].at = "persist" => edit[e].config = config)'
  BY DEF ReadInv
<1> QED BY <1>3, <1>4 DEF ReadInv

LEMMA RunKeepsReads ==
    ASSUME TypeInv, LockInv, ReadInv, NEW c \in Controllers, NEW next \in Labels, On(c),
           Go(c, next), UNCHANGED <<run, config, edit>>,
           next \in Reading \ After => pc[c] \in Reading \ After,
           next \in After => pc[c] \in After
    PROVE  ReadInv'
<1>1. run[c] \in Runs /\ run = [run EXCEPT ![c] = run[c]]
  BY DEF TypeInv, TypeOK
<1> QED BY <1>1, OneOn, RunReads DEF ReadInv, Mutates

LEMMA StepReadsRun ==
    ASSUME TypeInv, LockInv, ReadInv, IntentInv, NEW c \in Controllers, RunNext(c)
    PROVE  ReadInv'
<1>t. run[c] \in Runs /\ run = [run EXCEPT ![c] = run[c]]
  BY DEF TypeInv, TypeOK
<1>o. NoRun \in Runs
  BY DEF NoRun, NewRun, Runs
<1> USE DEF Reading, After, Recovering, Deciding, Labels, Durable
<1>1. CASE Start(c)
  <2>1. PICK p \in Policies, apply \in BOOLEAN :
          run' = [run EXCEPT ![c] = NewRun(controlLock', p, apply)]
    BY <1>1 DEF Start
  <2>2. \A d \in Controllers \ {c} : pc[d] = "off" 
    <3>1. \A d \in Controllers : On(d) => controlLock = <<"run", runs>>
      BY DEF LockInv
    <3>2. <<"run", runs>> # None
      BY NoneAssumption DEF Tokens, TypeInv, TypeOK
    <3> QED BY <1>1, <3>1, <3>2 DEF Start, On
  <2>3. pc' = [pc EXCEPT ![c] = "control"] /\ UNCHANGED <<config, edit>>
    BY <1>1 DEF Start, Go
  <2>4. \A d \in Controllers : pc'[d] \notin Reading
    BY <2>2, <2>3 DEF TypeInv, TypeOK
  <2> QED BY <2>3, <2>4 DEF ReadInv
<1>2. CASE AcquireConfig(c)
  BY <1>2, RunKeepsReads DEF AcquireConfig, On
<1>3. CASE Load(c)
  <2> DEFINE u == [run[c] EXCEPT !.config = config]
  <2>1. u \in Runs /\ u.config = config
    BY <1>t DEF Runs, TypeInv, TypeOK
  <2>2. "config" \notin torn => run' = [run EXCEPT ![c] = u]
    BY <1>3 DEF Load
  <2> HIDE DEF u
  <2>3. CASE "config" \in torn
    BY <1>3, <2>3, RunKeepsReads DEF Load, Throw, On
  <2>4. CASE "config" \notin torn
    BY <1>3, <2>1, <2>2, <2>4, OneOn, RunReads DEF Load, On
  <2> QED BY <2>3, <2>4
<1>4. CASE Recover(c)
  BY <1>4, RunKeepsReads DEF Recover, Throw, On
<1>5. CASE RecoverState(c)
  BY <1>5, RunKeepsReads DEF RecoverState, On
<1>6. CASE AppendAudit(c)
  BY <1>6, RunKeepsReads DEF AppendAudit, On
<1>7. CASE ClearPending(c)
  BY <1>7, RunKeepsReads DEF ClearPending, On
<1>8. CASE Plan(c)
  <2>1. On(c) /\ pc[c] \in Reading \ After /\ UNCHANGED <<config, edit>>
    BY <1>8, PlanLeaves DEF On
  <2>2. CASE Throw(c) /\ run' = run
    BY <2>1, <2>2, RunKeepsReads DEF Throw
  <2>3. ASSUME NEW s \in States, NEW plan, NEW u \in Runs, PlansOn(c, s, plan, u)
        PROVE  ReadInv'
    <3>1. u.config = config
      BY <2>1, <2>3 DEF PlansOn, ReadInv
    <3> QED BY <2>1, <2>3, <3>1, OneOn, RunReads DEF PlansOn
  <2> QED BY <1>8, <2>2, <2>3, PlanStep
<1>9. CASE WritePending(c)
  BY <1>9, RunKeepsReads DEF WritePending, On
<1>10. CASE SaveConfig(c)
  <2>1. On(c) /\ pc[c] \in Held /\ run[c].apply
    BY <1>10 DEF SaveConfig, On, Held, LockInv, ApplyOnly
  <2>2. CASE Throw(c) /\ UNCHANGED config
    BY <1>10, <2>1, <2>2, RunKeepsReads DEF SaveConfig, Throw
  <2>3. CASE Go(c, "state") /\ config' = [run[c].config EXCEPT !.daily = run[c].plan.to, !.author = "controller"]
    <3>1. run[c].config \in Configs
      BY <1>10, Typed DEF SaveConfig
    <3>2. config'.daily = run[c].plan.to
      BY <2>3, <3>1 DEF Configs
    <3> QED BY <1>10, <1>t, <2>1, <2>3, <3>2, OneOn, OneHolder, RunReads DEF SaveConfig
  <2> QED BY <1>10, <2>2, <2>3 DEF SaveConfig
<1>11. CASE WriteState(c)
  BY <1>11, RunKeepsReads DEF WriteState, On
<1>12. CASE ReleaseConfig(c)
  BY <1>12, RunKeepsReads DEF ReleaseConfig, On
<1>13. CASE ReleaseControl(c)
  BY <1>13, <1>o, OneOn, RunReads DEF ReleaseControl, On
<1>14. CASE Fail(c)
  BY <1>14, RunKeepsReads DEF Fail, Throw, On
<1>15. CASE Crash(c)
  BY <1>15, <1>o, OneOn, RunReads DEF Crash, On
<1>16. CASE CutAppend(c)
  <2>1. On(c) /\ UNCHANGED <<config, edit>>
    BY <1>16 DEF CutAppend, On
  <2>2. CASE Throw(c) /\ run' = run
    BY <2>1, <2>2, RunKeepsReads DEF Throw
  <2>3. CASE Go(c, "off") /\ run' = [run EXCEPT ![c] = NoRun]
    BY <1>o, <2>1, <2>3, OneOn, RunReads
  <2> QED BY <1>16, <2>2, <2>3 DEF CutAppend
<1> QED BY <1>1, <1>2, <1>3, <1>4, <1>5, <1>6, <1>7, <1>8, <1>9, <1>10, <1>11, <1>12, <1>13, <1>14,
           <1>15, <1>16 DEF RunNext

LEMMA StepReadsEdit ==
    ASSUME TypeInv, LockInv, ReadInv, NEW e \in Editors, EditNext(e)
    PROVE  ReadInv'
<1>t. edit \in [Editors -> Edits]
  BY DEF TypeInv, TypeOK
<1>o. NoEdit.at = "off"
  BY DEF NoEdit
<1>h. \A c \in Controllers :
         /\ pc[c] \in Reading /\ run[c].apply => pc[c] \in Held /\ run[c].apply
         /\ pc[c] \in After => pc[c] \in Held /\ run[c].apply
  <2>1. \A c \in Controllers : pc[c] \in ApplyOnly => run[c].apply
    BY DEF LockInv
  <2>2. Reading \subseteq Held /\ After \subseteq Held /\ After \subseteq ApplyOnly
    BY DEF Reading, After, Held, Recovering, Deciding, ApplyOnly
  <2> QED BY <2>1, <2>2
<1>1. CASE EditAcquire(e)
  <2> DEFINE v == [NoEdit EXCEPT !.at = "load"]
             u == [v EXCEPT !.token = configLock']
  <2>1. v = [at |-> "load", token |-> None, config |-> None]
    BY DEF NoEdit
  <2>2. u.at = "load"
    <3> HIDE DEF v
    <3> QED BY <2>1
  <2>3. edit' = [edit EXCEPT ![e] = u]
    BY <1>1 DEF EditAcquire
  <2> HIDE DEF u
  <2>4. edit'[e].at = "load" /\ \A f \in Editors \ {e} : edit'[f] = edit[f]
    BY <1>t, <2>2, <2>3
  <2> QED BY <1>1, <2>4 DEF EditAcquire, ReadInv, Mutates
<1>2. CASE EditLoad(e)
  <2> DEFINE v == [edit[e] EXCEPT !.at = "persist"]
             u == [v EXCEPT !.config = config]
  <2>1. v \in Edits
    BY <1>t DEF Edits
  <2>2. u.config = config
    <3> HIDE DEF v
    <3> QED BY <2>1 DEF Edits
  <2> DEFINE w == [edit[e] EXCEPT !.at = "release"]
  <2>3. edit' = [edit EXCEPT ![e] = IF "config" \in torn THEN w ELSE u] /\ w.at = "release"
    BY <1>2, <1>t DEF EditLoad, Edits
  <2> HIDE DEF u, w
  <2>4. /\ edit'[e].at = "persist" => edit'[e].config = config
        /\ \A f \in Editors \ {e} : edit'[f] = edit[f]
    BY <1>t, <2>2, <2>3
  <2> QED BY <1>2, <2>4 DEF EditLoad, ReadInv, Mutates
<1>3. CASE EditPersist(e)
  <2>1. edit'[e].at = "release" /\ \A f \in Editors \ {e} : edit'[f] = edit[f] /\ edit[f].at = "off"
    BY <1>3, <1>t DEF EditPersist, Edits, LockInv
  <2>2. \A c \in Controllers : ~ (pc[c] \in Reading /\ run[c].apply) /\ pc[c] \notin After
    BY <1>3, <1>h, OneHolder DEF EditPersist
  <2> QED BY <1>3, <2>1, <2>2 DEF EditPersist, ReadInv
<1>4. CASE EditRelease(e)
  <2>1. edit'[e].at = "off" /\ \A f \in Editors \ {e} : edit'[f] = edit[f]
    BY <1>4, <1>o, <1>t DEF EditRelease
  <2> QED BY <1>4, <2>1 DEF EditRelease, ReadInv, Mutates
<1>5. CASE EditCrash(e)
  <2>1. edit'[e].at = "off" /\ \A f \in Editors \ {e} : edit'[f] = edit[f]
    BY <1>5, <1>o, <1>t DEF EditCrash
  <2> QED BY <1>5, <2>1 DEF EditCrash, ReadInv, Mutates
<1> QED BY <1>1, <1>2, <1>3, <1>4, <1>5 DEF EditNext

LEMMA StepReadsOther ==
    ASSUME ReadInv, RemoveStaleLock \/ UNCHANGED vars
    PROVE  ReadInv'
  BY DEF RemoveStaleLock, vars, ReadInv, Mutates

(* The steps that write anything but the locks and what a process remembers. *)

LEMMA Writers ==
    ASSUME [Next]_vars
    PROVE  \/ UNCHANGED <<config, pending, state, audit, handovers, saved, edits>>
           \/ \E c \in Controllers : \/ RecoverState(c) \/ WriteState(c) \/ ClearPending(c) \/ WritePending(c)
                                    \/ SaveConfig(c) \/ AppendAudit(c) \/ CutAppend(c)
           \/ \E e \in Editors : EditPersist(e) \/ EditAcquire(e)
<1>1. ASSUME NEW c \in Controllers, RunNext(c)
      PROVE  \/ UNCHANGED <<config, pending, state, audit, handovers, saved, edits>>
             \/ RecoverState(c) \/ WriteState(c) \/ ClearPending(c) \/ WritePending(c)
             \/ SaveConfig(c) \/ AppendAudit(c) \/ CutAppend(c)
  <2>1. CASE Start(c) \/ AcquireConfig(c) \/ Load(c) \/ Recover(c) \/ Plan(c)
    BY <2>1, PlanLeaves DEF Start, AcquireConfig, Load, Recover, files, counters
  <2>2. CASE ReleaseConfig(c) \/ ReleaseControl(c) \/ Fail(c) \/ Crash(c)
    BY <2>2 DEF ReleaseConfig, ReleaseControl, Fail, Crash, files, counters
  <2> QED BY <1>1, <2>1, <2>2 DEF RunNext
<1>2. ASSUME NEW e \in Editors, EditLoad(e) \/ EditRelease(e) \/ EditCrash(e)
      PROVE  UNCHANGED <<config, pending, state, audit, handovers, saved, edits>>
  BY <1>2 DEF EditLoad, EditRelease, EditCrash, files, counters
<1>3. ASSUME RemoveStaleLock \/ UNCHANGED vars
      PROVE  UNCHANGED <<config, pending, state, audit, handovers, saved, edits>>
  BY <1>3 DEF RemoveStaleLock, vars, files, counters
<1> QED BY <1>1, <1>2, <1>3 DEF Next, EditNext

LEMMA UpdateSafe ==
    ASSUME TypeInv, LockInv, ReadInv, [Next]_vars
    PROVE  config'.edits >= config.edits
<1>t. config \in Configs /\ config.edits \in Nat
  BY DEF TypeInv, TypeOK, Configs
<1>1. CASE config' = config
  BY <1>1, <1>t
<1>2. ASSUME NEW c \in Controllers, SaveConfig(c)
      PROVE  config'.edits >= config.edits
  <2>1. pc[c] \in Reading \ After /\ run[c].apply
    BY <1>2 DEF SaveConfig, Reading, After, Recovering, Deciding, LockInv, ApplyOnly
  <2>2. run[c].config = config
    BY <2>1 DEF ReadInv
  <2>3. config' = config \/ config' = [config EXCEPT !.daily = run[c].plan.to, !.author = "controller"]
    BY <1>2, <2>2 DEF SaveConfig
  <2>4. config'.edits = config.edits
    BY <1>t, <2>3 DEF Configs
  <2> QED BY <1>t, <2>4
<1>3. ASSUME NEW e \in Editors, EditPersist(e)
      PROVE  config'.edits >= config.edits
  <2>1. config'.edits = config.edits + 1
    BY <1>3 DEF EditPersist, ReadInv
  <2> QED BY <1>t, <2>1
<1>4. \/ config' = config
      \/ \E c \in Controllers : SaveConfig(c)
      \/ \E e \in Editors : EditPersist(e)
  BY Writers DEF RecoverState, WriteState, ClearPending, WritePending, AppendAudit, CutAppend, EditAcquire
<1> QED BY <1>1, <1>2, <1>3, <1>4
-----------------------------------------------------------------------------
(* The audit.                                                              *)

LEMMA AuditGrows ==
    ASSUME audit \in Seq(AuditEvents), NEW e \in AuditEvents, audit' = Append(audit, e)
    PROVE  \E n \in Nat :
             /\ Len(audit) \in Nat /\ n = Len(audit) + 1 /\ Len(audit') = n
             /\ n > 0 /\ n \notin DOMAIN audit /\ \A i \in DOMAIN audit : i \in Nat /\ i < n
             /\ DOMAIN audit' = DOMAIN audit \cup {n}
             /\ audit'[n] = e /\ \A i \in DOMAIN audit : audit'[i] = audit[i]
             /\ Txs' = Txs \cup {e.tx}
             /\ Mutations' = Mutations \cup (IF e.action = "no_action" THEN {} ELSE {n})
<1> DEFINE n == Len(audit) + 1
<1>1. /\ Len(audit) \in Nat /\ DOMAIN audit = 1 .. Len(audit)
      /\ audit' \in Seq(AuditEvents) /\ Len(audit') = n /\ DOMAIN audit' = 1 .. n
      /\ audit'[n] = e /\ \A i \in 1 .. Len(audit) : audit'[i] = audit[i]
  BY AppendProperties, LenProperties
<1>2. DOMAIN audit' = DOMAIN audit \cup {n} /\ n \notin DOMAIN audit /\ n > 0 /\ n \in Nat
  BY <1>1
<1>3. \A i \in DOMAIN audit : i \in Nat /\ i < n /\ audit'[i] = audit[i]
  BY <1>1
<1>n. Len(audit) \in Nat /\ n = Len(audit) + 1 /\ Len(audit') = n
  BY <1>1
<1> HIDE DEF n
<1>4. Txs' = Txs \cup {e.tx}
  BY <1>1, <1>2, <1>3 DEF Txs
<1>5. Mutations' = Mutations \cup (IF e.action = "no_action" THEN {} ELSE {n})
  BY <1>1, <1>2, <1>3 DEF Mutations
<1> QED BY <1>1, <1>2, <1>3, <1>4, <1>5, <1>n

LEMMA RecordedTxs == \A tx : Recorded(tx) <=> tx \in Txs
  BY DEF Recorded, Txs
-----------------------------------------------------------------------------
(* The write-ahead record.                                                 *)

LEMMA RestIntends ==
    ASSUME NEW c, pc'[c] \in {"off", "release_config", "release_control"}
    PROVE  Intends(c)'
  BY DEF Intends, After, Recovering

\* It is enough that the run that steps intends what it should.
LEMMA RunIntends ==
    ASSUME TypeInv, LockInv, NEW c \in Controllers, On(c), NEW next \in Labels, NEW u \in Runs,
           Go(c, next), run' = [run EXCEPT ![c] = u],
           saved' \cup Txs' \subseteq Old',
           pending' # None => pending'.tx \in Old',
           run'[c] = u /\ pc'[c] = next => Intends(c)'
    PROVE  IntentInv'
<1>1. /\ run'[c] = u /\ pc'[c] = next
      /\ \A d \in Controllers \ {c} : pc'[d] = "off"
  BY RunMoves, OneOn
<1>2. \A d \in Controllers \ {c} : Intends(d)'
  BY <1>1, RestIntends
<1> QED BY <1>1, <1>2 DEF IntentInv

LEMMA RunKeepsIntends ==
    ASSUME TypeInv, LockInv, IntentInv, NEW c \in Controllers, On(c), NEW next \in Labels,
           Go(c, next), run' = run,
           saved' \cup Txs' \subseteq Old,
           pending' # None => pending'.tx \in Old,
           runs' = runs,
           pc'[c] = next => Intends(c)'
    PROVE  IntentInv'
<1>1. run[c] \in Runs /\ run = [run EXCEPT ![c] = run[c]]
  BY DEF TypeInv, TypeOK
<1>2. Old' = Old
  BY DEF Old
<1> QED BY <1>1, <1>2, RunIntends

LEMMA StepIntentsRun ==
    ASSUME TypeInv, LockInv, ReadInv, IntentInv, NEW c \in Controllers, RunNext(c)
    PROVE  IntentInv'
<1>t. /\ run \in [Controllers -> Runs] /\ run[c] \in Runs /\ runs \in Nat
      /\ saved \cup Txs \subseteq Old
      /\ pending # None => pending.tx \in Old
      /\ Intends(c)
      /\ On(c) => run[c].token \in Old
      /\ audit \in Seq(AuditEvents)
  <2>1. runs \in Nat
    BY DEF TypeInv, TypeOK
  <2>2. On(c) => run[c].token \in Old
    <3>1. <<"run", runs>> \in Old
      BY <2>1 DEF Old
    <3> QED BY <3>1 DEF LockInv
  <2> QED BY <2>1, <2>2 DEF TypeInv, TypeOK, IntentInv
<1>l. {"control", "load", "recover", "plan", "release_config", "release_control"} \cup Recovering \cup Deciding
        \subseteq Labels
  BY DEF Labels, Durable, Recovering, Deciding
<1>o. NoRun \in Runs
  BY DEF NoRun, NewRun, Runs
<1>f. "off" \in Labels /\ (pc'[c] = "off" => Intends(c)')
  BY RestIntends DEF Labels
<1>s. ASSUME UNCHANGED <<saved, audit, pending, runs>>
      PROVE  /\ saved' \cup Txs' \subseteq Old
             /\ pending' # None => pending'.tx \in Old
             /\ Txs' = Txs /\ Old' = Old
  BY <1>s, <1>t DEF Txs, Old
<1>1. CASE Start(c)
  <2>1. PICK p \in Policies, apply \in BOOLEAN :
          run' = [run EXCEPT ![c] = NewRun(controlLock', p, apply)]
    BY <1>1 DEF Start
  <2> DEFINE u == NewRun(controlLock', p, apply)
  <2>2. u.token = <<"run", runs + 1>> /\ u \in Runs
    BY <1>1, <1>t DEF Start, NewRun, Runs, Tokens
  <2>3. run' = [run EXCEPT ![c] = u]
    BY <2>1
  <2> HIDE DEF u
  <2>4. run'[c] = u /\ pc' = [pc EXCEPT ![c] = "control"] /\ UNCHANGED <<saved, audit, pending, config>>
    BY <1>1, <1>t, <2>3 DEF Start, Go, files
  <2>5. Old \subseteq Old' /\ u.token \notin Old
    BY <1>1, <1>t, <2>2 DEF Start, Old
  <2>6. \A d \in Controllers \ {c} : pc[d] = "off"
    <3>1. \A d \in Controllers : On(d) => controlLock = <<"run", runs>>
      BY DEF LockInv
    <3>2. <<"run", runs>> # None
      BY <1>t, NoneAssumption DEF Tokens
    <3> QED BY <1>1, <3>1, <3>2 DEF Start, On
  <2>7. pc'[c] = "control" /\ \A d \in Controllers \ {c} : pc'[d] = "off"
    BY <2>4, <2>6 DEF TypeInv, TypeOK
  <2>8. Txs' = Txs
    BY <2>4 DEF Txs
  <2>9. Intends(c)'
    BY <1>t, <2>4, <2>5, <2>7, <2>8 DEF Intends, Recovering, After
  <2>10. \A d \in Controllers \ {c} : Intends(d)'
    BY <2>7, RestIntends
  <2> QED BY <1>t, <2>4, <2>5, <2>8, <2>9, <2>10 DEF IntentInv
<1>2. CASE AcquireConfig(c)
  <2>1. On(c) /\ UNCHANGED <<saved, audit, pending, runs, config, run>>
    BY <1>2 DEF AcquireConfig, On, files, counters
  <2>2. CASE Go(c, "load")
    <3>1. pc'[c] = "load" => Intends(c)'
      BY <1>2, <1>s, <1>t, <2>1 DEF AcquireConfig, Intends, Recovering, After
    <3> QED BY <1>l, <1>s, <2>1, <2>2, <3>1, RunKeepsIntends
  <2>3. CASE Go(c, "release_control")
    BY <1>l, <1>s, <2>1, <2>3, RestIntends, RunKeepsIntends
  <2> QED BY <1>2, <2>2, <2>3 DEF AcquireConfig
<1>3. CASE Load(c)
  <2> DEFINE u == [run[c] EXCEPT !.config = config]
             next == IF run[c].apply THEN "recover" ELSE "plan"
  <2>1. u \in Runs /\ u.token = run[c].token /\ u.apply = run[c].apply
    BY <1>t DEF Runs, TypeInv, TypeOK
  <2>6. On(c) /\ UNCHANGED <<saved, audit, pending, runs, config>>
    BY <1>3 DEF Load, On, files, counters
  <2>7. CASE Go(c, "release_config") /\ run' = run
    BY <1>l, <1>s, <2>6, <2>7, RestIntends, RunKeepsIntends
  <2> SUFFICES ASSUME run' = [run EXCEPT ![c] = u], Go(c, next)
               PROVE  IntentInv'
    BY <1>3, <2>7 DEF Load, Throw
  <2>2. run' = [run EXCEPT ![c] = u]
    OBVIOUS
  <2>3. On(c) /\ Go(c, next) /\ UNCHANGED <<saved, audit, pending, runs, config>>
    BY <2>6
  <2> HIDE DEF u
  <2>4. run'[c] = u /\ pc'[c] = next => Intends(c)'
    BY <1>3, <1>s, <1>t, <2>1, <2>3 DEF Load, Intends, Recovering, After
  <2>5. next \in Labels
    BY <1>l
  <2> HIDE DEF next
  <2> QED BY <1>s, <2>1, <2>2, <2>3, <2>4, <2>5, RunIntends
<1>4. CASE Recover(c)
  <2>1. /\ On(c) /\ pc[c] = "recover" /\ UNCHANGED <<saved, audit, pending, runs, config, run>>
        /\ run[c].apply
    BY <1>4 DEF Recover, On, files, counters, LockInv, ApplyOnly
  <2>2. Current(c) = config.daily
    BY <2>1 DEF ReadInv, Current, Reading, After, Deciding
  <2>3. CASE pending = None /\ Go(c, "plan")
    <3>1. pc'[c] = "plan" => Intends(c)'
      BY <1>s, <1>t, <2>1, <2>3 DEF Intends, Recovering, After
    <3> QED BY <1>l, <1>s, <2>1, <2>3, <3>1, RunKeepsIntends
  <2>4. CASE pending # None /\ pending.tx \in Txs /\ Go(c, "recover_clear")
    <3>1. pc'[c] = "recover_clear" => Intends(c)'
      BY <1>s, <1>t, <2>1, <2>4 DEF Intends, Recovering, After
    <3> QED BY <1>l, <1>s, <2>1, <2>4, <3>1, RunKeepsIntends DEF Recovering
  <2>5. CASE /\ pending # None /\ pending.tx \notin Txs /\ pending.policy = run[c].policy
             /\ config.daily \in {pending.from, pending.to} /\ Go(c, "recover_state")
    <3>1. pc'[c] = "recover_state" => Intends(c)'
      BY <1>s, <1>t, <2>1, <2>5 DEF Intends, Recovering, After
    <3> QED BY <1>l, <1>s, <2>1, <2>5, <3>1, RunKeepsIntends DEF Recovering
  <2>6. CASE Go(c, "release_config")
    BY <1>l, <1>s, <2>1, <2>6, RestIntends, RunKeepsIntends
  <2>7. /\ resolve(pending, Current(c)) \in {"already_recorded", "complete", "abort", "conflict"}
        /\ resolve(pending, Current(c)) = "already_recorded" <=> pending.tx \in Txs
        /\ (resolve(pending, Current(c)) \notin {"already_recorded", "conflict"}
             => config.daily \in {pending.from, pending.to})
    BY <2>2, RecordedTxs DEF resolve
  <2>8. \/ pending = None /\ Go(c, "plan")
        \/ Go(c, "release_config")
        \/ /\ pending # None /\ pending.policy = run[c].policy
           /\ \/ resolve(pending, Current(c)) = "already_recorded" /\ Go(c, "recover_clear")
              \/ /\ resolve(pending, Current(c)) \notin {"already_recorded", "conflict"}
                 /\ Go(c, "recover_state")
    BY <1>4, <2>7 DEF Recover, Throw
  <2> QED BY <2>3, <2>4, <2>5, <2>6, <2>7, <2>8
<1>5. CASE RecoverState(c)
  <2>1. /\ On(c) /\ pc[c] = "recover_state" /\ Go(c, "recover_audit")
        /\ UNCHANGED <<saved, audit, pending, runs, config, run>>
    BY <1>5 DEF RecoverState, SetState, On
  <2>2. pc'[c] = "recover_audit" => Intends(c)'
    BY <1>s, <1>t, <2>1 DEF Intends, Recovering, After
  <2> QED BY <1>l, <1>s, <2>1, <2>2, RunKeepsIntends DEF Recovering
<1>e. ASSUME pc[c] \in {"recover_audit", "audit"}
      PROVE  /\ Event(c) \in AuditEvents
             /\ Event(c).tx = IF pc[c] = "recover_audit" THEN pending.tx ELSE run[c].token
             /\ Event(c).tx \in Old
  <2>1. /\ pc[c] = "recover_audit" => pending # None
        /\ pc[c] = "audit" => run[c].token # None
    <3>1. <<"run", runs>> # None
      BY <1>t, NoneAssumption DEF Tokens
    <3>2. On(c) => run[c].token = <<"run", runs>>
      BY DEF LockInv
    <3> QED BY <1>e, <1>t, <3>1, <3>2 DEF Intends, On
  <2>2. Event(c) \in AuditEvents
    BY <1>e, <2>1, EventTyped
  <2>3. Event(c).tx = IF pc[c] = "recover_audit" THEN pending.tx ELSE run[c].token
    BY DEF Event
  <2> QED BY <1>e, <1>t, <2>1, <2>2, <2>3 DEF On
<1>6. CASE AppendAudit(c)
  <2>1. /\ On(c) /\ pc[c] \in {"recover_audit", "audit"} /\ audit' = Append(audit, Event(c))
        /\ UNCHANGED <<saved, pending, runs, config, run>>
    BY <1>6 DEF AppendAudit, WriteLine, On
  <2>2. Txs' = Txs \cup {Event(c).tx} /\ Old' = Old
    BY <1>e, <1>t, <2>1, AuditGrows DEF Old
  <2>3. saved' \cup Txs' \subseteq Old /\ (pending' # None => pending'.tx \in Old)
    BY <1>e, <1>t, <2>1, <2>2
  <2>4. CASE pc[c] = "recover_audit"
    <3>1. Go(c, "recover_clear")
      BY <1>6, <2>4 DEF AppendAudit
    <3>2. pc'[c] = "recover_clear" => Intends(c)'
      BY <1>e, <1>t, <2>1, <2>2, <2>4 DEF Intends, Recovering, After
    <3> QED BY <1>l, <2>1, <2>3, <3>1, <3>2, RunKeepsIntends DEF Recovering
  <2>5. CASE pc[c] = "audit" /\ Mutates(c)
    <3>1. Go(c, "clear")
      BY <1>6, <2>5 DEF AppendAudit, Mutates
    <3>2. pc'[c] = "clear" => Intends(c)'
      BY <1>e, <1>t, <2>1, <2>2, <2>5 DEF Intends, Recovering, After, Mutates, Carried, Current
    <3> QED BY <1>l, <2>1, <2>3, <3>1, <3>2, RunKeepsIntends DEF Deciding
  <2>6. CASE pc[c] = "audit" /\ ~ Mutates(c)
    <3>1. Go(c, "release_config")
      BY <1>6, <2>6 DEF AppendAudit, Mutates
    <3> QED BY <1>l, <2>1, <2>3, <3>1, RestIntends, RunKeepsIntends
  <2> QED BY <2>1, <2>4, <2>5, <2>6
<1>7. CASE ClearPending(c)
  <2>1. On(c) /\ UNCHANGED <<saved, audit, runs, config, run>> /\ pending' = None
    BY <1>7 DEF ClearPending, On, counters
  <2>2. saved' \cup Txs' \subseteq Old /\ Txs' = Txs
    BY <1>t, <2>1 DEF Txs
  <2>3. CASE pc[c] = "recover_clear" /\ Go(c, "plan")
    <3>1. pc'[c] = "plan" => Intends(c)'
      BY <1>t, <2>1, <2>2, <2>3 DEF Intends, Recovering, After
    <3> QED BY <1>l, <2>1, <2>2, <2>3, <3>1, RunKeepsIntends
  <2>4. CASE Go(c, "release_config")
    BY <1>l, <2>1, <2>2, <2>4, RestIntends, RunKeepsIntends
  <2> QED BY <1>7, <2>3, <2>4 DEF ClearPending
<1>8. CASE Plan(c)
  <2>1. On(c) /\ pc[c] = "plan" /\ UNCHANGED <<saved, audit, pending, runs, config>>
    BY <1>8, PlanLeaves DEF On, files, counters
  <2>2. CASE Throw(c) /\ run' = run
    BY <1>l, <1>s, <2>1, <2>2, RestIntends, RunKeepsIntends DEF Throw
  <2>3. ASSUME NEW s \in States, NEW plan, NEW u \in Runs, PlansOn(c, s, plan, u)
        PROVE  IntentInv'
    <3> DEFINE next == IF plan.action = "no_action" THEN "state" ELSE "pending"
    <3>1. /\ run[c].apply /\ Go(c, next) /\ run' = [run EXCEPT ![c] = u]
          /\ u.plan = plan /\ u.token = run[c].token
      BY <2>3 DEF PlansOn
    <3>2. run'[c] = u /\ pc'[c] = next => Intends(c)'
      BY <1>s, <1>t, <2>1, <3>1 DEF Intends, Recovering, After, Mutates
    <3>3. next \in Labels
      BY <1>l DEF Deciding
    <3> HIDE DEF next
    <3> QED BY <1>s, <2>1, <3>1, <3>2, <3>3, RunIntends
  <2> QED BY <1>8, <2>2, <2>3, PlanStep
<1>9. CASE WritePending(c)
  <2>1. /\ On(c) /\ pc[c] = "pending" /\ Go(c, "save") /\ UNCHANGED <<saved, audit, runs, config, run>>
        /\ pending'.tx = run[c].token
        /\ pending' = [tx |-> run[c].token, policy |-> run[c].policy, previous |-> run[c].previous,
                       next |-> run[c].plan.next, action |-> run[c].plan.action,
                       from |-> Current(c), to |-> run[c].plan.to]
    BY <1>9 DEF WritePending, On
  <2>2. pending' # None
    BY <1>9, IntentTyped, NoneAssumption
  <2>3. saved' \cup Txs' \subseteq Old /\ Txs' = Txs /\ pending'.tx \in Old
    BY <1>t, <2>1 DEF Txs
  <2>4. pc'[c] = "save" => Intends(c)'
    BY <1>t, <2>1, <2>2, <2>3 DEF Intends, Recovering, After, Mutates, Carried, Current
  <2> QED BY <1>l, <2>1, <2>3, <2>4, RunKeepsIntends DEF Deciding
<1>10. CASE SaveConfig(c)
  <2>1. On(c) /\ pc[c] = "save" /\ UNCHANGED <<audit, pending, runs, run>>
    BY <1>10 DEF SaveConfig, On
  <2>2. CASE Go(c, "release_config") /\ UNCHANGED saved
    BY <1>l, <1>s, <2>1, <2>2, RestIntends, RunKeepsIntends
  <2>3. CASE Go(c, "state") /\ saved' = saved \cup {run[c].token}
    <3>1. Txs' = Txs
      BY <2>1 DEF Txs
    <3>2. saved' \cup Txs' \subseteq Old
      BY <1>t, <2>1, <2>3, <3>1
    <3>3. pc'[c] = "state" => Intends(c)'
      BY <1>t, <2>1, <2>3, <3>1 DEF Intends, Recovering, After, Mutates, Carried, Current
    <3> QED BY <1>l, <1>t, <2>1, <2>3, <3>2, <3>3, RunKeepsIntends DEF Deciding
  <2> QED BY <1>10, <2>2, <2>3 DEF SaveConfig, Throw
<1>11. CASE WriteState(c)
  <2>1. /\ On(c) /\ pc[c] = "state" /\ Go(c, "audit")
        /\ UNCHANGED <<saved, audit, pending, runs, config, run>>
    BY <1>11 DEF WriteState, SetState, On
  <2>2. pc'[c] = "audit" => Intends(c)'
    BY <1>s, <1>t, <2>1 DEF Intends, Recovering, After, Mutates, Carried, Current
  <2> QED BY <1>l, <1>s, <2>1, <2>2, RunKeepsIntends DEF Deciding
<1>12. CASE ReleaseConfig(c)
  BY <1>12, <1>l, <1>s, RestIntends, RunKeepsIntends DEF ReleaseConfig, On, files, counters
<1>13. CASE ReleaseControl(c)
  <2>1. On(c) /\ Go(c, "off") /\ run' = [run EXCEPT ![c] = NoRun] /\ UNCHANGED <<saved, audit, pending, runs>>
    BY <1>13 DEF ReleaseControl, On, files, counters
  <2> QED BY <1>s, <2>1, <1>f, <1>o, RunIntends
<1>14. CASE Fail(c)
  <2>1. On(c) /\ Go(c, "release_config") /\ UNCHANGED <<saved, audit, pending, runs, run>>
    BY <1>14 DEF Fail, On, Throw, Durable, files
  <2> QED BY <1>l, <1>s, <2>1, RestIntends, RunKeepsIntends
<1>15. CASE Crash(c)
  <2>1. On(c) /\ Go(c, "off") /\ run' = [run EXCEPT ![c] = NoRun] /\ UNCHANGED <<saved, audit, pending, runs>>
    BY <1>15 DEF Crash, On, files
  <2> QED BY <1>s, <2>1, <1>f, <1>o, RunIntends
<1>16. CASE CutAppend(c)
  <2>1. /\ On(c) /\ UNCHANGED <<saved, pending, runs>>
        /\ pc[c] \in {"recover_audit", "audit"}
        /\ audit' = Append(audit, Event(c))
    BY <1>16 DEF CutAppend, WriteLine, On
  <2>2. Txs' \subseteq Txs \cup {Event(c).tx} /\ Old' = Old
    BY <1>e, <1>t, <2>1, AuditGrows DEF Old
  <2>3. /\ saved' \cup Txs' \subseteq Old' /\ saved' \cup Txs' \subseteq Old
        /\ pending' # None => pending'.tx \in Old'
        /\ pending' # None => pending'.tx \in Old
    BY <1>e, <1>t, <2>1, <2>2
  <2>4. CASE Go(c, "off") /\ run' = [run EXCEPT ![c] = NoRun]
    BY <2>1, <2>3, <2>4, <1>f, <1>o, RunIntends
  <2>5. CASE Throw(c) /\ run' = run
    BY <1>l, <2>1, <2>3, <2>5, RestIntends, RunKeepsIntends DEF Throw
  <2> QED BY <1>16, <2>4, <2>5 DEF CutAppend
<1> QED BY <1>1, <1>2, <1>3, <1>4, <1>5, <1>6, <1>7, <1>8, <1>9, <1>10, <1>11, <1>12, <1>13, <1>14,
           <1>15, <1>16 DEF RunNext

LEMMA StepIntentsEdit ==
    ASSUME TypeInv, LockInv, IntentInv, NEW e \in Editors, EditNext(e)
    PROVE  IntentInv'
<1>1. UNCHANGED <<pc, run, pending, saved, audit, runs>>
  BY DEF EditNext, EditAcquire, EditLoad, EditPersist, EditRelease, EditCrash, files, counters
<1>2. Txs' = Txs /\ Old' = Old
  BY <1>1 DEF Txs, Old
<1>3. config' = config \/ \A c \in Controllers : pc[c] \notin Recovering
  <2>1. config' = config \/ edit[e].at # "off"
    BY DEF EditNext, EditAcquire, EditLoad, EditPersist, EditRelease, EditCrash
  <2>2. \A c \in Controllers : pc[c] \in Recovering => pc[c] \in Held /\ run[c].apply
    BY DEF LockInv, ApplyOnly, Held
  <2> QED BY <2>1, <2>2, OneHolder
<1>4. ASSUME NEW c \in Controllers PROVE Intends(c)'
  <2>1. Intends(c)
    BY DEF IntentInv
  <2> QED BY <1>1, <1>2, <1>3, <2>1 DEF Intends, Recovering, After, Mutates, Carried, Current
<1> QED BY <1>1, <1>2, <1>4 DEF IntentInv

LEMMA StepIntentsOther ==
    ASSUME IntentInv, RemoveStaleLock \/ UNCHANGED vars
    PROVE  IntentInv'
<1>1. UNCHANGED <<config, pc, run, pending, saved, audit, runs>>
  BY DEF RemoveStaleLock, vars, files, counters
<1>2. Txs' = Txs /\ Old' = Old
  BY <1>1 DEF Txs, Old
<1> QED BY <1>1, <1>2 DEF IntentInv, Intends, Mutates, Carried, Current

LEMMA InitIntents == Init => IntentInv
  BY DEF Init, IntentInv, Intends, Txs, Old, Recovering, After
-----------------------------------------------------------------------------
(* What one step writes, in terms of the files only.                       *)

Clears ==
    /\ pending # None /\ pending.tx \in Txs /\ pending' = None
    /\ UNCHANGED <<config, audit, saved, edits>>
Intending ==
    /\ pending = None /\ pending' \in Intents
    /\ pending'.tx \notin saved \cup Txs /\ pending'.from = config.daily
    /\ UNCHANGED <<config, audit, saved, edits>>
Saves ==
    /\ Unrecorded /\ config'.daily = pending.to /\ saved' = saved \cup {pending.tx}
    /\ UNCHANGED <<pending, audit, edits>>

\* The pending mutation is recorded as done, or as aborted.
Resolves(e) ==
    /\ Unrecorded /\ e.tx = pending.tx /\ e.policy = pending.policy /\ e.from = pending.from
    /\ \/ /\ config.daily = pending.to /\ e.to = pending.to
          /\ e.action = pending.action /\ e.action # "no_action"
          /\ e.revision = pending.next.revision
       \/ /\ config.daily = pending.from /\ pending.from # pending.to
          /\ e.action = "no_action"
Records(e) ==
    /\ audit' = Append(audit, e)
    /\ Resolves(e) \/ (pending = None /\ e.action = "no_action")
    /\ UNCHANGED <<config, pending, saved, edits>>
EditsConfig ==
    /\ edits # 0
    /\ config'.author = "operator" \/ (config'.author = config.author /\ config'.daily = config.daily)
    /\ UNCHANGED <<pending, audit, saved, edits>>

LEMMA EventResolves ==
    ASSUME TypeInv, LockInv, ReadInv, IntentInv, NEW c \in Controllers,
           pc[c] \in {"recover_audit", "audit"}
    PROVE  /\ Event(c) \in AuditEvents
           /\ Resolves(Event(c)) \/ (pending = None /\ Event(c).action = "no_action")
<1>1. /\ Intends(c) /\ On(c) /\ run[c].apply /\ (pc[c] = "audit" => run[c].token # None)
  <2>1. <<"run", runs>> # None
    BY NoneAssumption DEF TypeInv, TypeOK, Tokens
  <2> QED BY <2>1 DEF IntentInv, LockInv, On, ApplyOnly, Recovering, Deciding
<1>2. pending # None => pending.action # "no_action"
  BY DEF TypeInv, TypeOK, Intents
<1>3. CASE pc[c] = "recover_audit"
  <2>1. /\ pending # None /\ pending.tx \notin Txs
        /\ config.daily \in {pending.from, pending.to} /\ Current(c) = config.daily
    BY <1>1, <1>3 DEF Intends, ReadInv, Current, Reading, Recovering, After
  <2>2. Completes(c) <=> config.daily = pending.to
    BY <2>1, RecordedTxs DEF Completes, resolve
  <2>3. Event(c) \in AuditEvents
    BY <1>3, <2>1, EventTyped
  <2> QED BY <1>2, <1>3, <2>1, <2>2, <2>3 DEF Event, Resolves, Unrecorded
<1>4. CASE pc[c] = "audit" /\ Mutates(c)
  <2>1. /\ Carried(c) /\ run[c].token \notin Txs /\ config.daily = run[c].plan.to
    BY <1>1, <1>4 DEF Intends, ReadInv, After
  <2>2. Event(c) \in AuditEvents
    BY <1>1, <1>4, EventTyped
  <2>3. /\ pending # None /\ pending.tx = run[c].token /\ pending.policy = run[c].policy
        /\ pending.next = run[c].plan.next /\ pending.action = run[c].plan.action
        /\ pending.from = Current(c) /\ pending.to = run[c].plan.to
    BY <2>1 DEF Carried
  <2>4. /\ Event(c).tx = run[c].token /\ Event(c).policy = run[c].policy
        /\ Event(c).from = Current(c) /\ Event(c).to = run[c].plan.to
        /\ Event(c).action = run[c].plan.action /\ Event(c).revision = run[c].plan.next.revision
    BY <1>4 DEF Event
  <2> QED BY <1>2, <2>1, <2>2, <2>3, <2>4 DEF Resolves, Unrecorded
<1>5. CASE pc[c] = "audit" /\ ~ Mutates(c)
  <2>1. pending = None
    BY <1>1, <1>5 DEF Intends
  <2>2. Event(c) \in AuditEvents
    BY <1>1, <1>5, EventTyped
  <2> QED BY <1>5, <2>1, <2>2 DEF Event, Mutates
<1> QED BY <1>3, <1>4, <1>5

LEMMA StepEffects ==
    ASSUME TypeInv, LockInv, ReadInv, IntentInv, [Next]_vars
    PROVE  \/ UNCHANGED <<config, pending, audit, saved>> /\ (edits' = 0 => edits = 0)
           \/ Clears \/ Intending \/ Saves \/ EditsConfig
           \/ \E e \in AuditEvents : Records(e)
<1> DEFINE Quiet == UNCHANGED <<config, pending, audit, saved>> /\ (edits' = 0 => edits = 0)
<1>1. ASSUME NEW c \in Controllers, ClearPending(c)
      PROVE  Clears
  BY <1>1 DEF ClearPending, Clears, IntentInv, Intends, Carried, After, counters
<1>2. ASSUME NEW c \in Controllers, WritePending(c)
      PROVE  Intending
  <2>1. pending' \in Intents
    BY <1>2, IntentTyped
  <2>2. Current(c) = config.daily
    BY <1>2 DEF WritePending, ReadInv, LockInv, ApplyOnly, Reading, After, Deciding, Current
  <2>3. pending = None /\ run[c].token \notin saved \cup Txs
    BY <1>2 DEF WritePending, IntentInv, Intends
  <2> QED BY <1>2, <2>1, <2>2, <2>3 DEF WritePending, Intending, counters
<1>3. ASSUME NEW c \in Controllers, SaveConfig(c)
      PROVE  Quiet \/ Saves
  <2>1. Carried(c) /\ run[c].token \notin Txs /\ run[c].config \in Configs
    BY <1>3, Typed DEF SaveConfig, IntentInv, Intends, Reading, Deciding
  <2>2. /\ pending # None /\ pending.tx = run[c].token /\ pending.to = run[c].plan.to
    BY <2>1 DEF Carried
  <2>3. \/ UNCHANGED <<config, saved>>
        \/ /\ config' = [run[c].config EXCEPT !.daily = run[c].plan.to, !.author = "controller"]
           /\ saved' = saved \cup {run[c].token}
    BY <1>3 DEF SaveConfig
  <2>4. UNCHANGED <<pending, audit, edits>>
    BY <1>3 DEF SaveConfig, counters, files
  <2>5. CASE UNCHANGED <<config, saved>>
    BY <2>4, <2>5
  <2>6. ASSUME config' = [run[c].config EXCEPT !.daily = run[c].plan.to, !.author = "controller"],
               saved' = saved \cup {run[c].token}
        PROVE  Saves
    <3>1. config'.daily = run[c].plan.to
      BY <2>1, <2>6 DEF Configs
    <3> QED BY <2>1, <2>2, <2>4, <2>6, <3>1 DEF Saves, Unrecorded
  <2> QED BY <2>3, <2>5, <2>6
<1>4. ASSUME NEW c \in Controllers, AppendAudit(c) \/ CutAppend(c)
      PROVE  Quiet \/ \E e \in AuditEvents : Records(e)
  <2>1. /\ pc[c] \in {"recover_audit", "audit"} /\ UNCHANGED <<config, pending, saved, edits>>
        /\ audit' = Append(audit, Event(c))
    BY <1>4 DEF AppendAudit, CutAppend, WriteLine
  <2> QED BY <2>1, EventResolves DEF Records
<1>5. ASSUME NEW e \in Editors, EditPersist(e)
      PROVE  EditsConfig
  BY <1>5 DEF EditPersist, EditsConfig, ReadInv, LockInv, TypeInv, TypeOK, files, counters
<1>6. ASSUME NEW e \in Editors, EditAcquire(e)
      PROVE  Quiet
  <2>1. edits \in Nat
    BY DEF TypeInv, TypeOK
  <2> QED BY <1>6, <2>1 DEF EditAcquire, files
<1>7. ASSUME NEW c \in Controllers, RecoverState(c) \/ WriteState(c)
      PROVE  Quiet
  BY <1>7 DEF RecoverState, WriteState, SetState
<1>8. Quiet \/ Clears \/ Intending \/ Saves \/ EditsConfig \/ \E e \in AuditEvents : Records(e)
  <2>1. UNCHANGED <<config, pending, state, audit, handovers, saved, edits>> => Quiet
    OBVIOUS
  <2> HIDE DEF Quiet
  <2> QED BY <1>1, <1>2, <1>3, <1>4, <1>5, <1>6, <1>7, <2>1, Writers
<1> QED BY <1>8

LEMMA AuditStays ==
    ASSUME audit' = audit
    PROVE  /\ Txs' = Txs /\ Mutations' = Mutations /\ Moves' = Moves /\ Rollbacks' = Rollbacks
           /\ \A s : Audited(s) => Audited(s)'
  BY DEF Txs, Mutations, Moves, Rollbacks, Audited

LEMMA StepSaved ==
    ASSUME TypeInv, LockInv, ReadInv, IntentInv, SavedInv, [Next]_vars
    PROVE  SavedInv'
<1>t. audit \in Seq(AuditEvents)
  BY DEF TypeInv, TypeOK
<1>1. CASE UNCHANGED <<config, pending, audit, saved>>
  BY <1>1, AuditStays DEF SavedInv
<1>2. CASE Clears
  BY <1>2, AuditStays DEF Clears, SavedInv
<1>3. CASE Intending
  BY <1>3, AuditStays DEF Intending, SavedInv
<1>4. CASE Saves
  BY <1>4, AuditStays DEF Saves, SavedInv, Unrecorded
<1>5. CASE EditsConfig
  BY <1>5, AuditStays DEF EditsConfig, SavedInv
<1>6. ASSUME NEW e \in AuditEvents, Records(e)
      PROVE  SavedInv'
  <2>1. Txs \subseteq Txs'
    BY <1>t, <1>6, AuditGrows DEF Records
  <2> QED BY <1>6, <2>1 DEF Records, SavedInv
<1> QED BY <1>1, <1>2, <1>3, <1>4, <1>5, <1>6, StepEffects

LEMMA StepCap ==
    ASSUME TypeInv, LockInv, ReadInv, IntentInv, CapInv, [Next]_vars
    PROVE  CapInv'
<1>t. audit \in Seq(AuditEvents)
  BY DEF TypeInv, TypeOK
<1>l. ASSUME audit' = audit
      PROVE  \A i \in Mutations : i \in Mutations' /\ audit'[i] = audit[i] /\ (Last(i) => Last(i)')
  BY <1>l, AuditStays DEF Last
<1>1. CASE UNCHANGED <<config, pending, audit, saved>>
  BY <1>1, <1>l, AuditStays DEF CapInv, Unrecorded
<1>2. CASE Clears
  BY <1>2, <1>l DEF Clears, CapInv, Unrecorded
<1>3. CASE Intending
  BY <1>3, <1>l DEF Intending, CapInv, Unrecorded
<1>4. CASE Saves
  BY <1>4, AuditStays DEF Saves, CapInv, Unrecorded
<1>5. CASE EditsConfig
  BY <1>5, <1>l, AuditStays DEF EditsConfig, CapInv, Unrecorded
<1>6. ASSUME NEW e \in AuditEvents, Records(e), (config.author = "controller")'
      PROVE  (\E i \in Mutations : Last(i) /\ audit[i].to = config.daily)'
  <2>1. PICK n \in Nat :
             /\ n \notin DOMAIN audit /\ \A i \in DOMAIN audit : i \in Nat /\ i < n
             /\ DOMAIN audit' = DOMAIN audit \cup {n}
             /\ audit'[n] = e /\ \A i \in DOMAIN audit : audit'[i] = audit[i]
             /\ Mutations' = Mutations \cup (IF e.action = "no_action" THEN {} ELSE {n})
    BY <1>t, <1>6, AuditGrows DEF Records
  <2>2. Mutations \subseteq DOMAIN audit /\ config' = config
    BY <1>6 DEF Mutations, Records
  <2>3. CASE e.action # "no_action"
    <3>1. e.to = config.daily
      BY <1>6, <2>3 DEF Records, Resolves
    <3>2. n \in Mutations' /\ \A j \in Mutations' : j <= n
      BY <2>1, <2>2, <2>3
    <3> QED BY <2>1, <2>2, <3>1, <3>2 DEF Last
  <2>4. CASE e.action = "no_action"
    <3>1. ~ (Unrecorded /\ pending.to = config.daily)
      BY <1>6, <2>4 DEF Records, Resolves, Unrecorded
    <3>2. PICK i \in Mutations : Last(i) /\ audit[i].to = config.daily
      BY <1>6, <2>2, <3>1 DEF CapInv
    <3>3. i \in Mutations' /\ (\A j \in Mutations' : j <= i) /\ audit'[i] = audit[i]
      BY <2>1, <2>2, <2>4, <3>2 DEF Last
    <3> QED BY <2>2, <3>2, <3>3 DEF Last
  <2> QED BY <2>3, <2>4
<1> QED BY <1>1, <1>2, <1>3, <1>4, <1>5, <1>6, StepEffects DEF CapInv

LEMMA StepAlone ==
    ASSUME TypeInv, LockInv, ReadInv, IntentInv, AloneInv, [Next]_vars
    PROVE  AloneInv'
<1>t. audit \in Seq(AuditEvents)
  BY DEF TypeInv, TypeOK
<1>1. CASE UNCHANGED <<config, pending, audit, saved>> /\ (edits' = 0 => edits = 0)
  BY <1>1, AuditStays DEF AloneInv, Unrecorded
<1>2. CASE Clears
  BY <1>2, AuditStays DEF Clears, AloneInv, Unrecorded
<1>3. CASE Intending
  BY <1>3, AuditStays DEF Intending, AloneInv, Unrecorded
<1>4. CASE Saves
  BY <1>4, AuditStays DEF Saves, AloneInv, Unrecorded
<1>5. CASE EditsConfig
  BY <1>5 DEF EditsConfig, AloneInv
<1>6. ASSUME NEW e \in AuditEvents, Records(e), edits' = 0
      PROVE  /\ ~ Unrecorded'
             /\ (\A i \in Moves : audit[i].tx \in saved)'
             /\ (\A tx \in saved : \E i \in Mutations : audit[i].tx = tx)'
  <2>1. PICK n \in Nat :
             /\ n \notin DOMAIN audit
             /\ DOMAIN audit' = DOMAIN audit \cup {n}
             /\ audit'[n] = e /\ \A i \in DOMAIN audit : audit'[i] = audit[i]
             /\ Txs' = Txs \cup {e.tx}
             /\ Mutations' = Mutations \cup (IF e.action = "no_action" THEN {} ELSE {n})
    BY <1>t, <1>6, AuditGrows DEF Records
  <2>2. /\ Mutations \subseteq DOMAIN audit /\ edits = 0 /\ saved' = saved /\ pending' = pending
        /\ \A i \in Moves : audit[i].tx \in saved
        /\ \A tx \in saved : (\E i \in Mutations : audit[i].tx = tx) \/ (Unrecorded /\ pending.tx = tx)
    BY <1>6 DEF Mutations, Records, AloneInv
  <2>3. ~ Unrecorded'
    BY <1>6, <2>1, <2>2 DEF Records, Resolves, Unrecorded
  <2>4. CASE e.action = "no_action"
    <3>1. Unrecorded => pending.tx \notin saved
      BY <1>6, <2>2, <2>4 DEF Records, Resolves, AloneInv, Unrecorded
    <3>2. Mutations' = Mutations /\ \A i \in Mutations : audit'[i] = audit[i]
      BY <2>1, <2>2, <2>4
    <3>3. Moves' = Moves
      BY <3>2 DEF Moves
    <3>4. \A i \in Moves : audit'[i] = audit[i]
      BY <3>2 DEF Moves
    <3> QED BY <2>2, <2>3, <3>1, <3>2, <3>3, <3>4
  <2>5. CASE e.action # "no_action"
    <3>1. /\ Unrecorded /\ e.tx = pending.tx
          /\ e.from # e.to => pending.tx \in saved
      BY <1>6, <2>2, <2>5 DEF Records, Resolves, AloneInv, Unrecorded
    <3>2. n \in Mutations' /\ \A i \in Mutations : i \in Mutations' /\ audit'[i] = audit[i]
      BY <2>1, <2>2, <2>5
    <3>3. \A i \in Moves' : i = n \/ (i \in Moves /\ audit'[i] = audit[i])
      BY <2>1, <2>2, <2>5 DEF Moves
    <3>4. n \in Moves' => e.from # e.to
      BY <2>1 DEF Moves
    <3>5. ASSUME NEW i \in Moves' PROVE audit'[i].tx \in saved
      <4>1. CASE i = n
        BY <2>1, <3>1, <3>4, <4>1
      <4>2. CASE i \in Moves /\ audit'[i] = audit[i]
        BY <2>2, <4>2
      <4> QED BY <3>3, <4>1, <4>2
    <3>6. ASSUME NEW tx \in saved PROVE \E i \in Mutations' : audit'[i].tx = tx
      <4>1. CASE \E i \in Mutations : audit[i].tx = tx
        BY <3>2, <4>1
      <4>2. CASE pending.tx = tx
        BY <2>1, <3>1, <3>2, <4>2
      <4> QED BY <2>2, <4>1, <4>2
    <3> QED BY <2>2, <2>3, <3>5, <3>6
  <2> QED BY <2>4, <2>5
<1> QED BY <1>1, <1>2, <1>3, <1>4, <1>5, <1>6, StepEffects DEF AloneInv
-----------------------------------------------------------------------------
(* The state file.                                                         *)

LEMMA AuditedStays ==
    ASSUME audit \in Seq(AuditEvents),
           audit' = audit \/ \E e \in AuditEvents : audit' = Append(audit, e)
    PROVE  \A s : Audited(s) => Audited(s)'
<1>1. CASE audit' = audit
  BY <1>1, AuditStays
<1>2. ASSUME NEW e \in AuditEvents, audit' = Append(audit, e)
      PROVE  \A s : Audited(s) => Audited(s)'
  <2>1. /\ \A i \in DOMAIN audit : audit'[i] = audit[i]
        /\ Mutations \subseteq Mutations' /\ Mutations \subseteq DOMAIN audit
    BY <1>2, AuditGrows DEF Mutations
  <2> QED BY <2>1 DEF Audited
<1> QED BY <1>1, <1>2

\* The events that do not touch what a state is judged by.
LEMMA StateKept ==
    ASSUME TypeInv, StateInv, UNCHANGED <<pending, audit, state>>
    PROVE  /\ ~ Unrecorded' /\ state' # None => Audited(state)'
           /\ pending' # None => Audited(pending.previous)'
  BY AuditStays DEF StateInv, Unrecorded

\* An event records the state that the run wrote.
LEMMA StateRecorded ==
    ASSUME TypeInv, LockInv, ReadInv, IntentInv, StateInv, NEW c \in Controllers,
           pc[c] \in {"recover_audit", "audit"}, audit' = Append(audit, Event(c)),
           UNCHANGED <<pending, state>>
    PROVE  /\ ~ Unrecorded' /\ state' # None => Audited(state)'
           /\ pending' # None => Audited(pending.previous)'
<1> DEFINE e == Event(c)
<1>1. /\ audit \in Seq(AuditEvents) /\ e \in AuditEvents
      /\ Resolves(e) \/ (pending = None /\ e.action = "no_action")
  BY EventResolves DEF TypeInv, TypeOK
<1>2. PICK n \in Nat :
        /\ audit'[n] = e
        /\ Mutations' = Mutations \cup (IF e.action = "no_action" THEN {} ELSE {n})
  BY <1>1, AuditGrows
<1>3. \A s : Audited(s) => Audited(s)'
  BY <1>1, AuditedStays
<1>4. pending' # None => Audited(pending.previous)'
  BY <1>3 DEF StateInv
<1>5. CASE pending = None
  BY <1>3, <1>5 DEF StateInv, Unrecorded
<1>6. CASE pending # None
  <2>1. Resolves(e)
    BY <1>1, <1>6
  <2>2. Matches(c) /\ Intends(c) /\ IntentOK(pending) /\ pending.action # "no_action"
    BY <1>6 DEF StateInv, IntentInv, TypeInv, TypeOK, Intents
  <2>3. CASE e.action = "no_action"
    <3>1. pc[c] = "recover_audit" /\ config.daily # pending.to
      <4>1. config.daily # pending.to
        BY <2>1, <2>2, <2>3 DEF Resolves
      <4>2. pc[c] = "audit" => ~ Mutates(c)
        BY <2>3 DEF Event, Mutates
      <4> QED BY <1>6, <2>2, <4>1, <4>2 DEF Intends
    <3>2. state = pending.previous
      BY <2>2, <3>1 DEF Matches
    <3> QED BY <1>3, <1>4, <1>6, <3>2 DEF StateInv
  <2>4. CASE e.action # "no_action"
    <3>1. /\ config.daily = pending.to /\ e.to = pending.to /\ e.policy = pending.policy
          /\ e.revision = pending.next.revision
      BY <2>1, <2>4 DEF Resolves
    <3>2. state = pending.next
      <4>1. CASE pc[c] = "recover_audit"
        BY <2>2, <3>1, <4>1 DEF Matches
      <4>2. CASE pc[c] = "audit"
        <5>1. Mutates(c)
          BY <2>4, <4>2 DEF Event, Mutates
        <5>2. pending.next = run[c].plan.next
          BY <2>2, <4>2, <5>1 DEF Intends, Carried, After
        <5> QED BY <2>2, <4>2, <5>2 DEF Matches
      <4> QED BY <4>1, <4>2
    <3>3. /\ n \in Mutations' /\ audit'[n].policy = state.policy
          /\ audit'[n].revision = state.revision /\ audit'[n].to = state.lastApplied
      BY <1>2, <2>2, <2>4, <3>1, <3>2 DEF IntentOK
    <3> QED BY <1>4, <3>3 DEF Audited
  <2> QED BY <2>3, <2>4
<1> QED BY <1>4, <1>5, <1>6

LEMMA StepStateFile ==
    ASSUME TypeInv, LockInv, ReadInv, IntentInv, StateInv, [Next]_vars
    PROVE  /\ ~ Unrecorded' /\ state' # None => Audited(state)'
           /\ pending' # None => Audited(pending.previous)'
<1> DEFINE Goal == /\ ~ Unrecorded' /\ state' # None => Audited(state)'
                   /\ pending' # None => Audited(pending.previous)'
<1>1. UNCHANGED <<pending, audit, state>> => Goal
  BY StateKept
<1>2. ASSUME NEW c \in Controllers, RecoverState(c)
      PROVE  Goal
  <2>1. Unrecorded /\ UNCHANGED <<pending, audit>>
    BY <1>2 DEF RecoverState, SetState, IntentInv, Intends, Unrecorded
  <2> QED BY <2>1, AuditStays DEF StateInv, Unrecorded
<1>3. ASSUME NEW c \in Controllers, WriteState(c)
      PROVE  Goal
  <2>1. pc[c] = "state" /\ state' = run[c].plan.next /\ UNCHANGED <<pending, audit>> /\ Intends(c)
    BY <1>3 DEF WriteState, SetState, IntentInv
  <2>2. CASE Mutates(c)
    <3>1. pending # None /\ pending.tx = run[c].token
      BY <2>1, <2>2 DEF Intends, After, Carried
    <3>2. Unrecorded
      BY <2>1, <3>1 DEF Intends, Unrecorded
    <3> QED BY <2>1, <3>2, AuditStays DEF StateInv, Unrecorded
  <2>3. CASE ~ Mutates(c)
    <3>1. run[c].plan.next = run[c].previous /\ Audited(run[c].previous)
      BY <2>1, <2>3, Typed DEF Deciding, PlanOK, Mutates, StateInv, Matches
    <3> QED BY <2>1, <3>1, AuditStays DEF StateInv
  <2> QED BY <2>2, <2>3
<1>4. ASSUME NEW c \in Controllers, ClearPending(c)
      PROVE  Goal
  <2>1. ~ Unrecorded /\ pending' = None /\ UNCHANGED <<audit, state>>
    BY <1>4 DEF ClearPending, IntentInv, Intends, Unrecorded
  <2> QED BY <2>1, AuditStays DEF StateInv
<1>5. ASSUME NEW c \in Controllers, WritePending(c)
      PROVE  Goal
  <2>1. /\ pending = None /\ pending'.previous = run[c].previous /\ Audited(run[c].previous)
        /\ UNCHANGED <<audit, state>>
    BY <1>5 DEF WritePending, IntentInv, Intends, StateInv, Matches, Deciding
  <2> QED BY <2>1, AuditStays DEF StateInv, Unrecorded
<1>6. ASSUME NEW c \in Controllers, AppendAudit(c) \/ CutAppend(c)
      PROVE  Goal
  <2>1. /\ pc[c] \in {"recover_audit", "audit"} /\ UNCHANGED <<pending, state>>
        /\ audit' = Append(audit, Event(c))
    BY <1>6 DEF AppendAudit, CutAppend, WriteLine
  <2> QED BY <2>1, StateRecorded
<1>7. \/ UNCHANGED <<pending, audit, state>>
      \/ \E c \in Controllers : \/ RecoverState(c) \/ WriteState(c) \/ ClearPending(c) \/ WritePending(c)
                               \/ AppendAudit(c) \/ CutAppend(c)
  <2>1. ASSUME NEW c \in Controllers, SaveConfig(c) PROVE UNCHANGED <<pending, audit, state>>
    BY <2>1 DEF SaveConfig, files
  <2>2. ASSUME NEW e \in Editors, EditPersist(e) \/ EditAcquire(e) PROVE UNCHANGED <<pending, audit, state>>
    BY <2>2 DEF EditPersist, EditAcquire, files
  <2> QED BY <2>1, <2>2, Writers
<1> HIDE DEF Goal
<1>8. Goal
  BY <1>1, <1>2, <1>3, <1>4, <1>5, <1>6, <1>7
<1> QED BY <1>8 DEF Goal

LEMMA OthersOff ==
    ASSUME TypeInv, LockInv, NEW c \in Controllers, RunNext(c)
    PROVE  \A d \in Controllers \ {c} : pc'[d] = "off"
<1>1. \A d \in Controllers \ {c} : pc[d] = "off"
  <2>1. CASE Start(c)
    <3>1. \A d \in Controllers : On(d) => controlLock = <<"run", runs>>
      BY DEF LockInv
    <3>2. <<"run", runs>> # None
      BY NoneAssumption DEF Tokens, TypeInv, TypeOK
    <3> QED BY <2>1, <3>1, <3>2 DEF Start, On
  <2>2. CASE On(c)
    BY <2>2, OneOn
  <2>3. Start(c) \/ On(c)
    BY DEF RunNext, On, Start, AcquireConfig, Load, Recover, RecoverState, AppendAudit, ClearPending, Plan,
           WritePending, SaveConfig, WriteState, ReleaseConfig, ReleaseControl, Fail, Crash, CutAppend,
           Durable
  <2> QED BY <2>1, <2>2, <2>3
<1>2. \A d \in Controllers \ {c} : pc'[d] = pc[d]
  BY DEF TypeInv, TypeOK, RunNext, Go, Throw, Start, AcquireConfig, Load, Recover, RecoverState,
         AppendAudit, ClearPending, Plan, WritePending, SaveConfig, WriteState, ReleaseConfig,
         ReleaseControl, Fail, Crash, CutAppend
<1> QED BY <1>1, <1>2

LEMMA StepMatchesRun ==
    ASSUME TypeInv, LockInv, ReadInv, IntentInv, StateInv, NEW c \in Controllers, RunNext(c)
    PROVE  \A d \in Controllers : Matches(d)'
<1>t. /\ run \in [Controllers -> Runs] /\ pc \in [Controllers -> Labels] /\ run[c] \in Runs
      /\ audit \in Seq(AuditEvents) /\ Matches(c) /\ Intends(c)
  BY DEF TypeInv, TypeOK, StateInv, IntentInv
<1>r. ASSUME pc'[c] \notin {"recover_audit"} \cup Deciding
      PROVE  Matches(c)'
  BY <1>r DEF Matches, Deciding
<1>1. ASSUME RecoverState(c)
      PROVE  Matches(c)'
  <2>1. /\ pc'[c] = "recover_audit" /\ UNCHANGED <<config, pending>>
        /\ state' = IF Completes(c) THEN pending.next ELSE pending.previous
    BY <1>1, <1>t DEF RecoverState, SetState, Go
  <2>2. pending.tx \notin Txs /\ Current(c) = config.daily
    BY <1>1, <1>t DEF RecoverState, Intends, ReadInv, LockInv, ApplyOnly, Reading, Recovering, After, Current
  <2>3. Completes(c) <=> config.daily = pending.to
    BY <2>2, RecordedTxs DEF Completes, resolve
  <2> QED BY <2>1, <2>3 DEF Matches, Deciding
<1>2. ASSUME Plan(c)
      PROVE  Matches(c)'
  <2>1. ASSUME Throw(c)
        PROVE  Matches(c)'
    <3>1. pc'[c] = "release_config"
      BY <1>t, <2>1 DEF Throw, Go
    <3> QED BY <1>r, <3>1 DEF Deciding
  <2>2. ASSUME NEW s \in States, NEW plan, NEW u \in Runs, PlansOn(c, s, plan, u)
        PROVE  Matches(c)'
    <3>1. pc'[c] \in {"state", "pending"} /\ run'[c].previous = s
      BY <1>t, <2>2 DEF PlansOn, Go
    <3>2. audit' = audit /\ pending = None
      BY <1>2, <1>t, <2>2 DEF Plan, files, Intends, PlansOn
    <3>3. Audited(s)
      BY <2>2, <3>2 DEF PlansOn, StateInv, Unrecorded, Audited
    <3> QED BY <3>1, <3>2, <3>3, AuditStays DEF Matches
  <2> QED BY <1>2, <2>1, <2>2, PlanStep
<1>3. ASSUME pc[c] \in Deciding, pc'[c] \in Deciding, run' = run,
             pc'[c] = "audit" => state' = run[c].plan.next,
             audit' = audit \/ (audit' = Append(audit, Event(c)) /\ pc[c] = "audit")
      PROVE  Matches(c)'
  <2>1. Audited(run[c].previous)
    BY <1>3, <1>t DEF Matches
  <2>2. audit' = audit \/ \E e \in AuditEvents : audit' = Append(audit, e)
    BY <1>3, EventResolves
  <2>3. Audited(run[c].previous)'
    BY <1>3, <1>t, <2>1, <2>2, AuditedStays
  <2> QED BY <1>3, <2>3 DEF Matches, Deciding
<1>4. ASSUME WritePending(c) \/ SaveConfig(c) \/ WriteState(c)
      PROVE  Matches(c)'
  <2>1. /\ pc[c] \in Deciding /\ run' = run /\ audit' = audit
        /\ pc'[c] \in {"save", "state", "audit", "release_config"}
        /\ pc'[c] = "audit" => state' = run[c].plan.next
    BY <1>4, <1>t DEF WritePending, SaveConfig, WriteState, SetState, Throw, Go, Deciding
  <2> QED BY <1>3, <1>r, <2>1 DEF Deciding
<1>5. ASSUME AppendAudit(c)
      PROVE  Matches(c)'
  <2>1. /\ pc[c] \in {"recover_audit", "audit"} /\ audit' = Append(audit, Event(c)) /\ run' = run
        /\ pc'[c] \in {"recover_clear", "release_config", "clear"}
        /\ pc'[c] = "clear" => pc[c] = "audit"
    BY <1>5, <1>t DEF AppendAudit, WriteLine, Go
  <2> QED BY <1>3, <1>r, <2>1 DEF Deciding
<1>6. ASSUME ~ (\/ RecoverState(c) \/ Plan(c) \/ WritePending(c) \/ SaveConfig(c) \/ WriteState(c)
               \/ AppendAudit(c))
      PROVE  Matches(c)'
  <2>1. pc'[c] \in {"off", "control", "load", "recover", "plan", "recover_state", "recover_clear",
                   "release_config", "release_control"}
    BY <1>6, <1>t DEF RunNext, Go, Throw, Start, AcquireConfig, Load, Recover, ClearPending, ReleaseConfig,
             ReleaseControl, Fail, Crash, CutAppend
  <2> QED BY <1>r, <2>1 DEF Deciding
<1>7. Matches(c)'
  BY <1>1, <1>2, <1>4, <1>5, <1>6
<1>8. \A d \in Controllers \ {c} : Matches(d)'
  BY OthersOff DEF Matches, Deciding
<1> QED BY <1>7, <1>8

LEMMA StepState ==
    ASSUME TypeInv, LockInv, ReadInv, IntentInv, StateInv, [Next]_vars
    PROVE  StateInv'
<1>1. ASSUME NEW c \in Controllers, RunNext(c)
      PROVE  \A d \in Controllers : Matches(d)'
  BY <1>1, StepMatchesRun
<1>2. ASSUME NEW e \in Editors, EditNext(e)
      PROVE  \A d \in Controllers : Matches(d)'
  <2>1. /\ UNCHANGED <<pc, run, pending, state, audit>>
        /\ config' = config \/ edit[e].at # "off"
    BY <1>2 DEF EditNext, EditAcquire, EditLoad, EditPersist, EditRelease, EditCrash, files
  <2>2. config' = config \/ \A c \in Controllers : pc[c] \notin Recovering
    <3>1. \A c \in Controllers : pc[c] \in Recovering => pc[c] \in Held /\ run[c].apply
      BY DEF LockInv, ApplyOnly, Held
    <3> QED BY <2>1, <3>1, OneHolder
  <2>3. \A s : Audited(s) => Audited(s)'
    BY <2>1, AuditStays
  <2>4. ASSUME NEW d \in Controllers PROVE Matches(d)'
    <3>1. Matches(d)
      BY DEF StateInv
    <3> QED BY <2>1, <2>2, <2>3, <3>1 DEF Matches, Recovering
  <2> QED BY <2>4
<1>3. ASSUME RemoveStaleLock \/ UNCHANGED vars
      PROVE  \A d \in Controllers : Matches(d)'
  <2>1. UNCHANGED <<config, pc, run, pending, state, audit>>
    BY <1>3 DEF RemoveStaleLock, vars, files
  <2>2. \A s : Audited(s) => Audited(s)'
    BY <2>1, AuditStays
  <2> QED BY <2>1, <2>2 DEF StateInv, Matches
<1>4. \A d \in Controllers : Matches(d)'
  BY <1>1, <1>2, <1>3 DEF Next
<1> QED BY <1>4, StepStateFile DEF StateInv
-----------------------------------------------------------------------------
(* Rollbacks are final.                                                    *)

LEMMA RollbacksGrow ==
    ASSUME audit \in Seq(AuditEvents), NEW e \in AuditEvents, audit' = Append(audit, e)
    PROVE  \E n \in Nat :
             /\ Len(audit) \in Nat /\ n = Len(audit) + 1 /\ Len(audit') = n
             /\ \A i \in DOMAIN audit : i \in Nat /\ i < n
             /\ audit'[n] = e /\ \A i \in DOMAIN audit : audit'[i] = audit[i]
             /\ Txs' = Txs \cup {e.tx}
             /\ Mutations' = Mutations \cup (IF e.action = "no_action" THEN {} ELSE {n})
             /\ Rollbacks' = Rollbacks \cup (IF e.action = "rollback_to_baseline" THEN {n} ELSE {})
<1>1. PICK n \in Nat :
        /\ Len(audit) \in Nat /\ n = Len(audit) + 1 /\ Len(audit') = n
        /\ n \notin DOMAIN audit /\ \A i \in DOMAIN audit : i \in Nat /\ i < n
        /\ DOMAIN audit' = DOMAIN audit \cup {n}
        /\ audit'[n] = e /\ \A i \in DOMAIN audit : audit'[i] = audit[i]
        /\ Txs' = Txs \cup {e.tx}
        /\ Mutations' = Mutations \cup (IF e.action = "no_action" THEN {} ELSE {n})
  BY AuditGrows
<1>2. Rollbacks' = Rollbacks \cup (IF e.action = "rollback_to_baseline" THEN {n} ELSE {})
  BY <1>1 DEF Rollbacks
<1> QED BY <1>1, <1>2

\* A rollback lives no longer than the state file stays.
LEMMA TerminalKept ==
    ASSUME audit' = audit, handovers \subseteq handovers'
    PROVE  /\ LiveRollbacks' \subseteq LiveRollbacks /\ Rollbacks' = Rollbacks
           /\ RearmedOnlyByHandover => RearmedOnlyByHandover'
           /\ \A p : Superseded(p) => Superseded(p)'
           /\ \A s : Terminal(s) => Terminal(s)'
<1>1. Rollbacks' = Rollbacks /\ Mutations' = Mutations
  BY AuditStays
<1>2. LiveRollbacks' \subseteq LiveRollbacks
  BY <1>1 DEF LiveRollbacks
<1>3. RearmedOnlyByHandover => RearmedOnlyByHandover'
  BY <1>1 DEF RearmedOnlyByHandover, Rearms
<1>4. \A p : Superseded(p) => Superseded(p)'
  BY <1>2 DEF Superseded
<1>5. \A s : Terminal(s) => Terminal(s)'
  BY <1>2 DEF Terminal
<1> QED BY <1>1, <1>2, <1>3, <1>4, <1>5

LEMMA VersionsTyped ==
    ASSUME TypeInv
    PROVE  /\ \A i \in DOMAIN audit : audit[i].policy \in Policies /\ audit[i].policy.version \in Nat
           /\ \A p \in Policies : p.version \in Nat
<1>1. \A p \in Policies : p.version \in Nat
  BY PolicyAssumption
<1>2. \A i \in DOMAIN audit : audit[i] \in AuditEvents
  BY DEF TypeInv, TypeOK
<1> QED BY <1>1, <1>2 DEF AuditEvents

\* What TerminalInv says of the files.
FilesTerminal ==
    /\ \A h \in handovers : h <= Len(audit)
    /\ Keeps /\ (state # None => Terminal(state))
    /\ Unrecorded => Superseded(pending.policy)
    /\ RearmedOnlyByHandover

\* The state file is written: it stays with its policy id, or no rollback is live.
LEMMA StateMoves ==
    ASSUME TypeInv, TerminalInv, NEW s \in States, SetState(s), Terminal(s)
    PROVE  FilesTerminal'
<1>1. /\ audit' = audit /\ pending' = pending /\ state' = s /\ s # None /\ handovers \subseteq handovers'
  BY NoneAssumption DEF SetState
<1>2. /\ Len(audit) \in Nat /\ handovers \subseteq Nat
      /\ \A i \in Rollbacks : i \in Nat /\ i <= Len(audit)
  BY LenProperties DEF TypeInv, TypeOK, Rollbacks
<1>3. \A h \in handovers' : h <= Len(audit')
  BY <1>1, <1>2 DEF SetState, TerminalInv
<1>4. Keeps'
  <2>1. CASE state # None /\ state.policy.id # s.policy.id
    <3>1. Len(audit) \in handovers'
      BY <2>1 DEF SetState
    <3>2. LiveRollbacks' = {}
      BY <1>1, <1>2, <3>1, TerminalKept DEF LiveRollbacks
    <3> QED BY <3>2 DEF Keeps
  <2>2. CASE ~ (state # None /\ state.policy.id # s.policy.id)
    <3>1. \A i \in LiveRollbacks' : i \in LiveRollbacks
      BY <1>1, TerminalKept
    <3> QED BY <1>1, <2>2, <3>1 DEF Keeps, TerminalInv
  <2> QED BY <2>1, <2>2
<1>5. Terminal(state)'
  <2>1. Terminal(s)'
    BY <1>1, TerminalKept
  <2> QED BY <1>1, <2>1 DEF Terminal
<1>6. Unrecorded' => Superseded(pending.policy)'
  BY <1>1, TerminalKept, AuditStays DEF TerminalInv, Unrecorded, Superseded
<1>7. RearmedOnlyByHandover'
  BY <1>1, TerminalKept DEF TerminalInv
<1> QED BY <1>3, <1>4, <1>5, <1>6, <1>7 DEF FilesTerminal

\* An event is appended: what it records had been allowed.
LEMMA TerminalRecorded ==
    ASSUME TypeInv, LockInv, ReadInv, IntentInv, StateInv, TerminalInv, NEW c \in Controllers,
           pc[c] \in {"recover_audit", "audit"}, audit' = Append(audit, Event(c)),
           UNCHANGED <<pending, state, handovers>>
    PROVE  FilesTerminal'
<1> DEFINE e == Event(c)
<1>1. /\ audit \in Seq(AuditEvents) /\ e \in AuditEvents
      /\ Resolves(e) \/ (pending = None /\ e.action = "no_action")
  BY EventResolves DEF TypeInv, TypeOK
<1>2. PICK n \in Nat :
        /\ Len(audit) \in Nat /\ n = Len(audit) + 1 /\ Len(audit') = n
        /\ \A i \in DOMAIN audit : i \in Nat /\ i < n
        /\ audit'[n] = e /\ \A i \in DOMAIN audit : audit'[i] = audit[i]
        /\ Txs' = Txs \cup {e.tx}
        /\ Mutations' = Mutations \cup (IF e.action = "no_action" THEN {} ELSE {n})
        /\ Rollbacks' = Rollbacks \cup (IF e.action = "rollback_to_baseline" THEN {n} ELSE {})
  BY <1>1, RollbacksGrow
<1> HIDE DEF e
<1>3. Mutations \subseteq DOMAIN audit /\ Rollbacks \subseteq DOMAIN audit
  BY DEF Mutations, Rollbacks
<1>4. ~ Unrecorded'
  BY <1>1, <1>2 DEF Resolves, Unrecorded
<1>h. /\ handovers' = handovers /\ state' = state
      /\ \A h \in handovers : h \in Nat /\ h <= Len(audit) /\ h < n
  BY <1>2 DEF TerminalInv, TypeInv, TypeOK
<1>l. /\ LiveRollbacks \subseteq Rollbacks
      /\ \A i \in LiveRollbacks' : i \in LiveRollbacks \/ (i = n /\ e.action = "rollback_to_baseline")
  BY <1>2, <1>h DEF LiveRollbacks
<1>5. CASE e.action = "no_action"
  <2>1. Mutations' = Mutations /\ \A i \in LiveRollbacks' : i \in LiveRollbacks /\ audit'[i] = audit[i]
    BY <1>2, <1>3, <1>5, <1>l
  <2>2. Keeps' /\ (state' # None => Terminal(state)')
    BY <1>h, <2>1 DEF TerminalInv, Keeps, Terminal
  <2>3. RearmedOnlyByHandover'
    <3>1. \A i \in Mutations : audit'[i] = audit[i]
      BY <1>2, <1>3
    <3> QED BY <1>h, <2>1, <3>1 DEF TerminalInv, RearmedOnlyByHandover, Rearms
  <2> QED BY <1>2, <1>4, <1>h, <2>2, <2>3 DEF FilesTerminal
<1>6. CASE e.action # "no_action"
  <2>1. /\ Unrecorded /\ e.policy = pending.policy /\ e.action = pending.action
        /\ config.daily = pending.to /\ Superseded(pending.policy)
    BY <1>1, <1>6 DEF Resolves, Unrecorded, TerminalInv
  <2>2. state = pending.next
    <3>1. Matches(c) /\ Intends(c)
      BY DEF StateInv, IntentInv
    <3>2. CASE pc[c] = "recover_audit"
      BY <2>1, <3>1, <3>2 DEF Matches
    <3>3. CASE pc[c] = "audit"
      <4>1. Mutates(c)
        BY <1>6, <3>3 DEF e, Event, Mutates
      <4>2. pending.next = run[c].plan.next
        BY <3>1, <3>3, <4>1 DEF Intends, Carried, After
      <4> QED BY <3>1, <3>3, <4>2 DEF Matches
    <3> QED BY <3>2, <3>3
  <2>3. /\ pending \in Intents /\ IntentOK(pending) /\ state # None
    BY <2>1, <2>2, NoneAssumption DEF TypeInv, TypeOK, Unrecorded, Intents
  <2>4. /\ state.policy = e.policy
        /\ e.action = "rollback_to_baseline" => state.phase = "rolled_back"
    BY <2>1, <2>2, <2>3 DEF IntentOK
  <2>5. \A i \in LiveRollbacks : /\ audit'[i] = audit[i] /\ state.policy.id = audit[i].policy.id
                                 /\ audit[i].policy.version < e.policy.version
    BY <1>2, <1>3, <1>l, <2>1, <2>4 DEF Superseded, TerminalInv, Keeps
  <2>6. Keeps'
    BY <1>2, <1>h, <1>l, <2>3, <2>4, <2>5 DEF Keeps
  <2>7. Terminal(state)'
    BY <1>2, <1>h, <1>l, <2>4, <2>5 DEF Terminal
  <2>8. RearmedOnlyByHandover'
    <3>1. SUFFICES ASSUME NEW i \in Mutations', NEW j \in Mutations', Rearms(i, j)'
                   PROVE  \E h \in handovers : i <= h /\ h < j
      BY <1>h DEF RearmedOnlyByHandover
    <3>2. /\ i < j /\ audit'[i].action = "rollback_to_baseline"
          /\ audit'[i].policy.id = audit'[j].policy.id
          /\ audit'[i].policy.version >= audit'[j].policy.version
      BY <3>1 DEF Rearms
    <3>3. i \in Mutations
      BY <1>2, <1>3, <3>2
    <3>4. i \in Rollbacks /\ i \in DOMAIN audit /\ i \in Nat /\ audit'[i] = audit[i]
      BY <1>2, <1>3, <3>2, <3>3 DEF Rollbacks
    <3>5. CASE j \in Mutations
      <4>1. audit'[j] = audit[j]
        BY <1>2, <1>3, <3>5
      <4>2. Rearms(i, j)
        BY <3>2, <3>4, <4>1 DEF Rearms
      <4> QED BY <3>3, <3>5, <4>2 DEF TerminalInv, RearmedOnlyByHandover
    <3>6. CASE j = n
      <4>1. audit[i].policy.version \in Nat /\ e.policy.version \in Nat
        BY <1>1, <3>4, VersionsTyped DEF AuditEvents
      <4>2. audit[i].policy.version >= e.policy.version
        BY <1>2, <3>2, <3>4, <3>6
      <4>3. i \notin LiveRollbacks
        BY <2>5, <4>1, <4>2
      <4>4. PICK h \in handovers : ~ (h < i)
        BY <3>4, <4>3 DEF LiveRollbacks
      <4> QED BY <1>h, <3>4, <3>6, <4>4
    <3> QED BY <1>2, <3>5, <3>6
  <2> QED BY <1>2, <1>4, <1>h, <2>6, <2>7, <2>8 DEF FilesTerminal
<1> QED BY <1>5, <1>6

LEMMA TerminalFiles ==
    ASSUME TerminalInv, UNCHANGED <<audit, state, handovers>>, Unrecorded' => Superseded(pending.policy)'
    PROVE  FilesTerminal'
<1>1. Keeps' /\ (state' # None => Terminal(state)')
  <2>1. LiveRollbacks' = LiveRollbacks
    BY AuditStays DEF LiveRollbacks
  <2> QED BY <2>1 DEF TerminalInv, Keeps, Terminal
<1> QED BY <1>1, TerminalKept DEF TerminalInv, FilesTerminal

LEMMA StepTerminalFile ==
    ASSUME TypeInv, LockInv, ReadInv, IntentInv, StateInv, TerminalInv, [Next]_vars
    PROVE  FilesTerminal'
<1>1. UNCHANGED <<pending, audit, state, handovers>> => FilesTerminal'
  BY TerminalFiles, TerminalKept, AuditStays DEF TerminalInv, Unrecorded, Superseded
<1>2. ASSUME NEW c \in Controllers, RecoverState(c)
      PROVE  FilesTerminal'
  <2> DEFINE s == IF Completes(c) THEN pending.next ELSE pending.previous
  <2>1. Unrecorded /\ SetState(s)
    BY <1>2 DEF RecoverState, IntentInv, Intends, Unrecorded
  <2>2. s \in States /\ s.policy = pending.policy
    BY <2>1 DEF TypeInv, TypeOK, Unrecorded, Intents, IntentOK
  <2> HIDE DEF s
  <2>3. Terminal(s)
    BY <2>1, <2>2 DEF TerminalInv, Terminal, Superseded
  <2> QED BY <2>1, <2>2, <2>3, StateMoves
<1>3. ASSUME NEW c \in Controllers, WriteState(c)
      PROVE  FilesTerminal'
  <2>1. SetState(run[c].plan.next) /\ Allowed(c) /\ PlanOK(run[c]) /\ pc[c] \in Deciding \ {"clear"}
    BY <1>3, Typed DEF WriteState, TerminalInv, Deciding
  <2>2. run[c].plan.next \in States /\ run[c].plan.next.policy = run[c].policy
    BY <2>1 DEF PlanOK, Plans
  <2>3. Terminal(run[c].plan.next)
    BY <2>1, <2>2 DEF Allowed, Terminal, Superseded
  <2> QED BY <2>1, <2>2, <2>3, StateMoves
<1>4. ASSUME NEW c \in Controllers, ClearPending(c)
      PROVE  FilesTerminal'
  BY <1>4, TerminalFiles DEF ClearPending, Unrecorded
<1>5. ASSUME NEW c \in Controllers, WritePending(c)
      PROVE  FilesTerminal'
  <2>1. Mutates(c) /\ Allowed(c)
    BY <1>5 DEF WritePending, IntentInv, Intends, TerminalInv
  <2>2. /\ Superseded(run[c].policy) /\ pending'.policy = run[c].policy
        /\ UNCHANGED <<audit, state, handovers>>
    BY <1>5, <2>1 DEF WritePending, Allowed, Deciding
  <2>3. Superseded(run[c].policy)' => Superseded(pending.policy)'
    BY <2>2, TerminalKept DEF Superseded
  <2> QED BY <2>2, <2>3, TerminalKept, TerminalFiles
<1>6. ASSUME NEW c \in Controllers, AppendAudit(c) \/ CutAppend(c)
      PROVE  FilesTerminal'
  <2>1. /\ pc[c] \in {"recover_audit", "audit"} /\ UNCHANGED <<pending, state, handovers>>
        /\ audit' = Append(audit, Event(c))
    BY <1>6 DEF AppendAudit, CutAppend, WriteLine
  <2> QED BY <2>1, TerminalRecorded
<1>7. \/ UNCHANGED <<pending, audit, state, handovers>>
      \/ \E c \in Controllers : \/ RecoverState(c) \/ WriteState(c) \/ ClearPending(c) \/ WritePending(c)
                               \/ AppendAudit(c) \/ CutAppend(c)
  <2>1. ASSUME NEW c \in Controllers, SaveConfig(c) PROVE UNCHANGED <<pending, audit, state, handovers>>
    BY <2>1 DEF SaveConfig
  <2>2. ASSUME NEW e \in Editors, EditPersist(e) \/ EditAcquire(e)
        PROVE  UNCHANGED <<pending, audit, state, handovers>>
    BY <2>2 DEF EditPersist, EditAcquire, files
  <2> QED BY <2>1, <2>2, Writers
<1> QED BY <1>1, <1>2, <1>3, <1>4, <1>5, <1>6, <1>7

LEMMA StepAllowedRun ==
    ASSUME TypeInv, LockInv, IntentInv, TerminalInv, NEW c \in Controllers, RunNext(c)
    PROVE  \A d \in Controllers : Allowed(d)'
<1>t. /\ run \in [Controllers -> Runs] /\ pc \in [Controllers -> Labels] /\ run[c] \in Runs
      /\ Allowed(c) /\ Intends(c)
  BY DEF TypeInv, TypeOK, TerminalInv, IntentInv
<1>r. ASSUME pc'[c] \notin Deciding \ {"clear"}
      PROVE  Allowed(c)'
  BY <1>r DEF Allowed
<1>1. ASSUME Plan(c)
      PROVE  Allowed(c)'
  <2>1. ASSUME Throw(c)
        PROVE  Allowed(c)'
    <3>1. pc'[c] = "release_config"
      BY <1>t, <2>1 DEF Throw, Go
    <3> QED BY <1>r, <3>1 DEF Deciding
  <2>2. ASSUME NEW s \in States, NEW plan, NEW u \in Runs, PlansOn(c, s, plan, u)
        PROVE  Allowed(c)'
    <3>1. /\ run'[c].plan = plan /\ run'[c].policy = s.policy /\ s.policy \in Policies
          /\ PlanFacts(s.policy, s, plan)
      BY <1>t, <2>2 DEF PlansOn, States
    <3>2. audit' = audit /\ handovers \subseteq handovers'
      BY <1>1, PlanLeaves DEF files
    <3>3. CASE s = state /\ state # None
      <4>1. Terminal(s)
        BY <3>3 DEF TerminalInv
      <4>2. plan.action # "no_action" => Superseded(s.policy)
        BY <3>1, <4>1 DEF PlanFacts, Terminal, Superseded
      <4>3. plan.action = "no_action" => Terminal(plan.next)
        BY <3>1, <4>1 DEF PlanFacts
      <4> QED BY <3>1, <3>2, <4>2, <4>3, TerminalKept DEF Allowed, Mutates
    <3>4. CASE state # None => ~ (state.policy.id = s.policy.id /\ state.policy.version >= s.policy.version)
      <4>1. Superseded(s.policy)
        <5>1. SUFFICES ASSUME NEW i \in LiveRollbacks, s.policy.id = audit[i].policy.id
                       PROVE  audit[i].policy.version < s.policy.version
          BY DEF Superseded
        <5>2. state # None /\ state.policy.id = audit[i].policy.id /\ Terminal(state)
          BY DEF TerminalInv, Keeps
        <5>3. /\ state.policy \in Policies /\ state.policy.version \in Nat
              /\ audit[i].policy.version \in Nat /\ s.policy.version \in Nat
          BY <3>1, <5>2, VersionsTyped DEF TypeInv, TypeOK, States, LiveRollbacks, Rollbacks
        <5>4. state.policy.version < s.policy.version
          BY <3>4, <5>1, <5>2, <5>3
        <5>5. audit[i].policy.version <= state.policy.version
          BY <5>2, <5>3 DEF Terminal
        <5> QED BY <5>3, <5>4, <5>5
      <4>2. plan.next.policy = s.policy
        BY <3>1 DEF PlanFacts
      <4>3. Terminal(plan.next)
        BY <4>1, <4>2 DEF Terminal, Superseded
      <4> QED BY <3>1, <3>2, <4>1, <4>3, TerminalKept DEF Allowed, Mutates
    <3> QED BY <2>2, <3>3, <3>4 DEF PlansOn
  <2> QED BY <1>1, <2>1, <2>2, PlanStep
<1>2. ASSUME WritePending(c) \/ SaveConfig(c) \/ WriteState(c)
      PROVE  Allowed(c)'
  <2>1. /\ pc[c] \in Deciding \ {"clear"} /\ run' = run /\ audit' = audit
        /\ handovers \subseteq handovers'
    BY <1>2 DEF WritePending, SaveConfig, WriteState, SetState, Deciding
  <2>2. IF Mutates(c) THEN Superseded(run[c].policy) ELSE Terminal(run[c].plan.next)
    BY <1>t, <2>1 DEF Allowed
  <2> QED BY <2>1, <2>2, TerminalKept DEF Allowed, Mutates
<1>3. ASSUME ~ (Plan(c) \/ WritePending(c) \/ SaveConfig(c) \/ WriteState(c))
      PROVE  Allowed(c)'
  <2>1. pc'[c] \in {"off", "control", "load", "recover", "plan", "recover_state", "recover_audit",
                   "recover_clear", "release_config", "release_control", "clear"}
    BY <1>3, <1>t DEF RunNext, Go, Throw, Start, AcquireConfig, Load, Recover, RecoverState, AppendAudit,
             ClearPending, ReleaseConfig, ReleaseControl, Fail, Crash, CutAppend
  <2> QED BY <1>r, <2>1 DEF Deciding
<1>4. \A d \in Controllers \ {c} : Allowed(d)'
  BY OthersOff DEF Allowed, Deciding
<1>5. Allowed(c)'
  BY <1>1, <1>2, <1>3
<1> QED BY <1>4, <1>5

LEMMA StepTerminal ==
    ASSUME TypeInv, LockInv, ReadInv, IntentInv, StateInv, TerminalInv, [Next]_vars
    PROVE  TerminalInv'
<1>1. ASSUME NEW c \in Controllers, RunNext(c)
      PROVE  \A d \in Controllers : Allowed(d)'
  BY <1>1, StepAllowedRun
<1>2. ASSUME UNCHANGED <<pc, run, audit, handovers>>
      PROVE  \A d \in Controllers : Allowed(d)'
  BY <1>2, TerminalKept DEF TerminalInv, Allowed, Mutates
<1>3. \/ \E c \in Controllers : RunNext(c)
      \/ UNCHANGED <<pc, run, audit, handovers>>
  BY DEF Next, EditNext, EditAcquire, EditLoad, EditPersist, EditRelease, EditCrash, RemoveStaleLock, vars,
         files
<1>4. \A d \in Controllers : Allowed(d)'
  BY <1>1, <1>2, <1>3
<1> QED BY <1>4, StepTerminalFile DEF TerminalInv, FilesTerminal
-----------------------------------------------------------------------------
IInv == TypeInv /\ LockInv /\ ReadInv /\ IntentInv

LEMMA Inductive ==
    ASSUME IInv, [Next]_vars
    PROVE  IInv'
<1> USE DEF IInv
<1>1. ASSUME NEW c \in Controllers, RunNext(c)
      PROVE  IInv'
  BY <1>1, StepTypeRun, StepLocksRun, StepReadsRun, StepIntentsRun
<1>2. ASSUME NEW e \in Editors, EditNext(e)
      PROVE  IInv'
  BY <1>2, StepTypeEdit, StepLocksEdit, StepReadsEdit, StepIntentsEdit
<1>3. CASE RemoveStaleLock \/ UNCHANGED vars
  BY <1>3, StepTypeOther, StepLocksOther, StepReadsOther, StepIntentsOther
<1> QED BY <1>1, <1>2, <1>3 DEF Next

LEMMA Always == Spec => []IInv
<1>1. Init => IInv
  BY InitType, InitLocks, InitIntents DEF IInv
<1>2. IInv /\ [Next]_vars => IInv'
  BY Inductive
<1> QED BY <1>1, <1>2, PTL DEF Spec

\* The variables keep their types: a run acts only on what it has read, and a
\* recovery only on a complete intent (cmdBudgetControl, recoverPending).
THEOREM TypeCorrect == Spec => []TypeOK
<1>1. IInv => TypeOK
  BY DEF IInv, TypeInv
<1> QED BY <1>1, Always, PTL

\* config.ts: "Atomic Segreant read-modify-write transaction": no writer of the
\* configuration, saveConfigWithLock or mutateConfig, overwrites a change an
\* editor made after the writer read the file.
THEOREM UpdatesKept == Spec => NoLostUpdate
<1>1. IInv /\ [Next]_vars => [config'.edits >= config.edits]_vars
  BY UpdateSafe DEF IInv
<1> QED BY <1>1, Always, PTL DEF Spec, NoLostUpdate

\* The write-ahead intent comes first: whatever died or failed, a cap the controller
\* saved is in the audit or still pending, while both can be read.
THEOREM SaveAccounted == Spec => []EverySaveAccounted
<1>1. Init => SavedInv
  BY DEF Init, SavedInv
<1>2. IInv /\ SavedInv /\ [Next]_vars => SavedInv'
  BY StepSaved DEF IInv
<1>3. SavedInv => EverySaveAccounted
  BY RecordedTxs DEF SavedInv, EverySaveAccounted
<1> QED BY <1>1, <1>2, <1>3, Always, PTL DEF Spec

\* While no mutation is pending, a cap the controller set is the one its last audited
\* mutation names, if the audit can be read.
THEOREM CapExplained == Spec => []AuditExplainsCap
<1>1. Init => CapInv
  BY DEF Init, CapInv
<1>2. IInv /\ CapInv /\ [Next]_vars => CapInv'
  BY StepCap DEF IInv
<1>3. IInv /\ CapInv => AuditExplainsCap
  <2> SUFFICES ASSUME IInv, CapInv, pending = None, config.author = "controller"
               PROVE  Mutations # {} /\ audit[LastMutation].to = config.daily
    BY DEF AuditExplainsCap
  <2>1. PICK i \in Mutations : (\A j \in Mutations : j <= i) /\ audit[i].to = config.daily
    BY DEF CapInv, Unrecorded, Last
  <2>2. Mutations \subseteq Nat
    BY LenProperties DEF Mutations, IInv, TypeInv, TypeOK
  <2>3. LastMutation = i
    BY <2>1, <2>2 DEF LastMutation
  <2> QED BY <2>1, <2>3
<1> QED BY <1>1, <1>2, <1>3, Always, PTL DEF Spec

\* A state file that parses and says the controller acted was reached by an audited mutation of
\* that policy, with that revision and cap: no crash leaves a state ahead of the audit.
THEOREM RevisionAudited == Spec => []EveryRevisionAudited
<1>1. Init => StateInv
  BY DEF Init, StateInv, Matches, Unrecorded, Deciding
<1>2. IInv /\ StateInv /\ [Next]_vars => StateInv'
  BY StepState DEF IInv
<1>3. StateInv => EveryRevisionAudited
  BY DEF StateInv, EveryRevisionAudited, Audited, Unrecorded
<1> QED BY <1>1, <1>2, <1>3, Always, PTL DEF Spec

\* While nobody edits the configuration, recovery's inference is right: the caps the
\* audit says the controller moved are the caps it saved, and it names them all.
THEOREM AloneProves == Spec => []RecoveryProvesAlone
<1>1. Init => AloneInv
  BY DEF Init, AloneInv, Unrecorded, Moves, Mutations
<1>2. IInv /\ AloneInv /\ [Next]_vars => AloneInv'
  BY StepAlone DEF IInv
<1>3. AloneInv => RecoveryProvesAlone
  BY DEF AloneInv, RecoveryProvesAlone, RecoveryProves, Unrecorded
<1> QED BY <1>1, <1>2, <1>3, Always, PTL DEF Spec

\* onlineControl.ts: "The same exact policy never re-arms itself: rolled_back remains
\* terminal": whatever policies the operator has, nothing is applied under a policy after
\* its rollback, nor under an older or reused version of it, unless the one state file
\* passed to a policy with another id in between.
THEOREM StaysRolledBack == Spec => []RearmedOnlyByHandover
<1>1. Init => StateInv /\ TerminalInv
  <2>1. Init => StateInv
    BY DEF Init, StateInv, Matches, Unrecorded, Deciding
  <2>2. Init => LiveRollbacks = {} /\ Mutations = {}
    BY DEF Init, LiveRollbacks, Rollbacks, Mutations
  <2>3. Init => TerminalInv
    BY <2>2 DEF Init, TerminalInv, Keeps, Terminal, Unrecorded, Allowed, Deciding, RearmedOnlyByHandover
  <2> QED BY <2>1, <2>3
<1>2. IInv /\ StateInv /\ TerminalInv /\ [Next]_vars => StateInv' /\ TerminalInv'
  BY StepState, StepTerminal DEF IInv
<1>3. TerminalInv => RearmedOnlyByHandover
  BY DEF TerminalInv
<1> QED BY <1>1, <1>2, <1>3, Always, PTL DEF Spec
=============================================================================
