--------------------------- MODULE Metering_proofs ---------------------------
(***************************************************************************)
(* Theorems about the metering proxy, for any number of requests, imported *)
(* rows, costs, days, faults, restarts and settings.  Types; what is on    *)
(* the books when a request is admitted; and the budget: an admission is   *)
(* decided on the total of what had ended by then, so what a cap is later  *)
(* exceeded by was in flight beside the last admission.                    *)
(* Then about the cache it reads that total from, whatever other           *)
(* processes commit and wherever: what a quiet read returns is not short   *)
(* unless a VACUUM fell inside a read the entry is from, and it is exact   *)
(* if the entry was put together undisturbed.                              *)
(***************************************************************************)
EXTENDS ProxyMetering, SpendCache, FiniteInduction

-----------------------------------------------------------------------------
(* Types. *)

\* The stages a request does not leave.
Over == {"dismissed", "blocked", "failed", "delivered", "broken", "gone"}

RowsTyped ==
    /\ rows \in [Requests \cup Imports -> RowType \cup {None}]
    /\ \A x \in Requests \cup Imports : rows[x] # None => rows[x].ts <= now /\ rows[x].cost \in Costs \cup {0}

(* A proxied row is the request's own, and is there only once it ended. *)
RowsOwned ==
    \A r \in Requests : rows[r] # None =>
        /\ rows[r].ts = startedAt[r]
        /\ admitted[r] # None \/ rows[r].cost = 0
        /\ stage[r] \in Over

AdmissionsTyped ==
    /\ admitted \in [Requests -> Admission \cup {None}]
    /\ \A r \in Requests : admitted[r] # None =>
          /\ startedAt[r] <= admitted[r].at /\ admitted[r].at <= now
          /\ stage[r] \notin {"new", "reading"}
    /\ \A r \in Requests : stage[r] \in {"dialing", "receiving"} => admitted[r] # None

TypeInv ==
    /\ now \in 0 .. MaxTime
    /\ config \in Configs
    /\ stage \in [Requests -> Stages]
    /\ startedAt \in [Requests -> 0 .. now]
    /\ latch \in BOOLEAN
    /\ faults \in 0 .. MaxFaults /\ edits \in 0 .. MaxEdits /\ restarts \in 0 .. MaxRestarts
    /\ ended \in [Requests -> SUBSET Requests]
    /\ RowsTyped /\ RowsOwned /\ AdmissionsTyped

(* What the operations that end a request have in common: it had not ended, *)
(* and either its row is written or the latch is set.                       *)
Ends(r, s, row) ==
    /\ stage[r] \in {"reading", "dialing", "receiving"} /\ s \in {"blocked", "failed", "delivered"}
    /\ stage' = [stage EXCEPT ![r] = s]
    /\ row \in RowType /\ row.ts = startedAt[r] /\ row.cost \in Costs \cup {0}
    /\ admitted[r] # None \/ row.cost = 0
    /\ \/ rows' = [rows EXCEPT ![r] = row] /\ (latch' = latch \/ latch' = TRUE)
       \/ rows' = rows /\ latch' = TRUE
    /\ faults' \in 0 .. MaxFaults
    /\ UNCHANGED <<now, config, startedAt, edits, restarts, admitted, ended>>

\* The row of a request is a row with its start and its cost.
LEMMA RowTyped ==
    ASSUME TypeInv, NEW r \in Requests, NEW c \in Costs \cup {0}, NEW p \in BOOLEAN, NEW e \in BOOLEAN
    PROVE  /\ Row(r, c, p, e) \in RowType /\ Row(r, c, p, e).ts = startedAt[r]
           /\ Row(r, c, p, e).cost = c /\ Row(r, c, p, e) # None
<1>1. startedAt[r] \in Nat
  <2>1. startedAt \in [Requests -> 0 .. now] /\ now \in 0 .. MaxTime
    BY DEF TypeInv
  <2> QED BY <2>1
<1>2. c \in Nat
  BY CostsAssumption
<1> QED BY <1>1, <1>2, NamesAssumption DEF Row, RowType

\* Logging writes the row or sets the latch, or both.
LEMMA Logged ==
    ASSUME TypeInv, NEW r \in Requests, NEW row, safeLog(r, row)
    PROVE  /\ \/ rows' = [rows EXCEPT ![r] = row] /\ (latch' = latch \/ latch' = TRUE)
              \/ rows' = rows /\ latch' = TRUE
           /\ faults' \in 0 .. MaxFaults
<1>1. faults \in 0 .. MaxFaults /\ MaxFaults \in Nat
  BY TimeAssumption DEF TypeInv
<1>2. Fault => faults' \in 0 .. MaxFaults
  BY <1>1 DEF Fault
<1> QED BY <1>1, <1>2, Zenon DEF safeLog

\* The operations that end a request with a row to log.
LEMMA EndsWhole ==
    ASSUME TypeInv, NEW r \in Requests,
           Block(r) \/ GuardFails(r) \/ UpstreamFails(r) \/ Complete(r) \/ Overflow(r)
    PROVE  \E s, row : Ends(r, s, row)
<1>0. 0 \in Costs \cup {0} /\ TRUE \in BOOLEAN /\ FALSE \in BOOLEAN
  OBVIOUS
<1>z. /\ ZeroRow(r) \in RowType /\ ZeroRow(r).ts = startedAt[r] /\ ZeroRow(r).cost = 0
  BY <1>0, RowTyped DEF ZeroRow
<1>f. faults \in 0 .. MaxFaults /\ MaxFaults \in Nat
  BY TimeAssumption DEF TypeInv
<1>1. CASE Block(r)
  <2>1. Ends(r, "blocked", ZeroRow(r))
    BY <1>1, <1>z, Logged DEF Block, To, Ends, ghostVars
  <2> QED BY <2>1
<1>2. CASE GuardFails(r)
  <2>1. faults' \in 0 .. MaxFaults
    BY <1>2, <1>f DEF GuardFails, Fault
  <2>2. Ends(r, "blocked", ZeroRow(r))
    BY <1>2, <1>z, <2>1 DEF GuardFails, To, Ends, ghostVars
  <2> QED BY <2>2
<1>3. CASE UpstreamFails(r)
  <2>1. Ends(r, "failed", ZeroRow(r))
    BY <1>3, <1>z, Logged DEF UpstreamFails, To, Ends, ghostVars
  <2> QED BY <2>1
<1>4. CASE Complete(r)
  <2>1. PICK c \in Costs, p \in Pricings : safeLog(r, Row(r, c, p[1], p[2]))
    BY <1>4 DEF Complete
  <2>2. p[1] \in BOOLEAN /\ p[2] \in BOOLEAN
    BY CostsAssumption
  <2> DEFINE row == Row(r, c, p[1], p[2])
  <2>3. row \in RowType /\ row.ts = startedAt[r] /\ row.cost = c
    BY <2>2, RowTyped
  <2>4. admitted[r] # None
    BY <1>4 DEF Complete, TypeInv, AdmissionsTyped
  <2>5. safeLog(r, row)
    BY <2>1
  <2> HIDE DEF row
  <2>6. Ends(r, "delivered", row)
    BY <1>4, <2>3, <2>4, <2>5, Logged DEF Complete, To, Ends, ghostVars
  <2> QED BY <2>6
<1>5. CASE Overflow(r)
  <2> DEFINE row == Row(r, 0, FALSE, TRUE)
  <2>3. row \in RowType /\ row.ts = startedAt[r] /\ row.cost = 0
    BY <1>0, RowTyped
  <2>5. safeLog(r, row)
    BY <1>5 DEF Overflow
  <2> HIDE DEF row
  <2>6. Ends(r, "failed", row)
    BY <1>5, <2>3, <2>5, Logged DEF Overflow, To, Ends, ghostVars
  <2> QED BY <2>6
<1> QED BY <1>1, <1>2, <1>3, <1>4, <1>5

\* Such an end keeps the types.
LEMMA EndsTyped ==
    ASSUME TypeInv, NEW r \in Requests, NEW s, NEW row, Ends(r, s, row) PROVE TypeInv'
<1>t. /\ stage \in [Requests -> Stages] /\ rows \in [Requests \cup Imports -> RowType \cup {None}]
      /\ latch \in BOOLEAN /\ startedAt \in [Requests -> 0 .. now] /\ now \in 0 .. MaxTime
  BY DEF TypeInv, RowsTyped
<1>0. /\ \A x \in Requests : stage'[x] = IF x = r THEN s ELSE stage[x]
      /\ stage' \in [Requests -> Stages] /\ s \in Over /\ stage[r] \notin Over
      /\ s \notin {"new", "reading", "dialing", "receiving"}
  BY <1>t DEF Ends, Stages, Over
<1>1. /\ \A x \in (Requests \cup Imports) \ {r} : rows'[x] = rows[x]
      /\ rows'[r] \in {rows[r], row} /\ rows' \in [Requests \cup Imports -> RowType \cup {None}]
  BY <1>t DEF Ends
<1>2. row.ts = startedAt[r] /\ row.cost \in Costs \cup {0} /\ (admitted[r] # None \/ row.cost = 0)
  BY DEF Ends
<1>3. startedAt[r] <= now
  BY <1>t
<1>4. UNCHANGED <<now, config, startedAt, edits, restarts, admitted, ended>>
  BY DEF Ends
<1>5. RowsTyped'
  <2>1. ASSUME NEW x \in Requests \cup Imports, rows'[x] # None
        PROVE  rows'[x].ts <= now /\ rows'[x].cost \in Costs \cup {0}
    <3>1. CASE rows'[x] = rows[x]
      BY <2>1, <3>1 DEF TypeInv, RowsTyped
    <3>2. CASE rows'[x] = row
      BY <3>2, <1>2, <1>3
    <3> QED BY <1>1, <3>1, <3>2
  <2> QED BY <2>1, <1>1, <1>4 DEF RowsTyped
<1>6. RowsOwned'
  <2>1. ASSUME NEW x \in Requests, rows'[x] # None
        PROVE  rows'[x].ts = startedAt[x] /\ (admitted[x] # None \/ rows'[x].cost = 0) /\ stage'[x] \in Over
    <3>1. CASE x # r
      BY <2>1, <3>1, <1>0, <1>1 DEF TypeInv, RowsOwned
    <3>2. CASE x = r
      <4>1. rows[r] = None
        BY <1>0 DEF TypeInv, RowsOwned
      <4>2. rows'[r] = row
        BY <2>1, <3>2, <4>1, <1>1
      <4> QED BY <4>2, <3>2, <1>0, <1>2
    <3> QED BY <3>1, <3>2
  <2> QED BY <2>1, <1>4 DEF RowsOwned
<1>7. AdmissionsTyped'
  BY <1>0, <1>4 DEF TypeInv, AdmissionsTyped
<1>8. latch' \in BOOLEAN /\ faults' \in 0 .. MaxFaults
  BY <1>t DEF Ends
<1> QED BY <1>0, <1>4, <1>5, <1>6, <1>7, <1>8 DEF TypeInv

LEMMA TypeInit == Init => TypeInv
<1> SUFFICES ASSUME Init PROVE TypeInv
  OBVIOUS
<1>1. /\ rows = [x \in Requests \cup Imports |-> None] /\ admitted = [r \in Requests |-> None]
      /\ stage = [r \in Requests |-> "new"] /\ startedAt = [r \in Requests |-> 0]
      /\ ended = [r \in Requests |-> {}] /\ now = 0
  BY DEF Init
<1>2. RowsTyped /\ RowsOwned /\ AdmissionsTyped
  BY <1>1 DEF RowsTyped, RowsOwned, AdmissionsTyped
<1>3. stage \in [Requests -> Stages] /\ startedAt \in [Requests -> 0 .. now] /\ ended \in [Requests -> SUBSET Requests]
  BY <1>1 DEF Stages
<1>4. 0 \in 0 .. MaxTime /\ 0 \in 0 .. MaxFaults /\ 0 \in 0 .. MaxEdits /\ 0 \in 0 .. MaxRestarts
  <2>1. MaxTime \in Nat /\ MaxFaults \in Nat /\ MaxEdits \in Nat /\ MaxRestarts \in Nat
    BY TimeAssumption
  <2> QED BY <2>1
<1>5. /\ now \in 0 .. MaxTime /\ faults \in 0 .. MaxFaults /\ edits \in 0 .. MaxEdits
      /\ restarts \in 0 .. MaxRestarts /\ latch \in BOOLEAN /\ config \in Configs
  BY <1>4, Zenon DEF Init
<1> QED BY <1>2, <1>3, <1>5, Zenon DEF TypeInv

LEMMA FinishedAre == Finished \in SUBSET Requests /\ InFlight \in SUBSET Requests
  BY DEF Finished, InFlight

\* What an admission notes down.
LEMMA AdmissionTyped ==
    ASSUME TypeInv
    PROVE  [at |-> now, turn |-> Cardinality({x \in Requests : admitted[x] # None}), beside |-> InFlight] \in Admission
<1>1. {x \in Requests : admitted[x] # None} \in SUBSET Requests
  OBVIOUS
<1>2. Cardinality({x \in Requests : admitted[x] # None}) \in Nat
  BY <1>1, NamesAssumption, SubsetFinite, FS_CardinalityType
<1>3. now \in Nat
  BY TimeAssumption DEF TypeInv
<1> QED BY <1>2, <1>3, FinishedAre DEF Admission

LEMMA TypeNext == TypeInv /\ [Next]_vars => TypeInv'
<1> SUFFICES ASSUME TypeInv, [Next]_vars PROVE TypeInv'
  OBVIOUS
<1>t. /\ stage \in [Requests -> Stages] /\ rows \in [Requests \cup Imports -> RowType \cup {None}]
      /\ latch \in BOOLEAN /\ startedAt \in [Requests -> 0 .. now] /\ now \in 0 .. MaxTime
      /\ ended \in [Requests -> SUBSET Requests] /\ admitted \in [Requests -> Admission \cup {None}]
      /\ faults \in 0 .. MaxFaults /\ edits \in 0 .. MaxEdits /\ restarts \in 0 .. MaxRestarts
      /\ config \in Configs
  BY DEF TypeInv, RowsTyped, AdmissionsTyped
<1>i. RowsTyped /\ RowsOwned /\ AdmissionsTyped
  BY DEF TypeInv
<1>n. {MaxTime, MaxFaults, MaxEdits, MaxRestarts} \subseteq Nat
  BY TimeAssumption
<1>1. ASSUME NEW r \in Requests, Arrive(r) PROVE TypeInv'
  <2>1. /\ stage' = [stage EXCEPT ![r] = IF latch THEN "dismissed" ELSE "reading"]
        /\ startedAt' = [startedAt EXCEPT ![r] = now] /\ ended' = [ended EXCEPT ![r] = Finished]
        /\ stage[r] = "new"
        /\ UNCHANGED <<now, config, rows, latch, faults, edits, restarts, admitted>>
    BY <1>1 DEF Arrive, To, boundVars
  <2>2. /\ stage' \in [Requests -> Stages] /\ stage'[r] \in {"dismissed", "reading"}
        /\ \A x \in Requests : x # r => stage'[x] = stage[x]
    BY <2>1, <1>t DEF Stages
  <2>3. /\ startedAt' \in [Requests -> 0 .. now] /\ startedAt'[r] = now
        /\ \A x \in Requests : x # r => startedAt'[x] = startedAt[x]
    BY <2>1, <1>t
  <2>4. ended' \in [Requests -> SUBSET Requests]
    BY <2>1, <1>t, FinishedAre
  <2>5. rows[r] = None /\ admitted[r] = None
    BY <2>1, <1>i DEF RowsOwned, AdmissionsTyped, Over
  <2>6. RowsTyped'
    BY <2>1, <1>i DEF RowsTyped
  <2>7. RowsOwned'
    BY <2>1, <2>2, <2>3, <2>5, <1>i DEF RowsOwned
  <2>8. AdmissionsTyped'
    BY <2>1, <2>2, <2>3, <2>5, <1>i DEF AdmissionsTyped
  <2>9. startedAt' \in [Requests -> 0 .. now']
    BY <2>1, <2>3
  <2>10. /\ now' \in 0 .. MaxTime /\ config' \in Configs /\ latch' \in BOOLEAN
         /\ faults' \in 0 .. MaxFaults /\ edits' \in 0 .. MaxEdits /\ restarts' \in 0 .. MaxRestarts
    BY <2>1, <1>t
  <2>11. stage' \in [Requests -> Stages]
    BY <2>2
  <2> QED BY <2>4, <2>6, <2>7, <2>8, <2>9, <2>10, <2>11, Zenon DEF TypeInv
<1>2. ASSUME NEW r \in Requests, NEW s \in {"dismissed", "receiving", "broken"},
             stage[r] \in {"reading", "dialing", "receiving"}, s = "dismissed" \/ stage[r] # "reading",
             To(r, s), UNCHANGED <<now, config, rows, startedAt, latch, boundVars, ghostVars>>
      PROVE  TypeInv'
  <2>1. /\ stage' = [stage EXCEPT ![r] = s]
        /\ UNCHANGED <<now, config, rows, startedAt, latch, faults, edits, restarts, admitted, ended>>
    BY <1>2 DEF To, boundVars, ghostVars
  <2>2. /\ stage' \in [Requests -> Stages] /\ stage'[r] = s
        /\ \A x \in Requests : x # r => stage'[x] = stage[x]
    BY <2>1, <1>t DEF Stages
  <2>3. rows[r] = None /\ (stage[r] # "reading" => admitted[r] # None)
    BY <1>2, <1>i DEF RowsOwned, AdmissionsTyped, Over
  <2>5. (admitted[r] # None => s \notin {"new", "reading"})
    BY <1>2
  <2>6. RowsTyped'
    BY <2>1, <1>i DEF RowsTyped
  <2>7. RowsOwned'
    BY <2>1, <2>2, <2>3, <1>i DEF RowsOwned
  <2>8. AdmissionsTyped'
    BY <2>1, <2>2, <2>3, <2>5, <1>2, <1>i DEF AdmissionsTyped
  <2> QED BY <2>1, <2>2, <2>6, <2>7, <2>8, <1>t DEF TypeInv
<1>3. ASSUME NEW r \in Requests, Admit(r) PROVE TypeInv'
  <2> DEFINE a == [at |-> now, turn |-> Cardinality({x \in Requests : admitted[x] # None}), beside |-> InFlight]
  <2>0. a \in Admission /\ a.at = now /\ a # None
    BY AdmissionTyped, NamesAssumption
  <2>1. /\ stage' = [stage EXCEPT ![r] = "dialing"] /\ stage[r] = "reading"
        /\ admitted' = [admitted EXCEPT ![r] = a]
        /\ UNCHANGED <<now, config, rows, startedAt, latch, faults, edits, restarts, ended>>
    BY <1>3 DEF Admit, To, boundVars
  <2> HIDE DEF a
  <2>2. /\ stage' \in [Requests -> Stages] /\ stage'[r] = "dialing"
        /\ \A x \in Requests : x # r => stage'[x] = stage[x]
    BY <2>1, <1>t DEF Stages
  <2>3. rows[r] = None /\ startedAt[r] <= now /\ now <= now
    BY <2>1, <1>i, <1>t DEF RowsOwned, Over
  <2>4. /\ admitted' \in [Requests -> Admission \cup {None}] /\ admitted'[r] = a
        /\ \A x \in Requests : x # r => admitted'[x] = admitted[x]
    BY <2>0, <2>1, <1>t
  <2>6. RowsTyped'
    BY <2>1, <1>i DEF RowsTyped
  <2>7. RowsOwned'
    BY <2>1, <2>2, <2>3, <2>4, <1>i DEF RowsOwned
  <2>8. AdmissionsTyped'
    BY <2>0, <2>1, <2>2, <2>3, <2>4, <1>i DEF AdmissionsTyped
  <2> QED BY <2>1, <2>2, <2>6, <2>7, <2>8, <1>t DEF TypeInv
<1>4. ASSUME NEW i \in Imports, Import(i) PROVE TypeInv'
  <2>1. PICK t \in 0 .. now, c \in Costs, p \in Pricings :
            rows' = [rows EXCEPT ![i] = [ts |-> t, cost |-> c, priced |-> p[1], estimated |-> p[2]]]
    BY <1>4 DEF Import
  <2>2. UNCHANGED <<now, config, stage, startedAt, latch, faults, edits, restarts, admitted, ended>>
    BY <1>4 DEF Import, boundVars, ghostVars
  <2> DEFINE row == [ts |-> t, cost |-> c, priced |-> p[1], estimated |-> p[2]]
  <2>3. row \in RowType /\ row.ts <= now /\ row.cost \in Costs
    BY CostsAssumption, <1>t, <1>n DEF RowType
  <2> HIDE DEF row
  <2>4. rows' = [rows EXCEPT ![i] = row]
    BY <2>1 DEF row
  <2>5. /\ rows' \in [Requests \cup Imports -> RowType \cup {None}] /\ rows'[i] = row
        /\ \A x \in Requests \cup Imports : x # i => rows'[x] = rows[x]
        /\ \A x \in Requests : rows'[x] = rows[x]
    BY <2>3, <2>4, <1>t, NamesAssumption
  <2>6. RowsTyped'
    BY <2>2, <2>3, <2>5, <1>i DEF RowsTyped
  <2>7. RowsOwned' /\ AdmissionsTyped'
    BY <2>2, <2>5, <1>i DEF RowsOwned, AdmissionsTyped
  <2> QED BY <2>2, <2>6, <2>7, <1>t DEF TypeInv
<1>5. ASSUME NEW y \in Requests \cup Imports, Reprice(y) PROVE TypeInv'
  <2>1. PICK c \in Costs :
            rows' = [rows EXCEPT ![y] = [ts |-> rows[y].ts, cost |-> c, priced |-> rows[y].priced, estimated |-> FALSE]]
    BY <1>5 DEF Reprice
  <2>2. /\ UNCHANGED <<now, config, stage, startedAt, latch, faults, restarts, admitted, ended>>
        /\ rows[y] # None /\ rows[y].cost # 0 /\ edits' \in 0 .. MaxEdits
    BY <1>5, <1>t, <1>n DEF Reprice, Edit, ghostVars
  <2> DEFINE row == [ts |-> rows[y].ts, cost |-> c, priced |-> rows[y].priced, estimated |-> FALSE]
  <2>3. rows[y] \in RowType
    BY <2>2, <1>t
  <2>4. row \in RowType /\ row.ts = rows[y].ts /\ row.cost \in Costs
    BY CostsAssumption, <2>3 DEF RowType
  <2> HIDE DEF row
  <2>5. rows' = [rows EXCEPT ![y] = row]
    BY <2>1 DEF row
  <2>6. /\ rows' \in [Requests \cup Imports -> RowType \cup {None}] /\ rows'[y] = row
        /\ \A x \in Requests \cup Imports : x # y => rows'[x] = rows[x]
    BY <2>4, <2>5, <1>t
  <2>7. RowsTyped'
    BY <2>2, <2>4, <2>6, <1>i DEF RowsTyped
  <2>8. RowsOwned'
    BY <2>2, <2>4, <2>6, <1>i DEF RowsOwned
  <2>9. AdmissionsTyped'
    BY <2>2, <1>i DEF AdmissionsTyped
  <2> QED BY <2>2, <2>7, <2>8, <2>9, <1>t DEF TypeInv
<1>6. ASSUME SaveBudget PROVE TypeInv'
  <2>1. /\ config' \in Configs /\ edits' \in 0 .. MaxEdits
        /\ UNCHANGED <<now, rows, stage, startedAt, latch, faults, restarts, admitted, ended>>
    BY <1>6, <1>t, <1>n DEF SaveBudget, Edit, ghostVars
  <2> QED BY <2>1, <1>t, <1>i DEF TypeInv, RowsTyped, RowsOwned, AdmissionsTyped
<1>7. ASSUME Restart PROVE TypeInv'
  <2>1. /\ stage' = [r \in Requests |-> IF stage[r] = "new" THEN "new" ELSE "gone"]
        /\ latch' = FALSE /\ restarts' \in 0 .. MaxRestarts
        /\ UNCHANGED <<now, config, rows, startedAt, faults, edits, admitted, ended>>
    BY <1>7, <1>t, <1>n DEF Restart, ghostVars
  <2>2. /\ stage' \in [Requests -> Stages]
        /\ \A r \in Requests : stage'[r] = IF stage[r] = "new" THEN "new" ELSE "gone"
    BY <2>1 DEF Stages
  <2>3. RowsTyped'
    BY <2>1, <1>i DEF RowsTyped
  <2>4. RowsOwned'
    BY <2>1, <2>2, <1>i DEF RowsOwned, Over
  <2>5. AdmissionsTyped'
    BY <2>1, <2>2, <1>i DEF AdmissionsTyped
  <2> QED BY <2>1, <2>2, <2>3, <2>4, <2>5, <1>t DEF TypeInv
<1>8. ASSUME Tick PROVE TypeInv'
  <2>1. /\ now' = now + 1 /\ now' \in 0 .. MaxTime
        /\ UNCHANGED <<config, rows, stage, startedAt, latch, faults, edits, restarts, admitted, ended>>
    BY <1>8, <1>t, <1>n DEF Tick, boundVars, ghostVars
  <2>2. startedAt' \in [Requests -> 0 .. now']
    BY <2>1, <1>t, <1>n
  <2>3. RowsTyped'
    <3>1. ASSUME NEW x \in Requests \cup Imports, rows[x] # None PROVE rows[x].ts <= now'
      <4>1. rows[x] \in RowType /\ rows[x].ts <= now
        BY <3>1, <1>t, <1>i DEF RowsTyped
      <4> QED BY <4>1, <2>1, <1>t, <1>n DEF RowType
    <3> QED BY <3>1, <2>1, <1>i DEF RowsTyped
  <2>4. RowsOwned'
    BY <2>1, <1>i DEF RowsOwned
  <2>5. AdmissionsTyped'
    <3>1. ASSUME NEW x \in Requests, admitted[x] # None PROVE admitted[x].at <= now'
      <4>1. admitted[x] \in Admission /\ admitted[x].at <= now
        BY <3>1, <1>t, <1>i DEF AdmissionsTyped
      <4> QED BY <4>1, <2>1, <1>t, <1>n DEF Admission
    <3> QED BY <3>1, <2>1, <1>i DEF AdmissionsTyped
  <2> QED BY <2>1, <2>2, <2>3, <2>4, <2>5, <1>t DEF TypeInv
<1>9. ASSUME UNCHANGED vars PROVE TypeInv'
  <2>1. UNCHANGED <<now, config, rows, stage, startedAt, latch, faults, edits, restarts, admitted, ended>>
    BY <1>9 DEF vars, boundVars, ghostVars
  <2> QED BY <2>1, <1>t, <1>i DEF TypeInv, RowsTyped, RowsOwned, AdmissionsTyped
<1>10. ASSUME NEW r \in Requests, Dismiss(r) \/ Headers(r) \/ BreakMidBody(r) PROVE TypeInv'
  <2>1. CASE Dismiss(r)
    BY <2>1, <1>2 DEF Dismiss
  <2>2. CASE Headers(r)
    BY <2>2, <1>2 DEF Headers
  <2>3. CASE BreakMidBody(r)
    BY <2>3, <1>2 DEF BreakMidBody
  <2> QED BY <1>10, <2>1, <2>2, <2>3
<1>11. ASSUME NEW r \in Requests, Block(r) \/ GuardFails(r) \/ UpstreamFails(r) \/ Complete(r) \/ Overflow(r)
       PROVE  TypeInv'
  BY <1>11, EndsWhole, EndsTyped
<1> QED BY <1>1, <1>3, <1>4, <1>5, <1>6, <1>7, <1>8, <1>9, <1>10, <1>11, Zenon DEF Next

(***************************************************************************)
(* Every state of the proxy is well typed: a proxied row carries the start *)
(* of its own request, costs nothing if the request never passed the       *)
(* guard, and no row or admission is dated after the clock.                *)
(***************************************************************************)
THEOREM TypeCorrect == Spec => []TypeOK
<1>1. TypeInv => TypeOK
  <2> SUFFICES ASSUME TypeInv PROVE TypeOK
    OBVIOUS
  <2>1. RowsTyped /\ RowsOwned /\ AdmissionsTyped
    BY DEF TypeInv
  <2>2. ASSUME NEW x \in Requests \cup Imports, rows[x] # None
        PROVE  rows[x] \in [ts : 0 .. now, cost : Costs \cup {0}, priced : BOOLEAN, estimated : BOOLEAN]
    <3>1. rows[x] \in RowType /\ rows[x].ts <= now /\ rows[x].cost \in Costs \cup {0}
      BY <2>1, <2>2 DEF RowsTyped
    <3>2. now \in 0 .. MaxTime /\ MaxTime \in Nat
      BY TimeAssumption DEF TypeInv
    <3> QED BY <3>1, <3>2 DEF RowType
  <2>3. \A r \in Requests : rows[r] # None => rows[r].ts = startedAt[r] /\ (admitted[r] # None \/ rows[r].cost = 0)
    BY <2>1 DEF RowsOwned
  <2>4. ASSUME NEW r \in Requests PROVE ended[r] \subseteq Requests
    BY DEF TypeInv
  <2>5. ASSUME NEW r \in Requests, admitted[r] # None PROVE admitted[r].at \in startedAt[r] .. now
    <3>1. admitted[r] \in Admission /\ startedAt[r] <= admitted[r].at /\ admitted[r].at <= now
      BY <2>1, <2>5 DEF AdmissionsTyped
    <3>2. startedAt[r] \in 0 .. now /\ now \in 0 .. MaxTime
      BY DEF TypeInv
    <3>3. admitted[r].at \in Nat
      BY <3>1 DEF Admission
    <3> QED BY <3>1, <3>2, <3>3
  <2>6. /\ now \in 0 .. MaxTime /\ config \in Configs /\ stage \in [Requests -> Stages]
        /\ startedAt \in [Requests -> 0 .. now] /\ latch \in BOOLEAN
        /\ <<faults, edits, restarts>> \in (0 .. MaxFaults) \X (0 .. MaxEdits) \X (0 .. MaxRestarts)
    BY DEF TypeInv
  <2> QED BY <2>2, <2>3, <2>4, <2>5, <2>6 DEF TypeOK
<1> QED BY <1>1, TypeInit, TypeNext, PTL DEF Spec

-----------------------------------------------------------------------------
(* The books. *)

\* A request whose row is written, or whose body broke (which logs nothing).
Booked(r) == rows[r] # None \/ stage[r] = "broken"

\* While the latch is clear, and for ever in what a request found when it
\* came, everything that had ended is on the books.
BooksInv ==
    /\ ~ latch => \A r \in Finished : Booked(r)
    /\ \A q \in Requests : stage[q] \notin {"new", "dismissed", "gone"} => \A r \in ended[q] : Booked(r)

(* A step after which all that was on the books still is, and that ends     *)
(* nothing off them.                                                        *)
LEMMA BooksKept ==
    ASSUME TypeInv, BooksInv,
           \A r \in Requests : Booked(r) => Booked(r)',
           ~ latch' => ~ latch /\ \A r \in Finished' \ Finished : Booked(r)',
           ended' = ended,
           \A q \in Requests : stage[q] \in {"new", "dismissed", "gone"} => stage'[q] \in {"new", "dismissed", "gone"}
    PROVE  BooksInv'
<1>1. Finished' \subseteq Requests /\ Finished \subseteq Requests
  BY DEF Finished
<1>2. \A q \in Requests : ended[q] \subseteq Requests
  BY DEF TypeInv
<1>3. ~ latch' => \A r \in Finished' : Booked(r)'
  BY <1>1 DEF BooksInv
<1>4. \A q \in Requests : stage'[q] \notin {"new", "dismissed", "gone"} => \A r \in ended'[q] : Booked(r)'
  BY <1>2 DEF BooksInv
<1> QED BY <1>3, <1>4 DEF BooksInv

LEMMA BooksInit == Init => BooksInv
<1> SUFFICES ASSUME Init PROVE BooksInv
  OBVIOUS
<1>1. \A r \in Requests : stage[r] = "new"
  BY DEF Init
<1>2. Finished = {}
  BY <1>1 DEF Finished
<1> QED BY <1>1, <1>2 DEF BooksInv

LEMMA BooksNext == TypeInv /\ BooksInv /\ [Next]_vars => BooksInv'
<1> SUFFICES ASSUME TypeInv, BooksInv, [Next]_vars PROVE BooksInv'
  OBVIOUS
<1>t. /\ stage \in [Requests -> Stages] /\ rows \in [Requests \cup Imports -> RowType \cup {None}]
      /\ ended \in [Requests -> SUBSET Requests]
  BY DEF TypeInv, RowsTyped
<1>n. None \notin RowType
  BY NamesAssumption
<1>1. ASSUME NEW r \in Requests, Arrive(r) PROVE BooksInv'
  <2>1. /\ stage' = [stage EXCEPT ![r] = IF latch THEN "dismissed" ELSE "reading"]
        /\ ended' = [ended EXCEPT ![r] = Finished] /\ stage[r] = "new"
        /\ UNCHANGED <<rows, latch>>
    BY <1>1 DEF Arrive, To
  <2>2. /\ stage'[r] = (IF latch THEN "dismissed" ELSE "reading")
        /\ \A x \in Requests : x # r => stage'[x] = stage[x]
    BY <2>1, <1>t
  <2>3. /\ ended'[r] = Finished /\ \A x \in Requests : x # r => ended'[x] = ended[x]
    BY <2>1, <1>t
  <2>4. Finished' = Finished /\ Finished \subseteq Requests
    BY <2>1, <2>2 DEF Finished
  <2>5. \A x \in Requests : Booked(x) => Booked(x)'
    BY <2>1, <2>2 DEF Booked
  <2>6. ~ latch' => \A x \in Finished' : Booked(x)'
    BY <2>1, <2>4, <2>5 DEF BooksInv
  <2>7. ASSUME NEW q \in Requests, stage'[q] \notin {"new", "dismissed", "gone"}, NEW x \in ended'[q] PROVE Booked(x)'
    <3>1. CASE q = r
      <4>1. ~ latch /\ x \in Finished
        BY <2>2, <2>3, <2>7, <3>1
      <4> QED BY <4>1, <2>4, <2>5 DEF BooksInv
    <3>2. CASE q # r
      <4>1. stage[q] \notin {"new", "dismissed", "gone"} /\ x \in ended[q] /\ x \in Requests
        BY <2>2, <2>3, <2>7, <3>2, <1>t
      <4> QED BY <4>1, <2>5 DEF BooksInv
    <3> QED BY <3>1, <3>2
  <2> QED BY <2>6, <2>7 DEF BooksInv
<1>2. ASSUME NEW r \in Requests, NEW s \in {"dismissed", "dialing", "receiving", "broken"},
             stage[r] \in {"reading", "dialing", "receiving"},
             To(r, s), UNCHANGED <<rows, latch, ended>>
      PROVE  BooksInv'
  <2>1. stage'[r] = s /\ \A x \in Requests : x # r => stage'[x] = stage[x]
    BY <1>2, <1>t DEF To
  <2>2. \A x \in Requests : Booked(x) => Booked(x)'
    BY <1>2, <2>1 DEF Booked
  <2>3. \A x \in Finished' \ Finished : Booked(x)'
    BY <1>2, <2>1 DEF Finished, Booked
  <2>4. \A q \in Requests : stage[q] \in {"new", "dismissed", "gone"} => stage'[q] \in {"new", "dismissed", "gone"}
    BY <1>2, <2>1
  <2> QED BY <1>2, <2>2, <2>3, <2>4, BooksKept
<1>3. ASSUME NEW r \in Requests, NEW s, NEW row, Ends(r, s, row) PROVE BooksInv'
  <2>1. /\ stage'[r] = s /\ \A x \in Requests : x # r => stage'[x] = stage[x]
        /\ stage[r] \in {"reading", "dialing", "receiving"} /\ s \in {"blocked", "failed", "delivered"}
    BY <1>3, <1>t DEF Ends
  <2>2. /\ \A x \in Requests : x # r => rows'[x] = rows[x]
        /\ (rows'[r] = row /\ latch' \in {latch, TRUE}) \/ (rows'[r] = rows[r] /\ latch' = TRUE)
        /\ row # None /\ ended' = ended
    BY <1>3, <1>t, <1>n DEF Ends
  <2>3. \A x \in Requests : Booked(x) => Booked(x)'
    BY <2>1, <2>2 DEF Booked
  <2>4. ~ latch' => ~ latch /\ \A x \in Finished' \ Finished : Booked(x)'
    BY <2>1, <2>2 DEF Finished, Booked
  <2>5. \A q \in Requests : stage[q] \in {"new", "dismissed", "gone"} => stage'[q] \in {"new", "dismissed", "gone"}
    BY <2>1
  <2> QED BY <2>2, <2>3, <2>4, <2>5, BooksKept
<1>4. ASSUME UNCHANGED <<stage, latch, ended>>, \A x \in Requests : rows[x] # None => rows'[x] # None
      PROVE  BooksInv'
  <2>1. Finished' = Finished
    BY <1>4 DEF Finished
  <2> QED BY <1>4, <2>1, BooksKept DEF Booked
<1>5. ASSUME Restart PROVE BooksInv'
  <2>1. /\ \A r \in Requests : stage'[r] = IF stage[r] = "new" THEN "new" ELSE "gone"
        /\ latch' = FALSE
    BY <1>5 DEF Restart
  <2>2. Finished' = {}
    BY <2>1 DEF Finished
  <2> QED BY <2>1, <2>2 DEF BooksInv
<1>6. ASSUME NEW i \in Imports, Import(i) PROVE BooksInv'
  <2>1. UNCHANGED <<stage, latch, ended>> /\ \A x \in Requests : rows'[x] = rows[x]
    BY <1>6, <1>t, NamesAssumption DEF Import, ghostVars
  <2> QED BY <2>1, <1>4
<1>7. ASSUME NEW y \in Requests \cup Imports, Reprice(y) PROVE BooksInv'
  <2>1. PICK c \in Costs :
            rows' = [rows EXCEPT ![y] = [ts |-> rows[y].ts, cost |-> c, priced |-> rows[y].priced, estimated |-> FALSE]]
    BY <1>7 DEF Reprice
  <2>2. UNCHANGED <<stage, latch, ended>> /\ rows[y] # None
    BY <1>7 DEF Reprice, ghostVars
  <2>3. [ts |-> rows[y].ts, cost |-> c, priced |-> rows[y].priced, estimated |-> FALSE] \in RowType
    <3>1. rows[y] \in RowType
      BY <2>2, <1>t
    <3> QED BY <3>1, CostsAssumption DEF RowType
  <2>4. \A x \in Requests : rows[x] # None => rows'[x] # None
    BY <2>1, <2>3, <1>t, <1>n
  <2> QED BY <2>2, <2>4, <1>4
<1>8. ASSUME SaveBudget \/ Tick \/ UNCHANGED vars PROVE BooksInv'
  <2>1. UNCHANGED <<stage, latch, ended, rows>>
    BY <1>8 DEF SaveBudget, Tick, vars, ghostVars
  <2> QED BY <2>1, <1>4
<1>9. ASSUME NEW r \in Requests, Dismiss(r) \/ Headers(r) \/ BreakMidBody(r) \/ Admit(r) PROVE BooksInv'
  <2>1. CASE Dismiss(r)
    BY <2>1, <1>2 DEF Dismiss, ghostVars
  <2>2. CASE Headers(r)
    BY <2>2, <1>2 DEF Headers, ghostVars
  <2>3. CASE BreakMidBody(r)
    BY <2>3, <1>2 DEF BreakMidBody, ghostVars
  <2>4. CASE Admit(r)
    BY <2>4, <1>2 DEF Admit
  <2> QED BY <1>9, <2>1, <2>2, <2>3, <2>4
<1>10. ASSUME NEW r \in Requests, Block(r) \/ GuardFails(r) \/ UpstreamFails(r) \/ Complete(r) \/ Overflow(r)
       PROVE  BooksInv'
  BY <1>10, <1>3, EndsWhole
<1> QED BY <1>1, <1>5, <1>6, <1>7, <1>8, <1>9, <1>10, Zenon DEF Next

(***************************************************************************)
(* No request is served or judged by the guard with a finished request's   *)
(* row missing from its totals, but for a body that broke: a write that    *)
(* fails latches the proxy before the next request is taken.               *)
(***************************************************************************)
THEOREM BooksComplete == Spec => []AdmittedOnCompleteBooks
<1>1. BooksInv => AdmittedOnCompleteBooks
  BY DEF BooksInv, Booked, AdmittedOnCompleteBooks
<1> QED BY <1>1, TypeInit, TypeNext, BooksInit, BooksNext, PTL DEF Spec

-----------------------------------------------------------------------------
(* Totals of the ledger are sums. *)

CostsIn(rw) == [x \in Requests \cup Imports |-> rw[x].cost]
TotalIn(rw, S) == MapThenSumSet(LAMBDA x : rw[x].cost, S)
UnfoldRows(rw, D, f) == [s \in D |-> IF s = {} THEN 0 ELSE rw[OneOf(s)].cost + f[s \ {OneOf(s)}]]

\* A total over the ledger is the sum of its rows' costs.
LEMMA TotalInIs ==
    ASSUME NEW rw, NEW S \in SUBSET (Requests \cup Imports)
    PROVE  TotalIn(rw, S) = Sum(CostsIn(rw), S)
<1>1. TotalIn(rw, S) = (CHOOSE f : f = UnfoldRows(rw, SUBSET S, f))[S]
  BY DEF TotalIn, MapThenSumSet, MapThenFoldSet, UnfoldRows, OneOf
<1>2. ASSUME NEW f PROVE UnfoldRows(rw, SUBSET S, f) = Unfold(CostsIn(rw), SUBSET S, f)
  <2>1. \A s \in SUBSET S : s # {} => OneOf(s) \in Requests \cup Imports
    BY OneOfIn
  <2>2. \A s \in SUBSET S : s # {} => CostsIn(rw)[OneOf(s)] = rw[OneOf(s)].cost
    BY <2>1 DEF CostsIn
  <2> QED BY <2>2 DEF UnfoldRows, Unfold
<1>3. (CHOOSE f : f = UnfoldRows(rw, SUBSET S, f)) = Iter(CostsIn(rw), S)
  BY <1>2 DEF Iter
<1> QED BY <1>1, <1>3, SumIs

LEMMA LedgerFinite == ASSUME NEW S \in SUBSET (Requests \cup Imports) PROVE IsFiniteSet(S)
<1>1. IsFiniteSet(Requests \cup Imports)
  BY FS_Union, NamesAssumption
<1> QED BY <1>1, SubsetFinite

\* Rows that stay keep their total.
LEMMA TotalsSame ==
    ASSUME NEW S \in SUBSET (Requests \cup Imports), \A x \in S : rows'[x] = rows[x]
    PROVE  TotalIn(rows', S) = TotalIn(rows, S)
<1>1. \A x \in S : CostsIn(rows')[x] = CostsIn(rows)[x]
  BY DEF CostsIn
<1> QED BY <1>1, LedgerFinite, TotalInIs, SumSame

\* Costs are naturals: some of the rows cost no more than all of them.
LEMMA TotalGrows ==
    ASSUME TypeInv, NEW S \in SUBSET (Requests \cup Imports), \A x \in S : rows[x] # None, NEW T \in SUBSET S
    PROVE  Total(T) \in Nat /\ Total(S) \in Nat /\ Total(T) <= Total(S)
<1>1. \A x \in S : CostsIn(rows)[x] \in Nat
  <2>1. \A x \in S : rows[x].cost \in Costs \cup {0}
    BY DEF TypeInv, RowsTyped
  <2>2. Costs \cup {0} \subseteq Nat
    BY CostsAssumption
  <2>3. \A x \in S : rows[x].cost \in Nat
    BY <2>1, <2>2, Zenon
  <2> QED BY <2>3 DEF CostsIn
<1>2. IsFiniteSet(S) /\ IsFiniteSet(T) /\ T \in SUBSET (Requests \cup Imports)
  BY LedgerFinite
<1>3. Sum(CostsIn(rows), T) <= Sum(CostsIn(rows), S)
  BY <1>1, <1>2, SumMonotone
<1>4. Sum(CostsIn(rows), S) \in Nat
  BY <1>1, <1>2, SumType
<1>5. Sum(CostsIn(rows), T) \in Nat
  BY <1>1, <1>2, SumType
<1>6. Total(S) = Sum(CostsIn(rows), S) /\ Total(T) = Sum(CostsIn(rows), T)
  BY <1>2, TotalInIs DEF Total, TotalIn
<1> QED BY <1>3, <1>4, <1>5, <1>6

LEMMA MaxOfTwo ==
    ASSUME NEW a \in Nat, NEW b \in Nat PROVE Max({a, b}) \in Nat /\ b <= Max({a, b})
<1>1. \E x \in {a, b} : \A y \in {a, b} : x >= y
  OBVIOUS
<1>2. Max({a, b}) \in {a, b} /\ \A y \in {a, b} : Max({a, b}) >= y
  BY <1>1 DEF Max
<1> QED BY <1>2

(* What a cap is compared with is never less than the total. *)
LEMMA EnforcesTotal ==
    ASSUME TypeInv, NEW S \in SUBSET (Requests \cup Imports), \A x \in S : rows[x] # None
    PROVE  Enforced(S) \in Nat /\ Total(S) <= Enforced(S)
<1> DEFINE resolved == {x \in S : rows[x].priced}
<1>1. resolved \in SUBSET S
  OBVIOUS
<1> HIDE DEF resolved
<1>2. Total(resolved) \in Nat /\ Total(S) \in Nat
  BY <1>1, TotalGrows
<1>3. Enforced(S) = IF resolved = S THEN Total(resolved) ELSE Max({Total(resolved), Total(S)})
  BY DEF Enforced, resolved
<1> HIDE DEF Total
<1>4. Max({Total(resolved), Total(S)}) \in Nat /\ Total(S) <= Max({Total(resolved), Total(S)})
  BY <1>2, MaxOfTwo
<1> QED BY <1>2, <1>3, <1>4

-----------------------------------------------------------------------------
(* The admissions, in their order. *)

Turns == {x \in Requests : admitted[x] # None}
\* Admitted before q, and not in flight when q was.
Before(x, q) == x \in Turns /\ admitted[x].turn < admitted[q].turn /\ x \notin admitted[q].beside

\* Admissions are numbered in the order of time, and what q found neither new
\* nor in flight had ended.
TurnInv ==
    /\ \A r \in Turns : admitted[r].turn < Cardinality(Turns)
    /\ \A x, y \in Turns : x # y => admitted[x].turn # admitted[y].turn
    /\ \A x, y \in Turns : admitted[x].turn < admitted[y].turn => admitted[x].at <= admitted[y].at
    /\ \A q \in Turns, x \in Requests : Before(x, q) => stage[x] \in Over

\* The rows q was decided on: all of them, and those of its day, its session
\* and its window.
Settled(q) == {x \in Requests : Before(x, q) /\ rows[x] # None}
OfDay(q) == {x \in Settled(q) : rows[x].ts \in startOfLocalDay(admitted[q].at) .. endOfLocalDay(admitted[q].at) - 1}
OfItsSession(q) == {x \in Settled(q) : SessionOf[x] = SessionOf[q]}
OfWindow(q) == {x \in Settled(q) : rows[x].ts \in admitted[q].at - WindowMs .. admitted[q].at}
Under(S, cap) == cap # Unset => TotalIn(rows, S) < cap

WithinCaps(q) ==
    /\ Under(OfDay(q), config.daily)
    /\ SessionOf[q] # NoSession => Under(OfItsSession(q), config.session)
    /\ Under(OfWindow(q), config.runaway)

\* While nobody edited anything, every admission is within every cap by what
\* was settled when it was made.
BudgetInv == edits = 0 => \A q \in Turns : WithinCaps(q)

(* What has ended stays ended, and while the operator changes nothing so do *)
(* its row and the caps.                                                    *)
LEMMA Settles ==
    ASSUME TypeInv, [Next]_vars
    PROVE  /\ \A x \in Requests : stage[x] \in Over => stage'[x] \in Over
           /\ edits' = 0 => /\ edits = 0 /\ config' = config
                            /\ \A x \in Requests : stage[x] \in Over => rows'[x] = rows[x]
           /\ admitted' = admitted \/ \E r \in Requests : Admit(r)
<1>t. /\ stage \in [Requests -> Stages] /\ rows \in [Requests \cup Imports -> RowType \cup {None}]
      /\ edits \in 0 .. MaxEdits
  BY DEF TypeInv, RowsTyped
<1>e. edits \in Nat
  BY <1>t, TimeAssumption
<1> DEFINE Kept == /\ \A x \in Requests : stage[x] \in Over => stage'[x] \in Over
                   /\ edits' = 0 => /\ edits = 0 /\ config' = config
                                    /\ \A x \in Requests : stage[x] \in Over => rows'[x] = rows[x]
                   /\ admitted' = admitted \/ \E r \in Requests : Admit(r)
<1>1. ASSUME NEW r \in Requests, NEW s, NEW row, Ends(r, s, row) PROVE Kept
  <2>1. /\ stage'[r] = s /\ \A x \in Requests : x # r => stage'[x] = stage[x] /\ rows'[x] = rows[x]
        /\ s \in Over /\ stage[r] \notin Over
    BY <1>1, <1>t DEF Ends, Over
  <2>2. UNCHANGED <<edits, config, admitted>>
    BY <1>1 DEF Ends
  <2> QED BY <2>1, <2>2
<1>2. ASSUME NEW r \in Requests, NEW s, To(r, s), s \in Over \/ stage[r] \notin Over,
             UNCHANGED <<rows, config, edits>>, admitted' = admitted \/ Admit(r) PROVE Kept
  <2>1. stage'[r] = s /\ \A x \in Requests : x # r => stage'[x] = stage[x]
    BY <1>2, <1>t DEF To
  <2> QED BY <1>2, <2>1
<1>3. ASSUME NEW r \in Requests, Arrive(r) \/ Dismiss(r) \/ Headers(r) \/ BreakMidBody(r) \/ Admit(r) PROVE Kept
  <2>1. CASE Arrive(r)
    <3>1. stage[r] \notin Over
      BY <2>1 DEF Arrive, Over
    <3> QED BY <2>1, <3>1, <1>2 DEF Arrive, boundVars
  <2>2. CASE Dismiss(r)
    BY <2>2, <1>2 DEF Dismiss, boundVars, ghostVars, Over
  <2>3. CASE Headers(r)
    <3>1. stage[r] \notin Over
      BY <2>3 DEF Headers, Over
    <3> QED BY <2>3, <3>1, <1>2 DEF Headers, boundVars, ghostVars
  <2>4. CASE BreakMidBody(r)
    BY <2>4, <1>2 DEF BreakMidBody, boundVars, ghostVars, Over
  <2>5. CASE Admit(r)
    <3>1. stage[r] \notin Over
      BY <2>5 DEF Admit, Over
    <3>2. To(r, "dialing") /\ UNCHANGED <<rows, config, edits>>
      BY <2>5 DEF Admit, boundVars
    <3> QED BY <2>5, <3>1, <3>2, <1>2
  <2> QED BY <1>3, <2>1, <2>2, <2>3, <2>4, <2>5
<1>4. ASSUME NEW r \in Requests, Block(r) \/ GuardFails(r) \/ UpstreamFails(r) \/ Complete(r) \/ Overflow(r)
      PROVE  Kept
  BY <1>4, <1>1, EndsWhole
<1>5. ASSUME NEW i \in Imports, Import(i) PROVE Kept
  <2>1. UNCHANGED <<stage, config, edits, admitted>> /\ \A x \in Requests : rows'[x] = rows[x]
    BY <1>5, <1>t, NamesAssumption DEF Import, boundVars, ghostVars
  <2> QED BY <2>1
<1>6. ASSUME Edit, UNCHANGED <<stage, admitted>> PROVE Kept
  <2>1. edits' # 0
    BY <1>6, <1>e DEF Edit
  <2> QED BY <2>1, <1>6
<1>7. ASSUME Restart PROVE Kept
  <2>1. \A x \in Requests : stage'[x] = IF stage[x] = "new" THEN "new" ELSE "gone"
    BY <1>7 DEF Restart
  <2>2. UNCHANGED <<rows, config, edits, admitted>>
    BY <1>7 DEF Restart, ghostVars
  <2> QED BY <2>1, <2>2 DEF Over
<1>8. ASSUME Tick \/ UNCHANGED vars PROVE Kept
  <2>1. UNCHANGED <<stage, rows, config, edits, admitted>>
    BY <1>8 DEF Tick, vars, boundVars, ghostVars
  <2> QED BY <2>1
<1>9. ASSUME NEW y \in Requests \cup Imports, Reprice(y) PROVE Kept
  <2>1. Edit /\ UNCHANGED <<stage, admitted>>
    BY <1>9 DEF Reprice, ghostVars
  <2> QED BY <2>1, <1>6
<1>10. ASSUME SaveBudget PROVE Kept
  <2>1. Edit /\ UNCHANGED <<stage, admitted>>
    BY <1>10 DEF SaveBudget, ghostVars
  <2> QED BY <2>1, <1>6
<1> HIDE DEF Kept
<1>11. Kept
  BY <1>3, <1>4, <1>5, <1>7, <1>8, <1>9, <1>10, Zenon DEF Next
<1> QED BY <1>11 DEF Kept

(* What an admission records. *)
LEMMA Admits ==
    ASSUME TypeInv, NEW r \in Requests, Admit(r)
    PROVE  /\ r \notin Turns /\ Turns' = Turns \cup {r}
           /\ Cardinality(Turns) \in Nat /\ Cardinality(Turns') = Cardinality(Turns) + 1
           /\ admitted'[r].at = now /\ admitted'[r].turn = Cardinality(Turns) /\ admitted'[r].beside = InFlight
           /\ \A x \in Turns : x \in Requests /\ x # r /\ admitted'[x] = admitted[x]
           /\ \A x \in Turns : stage[x] \notin Over => x \in InFlight
<1> DEFINE a == [at |-> now, turn |-> Cardinality(Turns), beside |-> InFlight]
<1>0. a \in Admission /\ a # None /\ a.at = now /\ a.turn = Cardinality(Turns) /\ a.beside = InFlight
  BY AdmissionTyped, NamesAssumption DEF Turns
<1>1. admitted \in [Requests -> Admission \cup {None}] /\ stage \in [Requests -> Stages]
  BY DEF TypeInv, AdmissionsTyped
<1>2. admitted' = [admitted EXCEPT ![r] = a] /\ stage[r] = "reading"
  BY DEF Admit, Turns
<1> HIDE DEF a
<1>3. admitted'[r] = a /\ \A x \in Requests : x # r => admitted'[x] = admitted[x]
  BY <1>1, <1>2
<1>4. r \notin Turns
  BY <1>2 DEF Turns, TypeInv, AdmissionsTyped
<1>5. Turns' = Turns \cup {r}
  BY <1>0, <1>3 DEF Turns
<1>6. Turns \in SUBSET Requests /\ IsFiniteSet(Turns)
  <2>1. Turns \in SUBSET Requests
    BY DEF Turns
  <2> QED BY <2>1, NamesAssumption, SubsetFinite
<1>7. Cardinality(Turns) \in Nat /\ Cardinality(Turns \cup {r}) = Cardinality(Turns) + 1
  BY <1>4, <1>6, FS_CardinalityType, FS_AddElement
<1>8. \A x \in Turns : stage[x] \notin Over => x \in InFlight
  <2>1. \A x \in Turns : stage[x] \notin {"new", "reading"} /\ stage[x] \in Stages
    BY <1>1, <1>6 DEF Turns, TypeInv, AdmissionsTyped
  <2> QED BY <2>1, <1>6 DEF Stages, Over, InFlight
<1> QED BY <1>0, <1>3, <1>4, <1>5, <1>6, <1>7, <1>8

LEMMA TurnInit == Init => TurnInv
<1> SUFFICES ASSUME Init PROVE TurnInv
  OBVIOUS
<1>1. Turns = {}
  BY DEF Init, Turns
<1> QED BY <1>1 DEF TurnInv

LEMMA TurnNext == TypeInv /\ TurnInv /\ [Next]_vars => TurnInv'
<1> SUFFICES ASSUME TypeInv, TurnInv, [Next]_vars PROVE TurnInv'
  OBVIOUS
<1>0. \A x \in Requests : stage[x] \in Over => stage'[x] \in Over
  BY Settles
<1>1. CASE admitted' = admitted
  <2>1. Turns' = Turns /\ \A x, q : Before(x, q)' <=> Before(x, q)
    BY <1>1 DEF Turns, Before
  <2> QED BY <1>0, <1>1, <2>1 DEF TurnInv
<1>2. ASSUME NEW r \in Requests, Admit(r) PROVE TurnInv'
  <2>1. /\ r \notin Turns /\ Turns' = Turns \cup {r}
        /\ Cardinality(Turns) \in Nat /\ Cardinality(Turns') = Cardinality(Turns) + 1
        /\ admitted'[r].at = now /\ admitted'[r].turn = Cardinality(Turns) /\ admitted'[r].beside = InFlight
        /\ \A x \in Turns : x \in Requests /\ x # r /\ admitted'[x] = admitted[x]
        /\ \A x \in Turns : stage[x] \notin Over => x \in InFlight
    BY <1>2, Admits
  <2>2. \A x \in Turns : admitted[x].turn \in Nat /\ admitted[x].at \in Nat /\ admitted[x].at <= now
    <3>1. \A x \in Turns : admitted[x] \in Admission /\ admitted[x].at <= now
      BY <2>1 DEF Turns, TypeInv, AdmissionsTyped
    <3> QED BY <3>1 DEF Admission
  <2>3. \A x \in Turns : admitted[x].turn < Cardinality(Turns)
    BY DEF TurnInv
  <2>4. \A x \in Turns' : admitted'[x].turn < Cardinality(Turns')
    BY <2>1, <2>2, <2>3
  <2>5. \A x, y \in Turns' : x # y => admitted'[x].turn # admitted'[y].turn
    BY <2>1, <2>2, <2>3 DEF TurnInv
  <2>6. \A x, y \in Turns' : admitted'[x].turn < admitted'[y].turn => admitted'[x].at <= admitted'[y].at
    <3> SUFFICES ASSUME NEW x \in Turns', NEW y \in Turns', admitted'[x].turn < admitted'[y].turn
                 PROVE  admitted'[x].at <= admitted'[y].at
      OBVIOUS
    <3>1. CASE x = r
      BY <3>1, <2>1, <2>2, <2>3
    <3>2. CASE x # r /\ y = r
      BY <3>2, <2>1, <2>2
    <3>3. CASE x # r /\ y # r
      BY <3>3, <2>1 DEF TurnInv
    <3> QED BY <3>1, <3>2, <3>3
  <2>7. ASSUME NEW q \in Turns', NEW x \in Requests, Before(x, q)' PROVE stage'[x] \in Over
    <3>1. x \in Turns' /\ admitted'[x].turn < admitted'[q].turn /\ x \notin admitted'[q].beside
      BY <2>7 DEF Before
    <3>2. CASE q = r
      <4>1. x \in Turns
        BY <3>1, <3>2, <2>1
      <4>2. stage[x] \in Over
        BY <4>1, <3>1, <3>2, <2>1
      <4> QED BY <4>2, <1>0
    <3>3. CASE q # r
      <4>1. q \in Turns /\ admitted'[q] = admitted[q]
        BY <3>3, <2>1
      <4>2. x # r
        BY <4>1, <3>1, <2>1, <2>2, <2>3
      <4>3. Before(x, q)
        BY <4>1, <4>2, <3>1, <2>1 DEF Before
      <4> QED BY <4>1, <4>3, <1>0 DEF TurnInv
    <3> QED BY <3>2, <3>3
  <2> QED BY <2>4, <2>5, <2>6, <2>7 DEF TurnInv
<1>3. admitted' = admitted \/ \E r \in Requests : Admit(r)
  BY Settles
<1> QED BY <1>1, <1>2, <1>3

(* What was settled when q was admitted stays as it is. *)
LEMMA SettledKept ==
    ASSUME TypeInv, TurnInv, [Next]_vars, edits' = 0, NEW q \in Turns
    PROVE  /\ q \in Turns' /\ admitted'[q] = admitted[q]
           /\ Settled(q)' = Settled(q) /\ \A x \in Settled(q) : rows'[x] = rows[x]
<1>0. \A x \in Requests : stage[x] \in Over => rows'[x] = rows[x]
  BY Settles
<1>1. q \in Turns' /\ admitted'[q] = admitted[q] /\ \A x : Before(x, q)' <=> Before(x, q)
  <2>1. CASE admitted' = admitted
    BY <2>1 DEF Turns, Before
  <2>2. ASSUME NEW r \in Requests, Admit(r)
        PROVE  q \in Turns' /\ admitted'[q] = admitted[q] /\ \A x : Before(x, q)' <=> Before(x, q)
    <3>1. /\ r \notin Turns /\ Turns' = Turns \cup {r} /\ Cardinality(Turns) \in Nat
          /\ admitted'[r].turn = Cardinality(Turns)
          /\ \A x \in Turns : x \in Requests /\ x # r /\ admitted'[x] = admitted[x]
      BY <2>2, Admits
    <3>2. admitted[q].turn \in Nat /\ admitted[q].turn < Cardinality(Turns)
      <4>1. admitted[q] \in Admission
        BY <3>1 DEF Turns, TypeInv, AdmissionsTyped
      <4> QED BY <4>1 DEF Admission, TurnInv
    <3>3. ~ (admitted'[r].turn < admitted'[q].turn)
      BY <3>1, <3>2
    <3> QED BY <3>1, <3>3 DEF Before
  <2> QED BY <2>1, <2>2, Settles
<1>2. \A x \in Requests : Before(x, q) => rows'[x] = rows[x]
  BY <1>0 DEF TurnInv
<1> QED BY <1>1, <1>2 DEF Settled

LEMMA TotalKept ==
    ASSUME NEW S \in SUBSET Requests, \A x \in S : rows'[x] = rows[x], NEW T, T = S, NEW cap, NEW cap2, cap2 = cap,
           cap # Unset => TotalIn(rows, S) < cap
    PROVE  cap2 # Unset => TotalIn(rows', T) < cap2
<1>1. TotalIn(rows', S) = TotalIn(rows, S)
  BY TotalsSame
<1> QED BY <1>1

(* The totals an admission was decided on. *)
LEMMA AdmittedUnder ==
    ASSUME TypeInv, NEW c \in Nat \cup {Unset}, NEW S \in SUBSET (Requests \cup Imports), \A x \in S : rows[x] # None,
           ~ Reached(S, c), NEW T \in SUBSET S
    PROVE  Under(T, c)
<1>1. Total(T) \in Nat /\ Total(S) \in Nat /\ Total(T) <= Total(S)
  BY TotalGrows
<1>2. Enforced(S) \in Nat /\ Total(S) <= Enforced(S)
  BY EnforcesTotal
<1>3. c # Unset => ~ (Enforced(S) >= c) /\ c \in Nat
  BY DEF Reached
<1>4. TotalIn(rows, T) = Total(T)
  BY DEF Total, TotalIn
<1> QED BY <1>1, <1>2, <1>3, <1>4 DEF Under

(* A new admission is within all caps. *)
LEMMA AdmittedWithin ==
    ASSUME TypeInv, TurnInv, [Next]_vars, NEW r \in Requests, Admit(r)
    PROVE  WithinCaps(r)'
<1>1. /\ r \notin Turns /\ Turns' = Turns \cup {r}
      /\ admitted'[r].at = now /\ UNCHANGED <<rows, config, now>> /\ ~ Blocked(r)
  BY Admits DEF Admit
<1>2. config \in [daily : Nat \cup {Unset}, session : Nat \cup {Unset},
                  runaway : Nat \cup {Unset}, includeImported : BOOLEAN]
  BY ConfigsAssumption DEF TypeInv
<1>3. \A x \in Settled(r)' : x \in Requests /\ x \in Live(config) /\ rows'[x] = rows[x]
  BY <1>1 DEF Settled, Live
<1>4. Live(config) \in SUBSET (Requests \cup Imports) /\ \A x \in Live(config) : rows[x] # None
  BY DEF Live
<1>5. ASSUME NEW c \in Nat \cup {Unset}, NEW S \in SUBSET Live(config), ~ Reached(S, c), NEW T, T \subseteq S
      PROVE  c # Unset => TotalIn(rows', T) < c
  <2>1. Under(T, c)
    BY <1>4, <1>5, AdmittedUnder
  <2> QED BY <1>1, <2>1 DEF Under
<1>6. Under(OfDay(r), config.daily)'
  <2> DEFINE S == Between(config, startOfLocalDay(now), endOfLocalDay(now))
  <2>1. S \in SUBSET Live(config) /\ ~ Reached(S, config.daily)
    BY <1>1 DEF Between, Blocked
  <2>2. OfDay(r)' \subseteq S
    BY <1>1, <1>3 DEF OfDay, Between, startOfLocalDay, endOfLocalDay
  <2> HIDE DEF S
  <2>3. config.daily \in Nat \cup {Unset}
    BY <1>2
  <2>4. config.daily # Unset => TotalIn(rows', OfDay(r)') < config.daily
    BY <2>1, <2>2, <2>3, <1>5
  <2> QED BY <2>4, <1>1 DEF Under
<1>7. (SessionOf[r] # NoSession => Under(OfItsSession(r), config.session))'
  <2> SUFFICES ASSUME SessionOf[r] # NoSession PROVE Under(OfItsSession(r), config.session)'
    OBVIOUS
  <2> DEFINE S == OfSession(config, SessionOf[r])
  <2>1. S \in SUBSET Live(config) /\ ~ Reached(S, config.session)
    BY <1>1 DEF OfSession, Blocked
  <2>2. OfItsSession(r)' \subseteq S
    BY <1>3 DEF OfItsSession, OfSession
  <2> HIDE DEF S
  <2>3. config.session \in Nat \cup {Unset}
    BY <1>2
  <2>4. config.session # Unset => TotalIn(rows', OfItsSession(r)') < config.session
    BY <2>1, <2>2, <2>3, <1>5
  <2> QED BY <2>4, <1>1 DEF Under
<1>8. Under(OfWindow(r), config.runaway)'
  <2> DEFINE S == Between(config, now - WindowMs, now + 1)
  <2>1. S \in SUBSET Live(config) /\ ~ Reached(S, config.runaway)
    BY <1>1 DEF Between, Blocked
  <2>0. (now + 1) - 1 = now
    <3>1. now \in 0 .. MaxTime
      BY DEF TypeInv
    <3> QED BY <3>1
  <2>2. OfWindow(r)' \subseteq S
    <3>0. S = {x \in Live(config) : rows[x].ts \in now - WindowMs .. (now + 1) - 1}
      BY Zenon DEF Between
    <3>1. S = {x \in Live(config) : rows[x].ts \in now - WindowMs .. now}
      BY <2>0, <3>0, Zenon
    <3>2. \A x \in OfWindow(r)' : x \in Settled(r)' /\ rows'[x].ts \in now - WindowMs .. now
      BY <1>1 DEF OfWindow
    <3> HIDE DEF S
    <3> QED BY <1>3, <3>1, <3>2
  <2> HIDE DEF S
  <2>3. config.runaway \in Nat \cup {Unset}
    BY <1>2
  <2>4. config.runaway # Unset => TotalIn(rows', OfWindow(r)') < config.runaway
    BY <2>1, <2>2, <2>3, <1>5
  <2> QED BY <2>4, <1>1 DEF Under
<1> QED BY <1>6, <1>7, <1>8 DEF WithinCaps

(* An earlier admission stays within them. *)
LEMMA WithinKept ==
    ASSUME TypeInv, TurnInv, [Next]_vars, edits' = 0, NEW q \in Turns, WithinCaps(q)
    PROVE  WithinCaps(q)'
<1>1. /\ admitted'[q] = admitted[q] /\ Settled(q)' = Settled(q)
      /\ \A x \in Settled(q) : rows'[x] = rows[x]
  BY SettledKept
<1>2. config' = config
  BY Settles
<1>3. OfDay(q)' = OfDay(q) /\ OfItsSession(q)' = OfItsSession(q) /\ OfWindow(q)' = OfWindow(q)
  BY <1>1 DEF OfDay, OfItsSession, OfWindow, startOfLocalDay, endOfLocalDay
<1>4. /\ OfDay(q) \in SUBSET Requests /\ \A x \in OfDay(q) : rows'[x] = rows[x]
      /\ OfItsSession(q) \in SUBSET Requests /\ \A x \in OfItsSession(q) : rows'[x] = rows[x]
      /\ OfWindow(q) \in SUBSET Requests /\ \A x \in OfWindow(q) : rows'[x] = rows[x]
  BY <1>1 DEF OfDay, OfItsSession, OfWindow, Settled
<1>5. ASSUME NEW S \in SUBSET Requests, \A x \in S : rows'[x] = rows[x], NEW c, Under(S, c)
      PROVE  c # Unset => TotalIn(rows', S) < c
  <2>1. TotalIn(rows', S) = TotalIn(rows, S)
    BY <1>5, TotalsSame
  <2> QED BY <1>5, <2>1 DEF Under
<1>6. Under(OfDay(q), config.daily)'
  <2>1. config.daily # Unset => TotalIn(rows', OfDay(q)') < config.daily
    <3>1. config.daily # Unset => TotalIn(rows', OfDay(q)) < config.daily
      BY <1>4, <1>5 DEF WithinCaps
    <3> QED BY <3>1, <1>3
  <2> QED BY <2>1, <1>2 DEF Under
<1>7. (SessionOf[q] # NoSession => Under(OfItsSession(q), config.session))'
  <2> SUFFICES ASSUME SessionOf[q] # NoSession PROVE Under(OfItsSession(q), config.session)'
    OBVIOUS
  <2>1. config.session # Unset => TotalIn(rows', OfItsSession(q)') < config.session
    <3>1. config.session # Unset => TotalIn(rows', OfItsSession(q)) < config.session
      BY <1>4, <1>5 DEF WithinCaps
    <3> QED BY <3>1, <1>3
  <2> QED BY <2>1, <1>2 DEF Under
<1>8. Under(OfWindow(q), config.runaway)'
  <2>1. config.runaway # Unset => TotalIn(rows', OfWindow(q)') < config.runaway
    <3>1. config.runaway # Unset => TotalIn(rows', OfWindow(q)) < config.runaway
      BY <1>4, <1>5 DEF WithinCaps
    <3> QED BY <3>1, <1>3
  <2> QED BY <2>1, <1>2 DEF Under
<1> QED BY <1>6, <1>7, <1>8 DEF WithinCaps

LEMMA BudgetInit == Init => BudgetInv
<1> SUFFICES ASSUME Init PROVE BudgetInv
  OBVIOUS
<1>1. Turns = {}
  BY DEF Init, Turns
<1> QED BY <1>1 DEF BudgetInv

LEMMA BudgetNext == TypeInv /\ TurnInv /\ BudgetInv /\ [Next]_vars => BudgetInv'
<1> SUFFICES ASSUME TypeInv, TurnInv, BudgetInv, [Next]_vars, edits' = 0 PROVE \A q \in Turns' : WithinCaps(q)'
  BY DEF BudgetInv
<1>0. edits = 0
  BY Settles
<1>1. \A q \in Turns : WithinCaps(q)'
  <2>1. \A q \in Turns : WithinCaps(q)
    BY <1>0 DEF BudgetInv
  <2> QED BY <2>1, WithinKept
<1>2. CASE admitted' = admitted
  <2>1. Turns' = Turns
    BY <1>2 DEF Turns
  <2> QED BY <1>1, <2>1
<1>3. ASSUME NEW r \in Requests, Admit(r) PROVE \A q \in Turns' : WithinCaps(q)'
  <2>1. Turns' = Turns \cup {r}
    BY <1>3, Admits
  <2>2. WithinCaps(r)'
    BY <1>3, AdmittedWithin
  <2> QED BY <1>1, <2>1, <2>2
<1> QED BY <1>2, <1>3, Settles

-----------------------------------------------------------------------------
(* What a cap is exceeded by. *)

\* Some admission of a set is its last.
LEMMA LatestIs ==
    ASSUME TypeInv, TurnInv, NEW S \in SUBSET Turns, S # {}
    PROVE  Latest(S) \in S /\ \A x \in S : admitted[x].turn <= admitted[Latest(S)].turn
<1> DEFINE N == Cardinality(Turns)
           B == {k \in Nat : \E x \in S : k = N - admitted[x].turn}
<1>1. N \in Nat
  <2>1. Turns \in SUBSET Requests
    BY DEF Turns
  <2> QED BY <2>1, NamesAssumption, SubsetFinite, FS_CardinalityType
<1>2. \A x \in S : admitted[x].turn \in Nat /\ admitted[x].turn < N
  <2>1. \A x \in S : admitted[x] \in Admission
    BY DEF Turns, TypeInv, AdmissionsTyped
  <2> QED BY <2>1 DEF Admission, TurnInv
<1> HIDE DEF N
<1>3. \A x \in S : N - admitted[x].turn \in B
  BY <1>1, <1>2
<1>4. B \subseteq Nat /\ B # {}
  BY <1>3
<1>5. PICK m \in B : \A k \in B : m <= k
  <2> HIDE DEF B
  <2> QED BY <1>4, Least
<1>6. PICK y \in S : m = N - admitted[y].turn
  OBVIOUS
<1>7. \A x \in S : admitted[x].turn <= admitted[y].turn
  BY <1>1, <1>2, <1>3, <1>5, <1>6
<1>8. \E r \in S : \A x \in S : admitted[x].turn <= admitted[r].turn
  BY <1>7
<1> QED BY <1>8 DEF Latest

(* A set of rows of which D, what the last admission was decided on, holds  *)
(* all that was not beside it.                                              *)
LEMMA Contained ==
    ASSUME TypeInv, TurnInv, NEW cap \in Nat \cup {Unset},
           NEW S \in SUBSET Turns, \A x \in S : rows[x] # None,
           NEW D, S # {} => Under(D, cap) /\ D \subseteq Settled(Latest(S)),
           \A x \in S : x \in Settled(Latest(S)) => x \in D
    PROVE  ContainedBy(S, cap)
<1> SUFFICES ASSUME cap # Unset, S # {} PROVE Total(S \ ({Latest(S)} \cup admitted[Latest(S)].beside)) < cap
  BY DEF ContainedBy
<1> DEFINE q == Latest(S)
           R == S \ ({q} \cup admitted[q].beside)
<1>0. Turns \subseteq Requests
  BY DEF Turns
<1>1. q \in S /\ \A x \in S : admitted[x].turn <= admitted[q].turn
  BY LatestIs
<1> HIDE DEF q
<1>2. ASSUME NEW x \in R PROVE x \in D
  <2>1. x \in S /\ x # q /\ x \notin admitted[q].beside
    OBVIOUS
  <2>2. admitted[x].turn # admitted[q].turn
    BY <1>1, <2>1 DEF TurnInv
  <2>3. admitted[x].turn \in Nat /\ admitted[q].turn \in Nat
    <3>1. admitted[x] \in Admission /\ admitted[q] \in Admission
      BY <1>1, <2>1 DEF Turns, TypeInv, AdmissionsTyped
    <3> QED BY <3>1 DEF Admission
  <2>4. admitted[x].turn < admitted[q].turn
    BY <1>1, <2>1, <2>2, <2>3
  <2>5. x \in Settled(q)
    BY <1>0, <2>1, <2>4 DEF Settled, Before
  <2> QED BY <2>1, <2>5 DEF q
<1>3. /\ D \in SUBSET (Requests \cup Imports) /\ \A x \in D : rows[x] # None
      /\ TotalIn(rows, D) < cap
  BY DEF Settled, Under
<1>4. R \in SUBSET D
  BY <1>2
<1> HIDE DEF R
<1>5. Total(R) \in Nat /\ Total(D) \in Nat /\ Total(R) <= Total(D)
  BY <1>3, <1>4, TotalGrows
<1>6. Total(D) = TotalIn(rows, D)
  BY DEF Total, TotalIn
<1>7. Total(R) < cap
  BY <1>3, <1>5, <1>6
<1> QED BY <1>7 DEF R, q

\* The budget invariant bounds the day, the session and every window.
LEMMA OvershootBounded == TypeInv /\ TurnInv /\ BudgetInv => OvershootOnlyInFlight
<1> SUFFICES ASSUME TypeInv, TurnInv, BudgetInv, edits = 0
             PROVE  /\ \A d \in Midnights : ContainedBy(ChargedDay(d), config.daily)
                    /\ \A s \in Sessions : ContainedBy(ChargedTo(s), config.session)
                    /\ \A t \in 0 .. now : ContainedBy(Charged(t - WindowMs, t + 1), config.runaway)
  BY DEF OvershootOnlyInFlight
<1>c. /\ config.daily \in Nat \cup {Unset} /\ config.session \in Nat \cup {Unset}
      /\ config.runaway \in Nat \cup {Unset}
  <2>1. config \in [daily : Nat \cup {Unset}, session : Nat \cup {Unset},
                    runaway : Nat \cup {Unset}, includeImported : BOOLEAN]
    BY ConfigsAssumption DEF TypeInv
  <2> QED BY <2>1
<1>b. \A q \in Turns : WithinCaps(q)
  BY DEF BudgetInv
<1>1. ASSUME NEW d \in Midnights PROVE ContainedBy(ChargedDay(d), config.daily)
  <2> DEFINE S == ChargedDay(d)
             q == Latest(S)
             D == OfDay(q)
  <2>1. S \in SUBSET Turns /\ \A x \in S : rows[x] # None
    BY DEF ChargedDay, Charged, Turns
  <2>2. \A x \in S : rows[x].ts \in d .. (d + DayMs) - 1 /\ startOfLocalDay(admitted[x].at) = d
    BY DEF ChargedDay, Charged
  <2> HIDE DEF S
  <2>3. S # {} => q \in S
    BY <2>1, LatestIs
  <2> HIDE DEF q
  <2>4. S # {} => Under(D, config.daily) /\ D \subseteq Settled(q)
    BY <1>b, <2>1, <2>3 DEF WithinCaps, OfDay
  <2>5. \A x \in S : x \in Settled(q) => x \in D
    BY <2>2, <2>3 DEF OfDay, endOfLocalDay
  <2> HIDE DEF D
  <2>6. ContainedBy(S, config.daily)
    BY <1>c, <2>1, <2>4, <2>5, Contained DEF q
  <2> QED BY <2>6 DEF S
<1>2. ASSUME NEW s \in Sessions PROVE ContainedBy(ChargedTo(s), config.session)
  <2> DEFINE S == ChargedTo(s)
             q == Latest(S)
             D == OfItsSession(q)
  <2>1. S \in SUBSET Turns /\ \A x \in S : rows[x] # None
    BY DEF ChargedTo, Turns
  <2>2. \A x \in S : SessionOf[x] = s
    BY DEF ChargedTo
  <2> HIDE DEF S
  <2>3. S # {} => q \in S
    BY <2>1, LatestIs
  <2> HIDE DEF q
  <2>4. S # {} => Under(D, config.session) /\ D \subseteq Settled(q)
    BY <1>b, <2>1, <2>2, <2>3, SessionAssumption DEF WithinCaps, OfItsSession
  <2>5. \A x \in S : x \in Settled(q) => x \in D
    BY <2>2, <2>3 DEF OfItsSession
  <2> HIDE DEF D
  <2>6. ContainedBy(S, config.session)
    BY <1>c, <2>1, <2>4, <2>5, Contained DEF q
  <2> QED BY <2>6 DEF S
<1>3. ASSUME NEW t \in 0 .. now PROVE ContainedBy(Charged(t - WindowMs, t + 1), config.runaway)
  <2> DEFINE S == Charged(t - WindowMs, t + 1)
             q == Latest(S)
             D == OfWindow(q)
  <2>0. t \in Int /\ WindowMs \in Int /\ now \in Int
    BY TimeAssumption DEF TypeInv
  <2>1. S \in SUBSET Turns /\ \A x \in S : rows[x] # None
    BY DEF Charged, Turns
  <2>2. ASSUME NEW x \in S
        PROVE  /\ rows[x].ts \in Int /\ t - WindowMs <= rows[x].ts /\ rows[x].ts <= admitted[x].at
               /\ admitted[x].at \in Int /\ admitted[x].at <= t
               /\ admitted[x].turn \in Nat
    <3>1. x \in Requests /\ rows[x] # None /\ admitted[x] # None
          /\ rows[x].ts \in t - WindowMs .. (t + 1) - 1 /\ admitted[x].at < t + 1
      BY DEF Charged
    <3>2. rows[x].ts = startedAt[x] /\ startedAt[x] <= admitted[x].at
      BY <3>1 DEF TypeInv, RowsOwned, AdmissionsTyped
    <3>3. admitted[x] \in Admission
      BY <3>1 DEF TypeInv, AdmissionsTyped
    <3>4. admitted[x].at \in Nat /\ admitted[x].turn \in Nat
      BY <3>3 DEF Admission
    <3> QED BY <2>0, <3>1, <3>2, <3>4
  <2> HIDE DEF S
  <2>3. S # {} => q \in S
    BY <2>1, LatestIs
  <2> HIDE DEF q
  <2>4. S # {} => Under(D, config.runaway) /\ D \subseteq Settled(q)
    BY <1>b, <2>1, <2>3 DEF WithinCaps, OfWindow
  <2>5. ASSUME NEW x \in S, x \in Settled(q) PROVE x \in D
    <3>1. q \in S
      BY <2>3
    <3>2. admitted[x].turn < admitted[q].turn
      BY <2>5 DEF Settled, Before
    <3>3. admitted[x].at <= admitted[q].at
      BY <2>1, <3>1, <3>2 DEF TurnInv
    <3>4. rows[x].ts \in admitted[q].at - WindowMs .. admitted[q].at
      BY <2>0, <2>2, <3>1, <3>3
    <3> QED BY <2>5, <3>4 DEF OfWindow
  <2> HIDE DEF D
  <2>6. ContainedBy(S, config.runaway)
    BY <1>c, <2>1, <2>4, <2>5, Contained DEF q
  <2> QED BY <2>6 DEF S
<1> QED BY <1>1, <1>2, <1>3

(***************************************************************************)
(* While no operator edits caps or rows, what the requests admitted on the *)
(* local day they arrived on, those of a session, or those of any runaway  *)
(* window cost is below the cap once the last admitted and those in flight *)
(* beside it are left out: the guard decides before a cost is known, and a *)
(* cap is exceeded by nothing that had ended when it did.                  *)
(***************************************************************************)
THEOREM OvershootIsInFlight == Spec => []OvershootOnlyInFlight
  BY OvershootBounded, TypeInit, TypeNext, TurnInit, TurnNext, BudgetInit, BudgetNext, PTL DEF Spec

-----------------------------------------------------------------------------
(* The spend cache. *)

\* What a part of the request rows, and of the events, names.
ScopedIn(T, S) == {T[i].id : i \in {j \in S : T[j].scoped}}
ChargedIn(E, S) == {E[i].id : i \in {j \in S : E[j].kind = "charge" /\ E[j].scoped}}
PlainAfter(E, k) == \A i \in k + 1 .. Len(E) : E[i].kind = "charge"

Deltas(E) == [i \in DOMAIN E |-> E[i].delta]
CorrectionsOf(E, id) == {i \in DOMAIN E : E[i].kind = "price_corrected" /\ E[i].id = id}
Values(E) == [id \in Nat |-> 1 + Sum(Deltas(E), CorrectionsOf(E, id))]

\* The effective spend on the rows T of the charges among the first k events.
Worth(T, E, k) == Sum(Values(E), ScopedIn(T, DOMAIN T) \cap ChargedIn(E, 1 .. k))

AfterEvents == {"requests_version", "requests_max", "requests_count", "serve", "ids", "charges", "rows",
                "extend", "full_rows", "full_events", "rebuild", "done"}
AfterMarks == AfterEvents \ {"requests_version", "requests_max", "requests_count"}
ReadSteps == AfterEvents \cup {"idle", "events_version", "events_max", "events_count"}
Extending == {"ids", "charges", "rows", "extend"}

RequestRows == [id : Nat, scoped : BOOLEAN, old : BOOLEAN]
SpendEvents == [kind : {"charge", "price_corrected"}, id : Nat, delta : {-1, 0, 1}, scoped : BOOLEAN]
Marks == [rowid : Nat, count : Int]
Results == [amount : Int, requests : Int, unresolved : Int]

TablesTyped ==
    /\ clock \in Int /\ issued \in Nat /\ foreign \in Nat /\ prunes \in Nat
    /\ \E n \in Nat : DOMAIN table \subseteq 1 .. n
    /\ table \in [DOMAIN table -> RequestRows]
    /\ \A i \in DOMAIN table : table[i].id \in 1 .. issued
    /\ \A i, j \in DOMAIN table : table[i].id = table[j].id => i = j
    /\ events \in Seq(SpendEvents)
    /\ \A i \in DOMAIN events : events[i].id \in 1 .. issued
    /\ \A i, j \in Corrections : events[i].id = events[j].id => i = j

\* What a read holds: ids of requests that were inserted.
ReadRecord ==
    [start : Nat, version : Nat, max : Nat, mark : [Tables -> Marks \cup {Absent}],
     ids : SUBSET (1 .. issued), charges : SUBSET (1 .. issued), rows : SUBSET (1 .. issued),
     result : Results \cup {Absent}]
Bases == [rowid : Nat, count : Int, at : Int, version : Nat]
Entries == [mark : [Tables -> Marks], projection : Results, at : Int]

ReadTyped ==
    /\ pc \in ReadSteps
    /\ read \in ReadRecord
    /\ pc \in AfterEvents => read.mark["events"] \in Marks
    /\ pc \in AfterMarks => read.mark["requests"] \in Marks
    /\ pc = "done" => read.result \in Results
    /\ pc \in Extending => cache # Absent
    /\ cache # Absent => cache \in Entries
    /\ base \in [Tables -> Bases \cup {Absent}]

\* The two marks of the events, the cached one and the one that was just read.
CachedEvents == cache.mark["events"].rowid
ReadEvents == read.mark["events"].rowid

\* What was appended between them.
ReadSince == ChargedIn(events, CachedEvents + 1 .. ReadEvents)

MarkInv ==
    /\ read.start <= foreign
    /\ pc = "events_count" => read.max <= Len(events) /\ (read.start = foreign => read.max = Len(events))
    /\ pc \in AfterEvents => /\ ReadEvents <= Len(events)
                             /\ read.start = foreign => ReadEvents = Len(events)
    /\ pc \in Extending => \A i \in CachedEvents + 1 .. ReadEvents : events[i].kind = "charge"

ListInv ==
    /\ pc \in {"charges", "rows"} /\ "renumbering" \notin taint.read =>
          \A i \in DOMAIN table : table[i].id \in read.ids => i > cache.mark["requests"].rowid
    /\ pc = "rows" => ReadSince \subseteq read.charges /\ read.charges \subseteq read.ids
    /\ pc = "extend" /\ "renumbering" \notin taint.read =>
          ScopedIn(table, DOMAIN table) \cap ReadSince \subseteq read.rows \cap read.charges
    /\ pc \in {"full_events", "rebuild"} =>
          ScopedIn(table, DOMAIN table) \cap ChargedIn(events, 1 .. ReadEvents) \subseteq read.rows
    /\ pc = "rebuild" => ChargedIn(events, 1 .. ReadEvents) \subseteq read.charges

CoveredInv ==
    /\ cache # Absent => /\ CachedEvents <= Len(events)
                         /\ "renumbering" \notin taint.cache /\ PlainAfter(events, CachedEvents) =>
                               cache.projection.amount >= Worth(table, events, CachedEvents)
    /\ pc = "done" /\ read.start = foreign /\ "renumbering" \notin taint.cache =>
          read.result.amount >= Worth(table, events, Len(events))

ShortInv == MarkInv /\ ListInv /\ CoveredInv

\* What others did inside a read is known while it is under way, and was a commit.
TaintInv ==
    /\ taint \in [read : Taints, cache : Taints]
    /\ taint.read # {} => pc # "idle" /\ read.start < foreign

-----------------------------------------------------------------------------
(* The tables: rows and events that are there stay as they are. *)

LEMMA TableFinite == ASSUME TablesTyped PROVE IsFiniteSet(DOMAIN table) /\ DOMAIN table \subseteq Nat
<1>1. PICK n \in Nat : DOMAIN table \subseteq 1 .. n
  BY DEF TablesTyped
<1>2. IsFiniteSet(1 .. n)
  BY FS_Interval
<1> QED BY <1>1, <1>2, FS_Subset

LEMMA EventsAt ==
    ASSUME TablesTyped
    PROVE  /\ DOMAIN events = 1 .. Len(events) /\ Len(events) \in Nat /\ IsFiniteSet(DOMAIN events)
           /\ \A i \in DOMAIN events : events[i] \in SpendEvents /\ events[i].id \in 1 .. issued
<1>1. DOMAIN events = 1 .. Len(events) /\ Len(events) \in Nat
  BY DEF TablesTyped
<1>2. IsFiniteSet(1 .. Len(events))
  BY <1>1, FS_Interval
<1> QED BY <1>1, <1>2 DEF TablesTyped

\* MAX(rowid)
LEMMA LargestRowId ==
    ASSUME TablesTyped
    PROVE  /\ MaxRowId("events") = Len(events)
           /\ MaxRowId("requests") \in Nat
           /\ \A i \in DOMAIN table : i \in 1 .. MaxRowId("requests")
           /\ DOMAIN table # {} => MaxRowId("requests") \in DOMAIN table
<1>1. MaxRowId("events") = Len(events)
  <2>1. CASE Len(events) = 0
    BY <2>1, EventsAt DEF MaxRowId, RowIds
  <2>2. CASE Len(events) # 0
    <3> DEFINE S == 1 .. Len(events)
    <3>1. S \subseteq Nat /\ S # {} /\ Len(events) \in S /\ (\A k \in S : k <= Len(events)) /\ Len(events) \in Nat
      BY <2>2, EventsAt
    <3> HIDE DEF S
    <3>2. Max(S) \in S /\ \A k \in S : k <= Max(S)
      BY <3>1, MaxIs
    <3>3. Max(S) = Len(events)
      <4>1. Max(S) \in Nat /\ Max(S) <= Len(events) /\ Len(events) <= Max(S)
        BY <3>1, <3>2, Zenon
      <4>2. \A a, b \in Nat : a <= b /\ b <= a => a = b
        OBVIOUS
      <4> QED BY <3>1, <4>1, <4>2, Zenon
    <3> QED BY <3>1, <3>3, EventsAt DEF MaxRowId, RowIds, S
  <2> QED BY <2>1, <2>2
<1>2. PICK n \in Nat : DOMAIN table \subseteq 1 .. n
  BY DEF TablesTyped
<1>3. CASE DOMAIN table = {}
  BY <1>1, <1>3 DEF MaxRowId, RowIds
<1>4. CASE DOMAIN table # {}
  <2> DEFINE S == DOMAIN table
  <2>1. S \subseteq Nat /\ S # {} /\ (\A k \in S : k <= n /\ k >= 1)
    BY <1>2, <1>4
  <2>2. MaxRowId("requests") = Max(S)
    BY <1>4 DEF MaxRowId, RowIds
  <2> HIDE DEF S
  <2>3. Max(S) \in S /\ \A k \in S : k <= Max(S)
    BY <2>1, MaxIs
  <2>4. Max(S) \in Nat /\ \A k \in S : k \in 1 .. Max(S)
    <3>1. Max(S) \in Nat
      BY <2>1, <2>3, Zenon
    <3>2. ASSUME NEW k \in S PROVE k \in 1 .. Max(S)
      <4>1. k \in Nat /\ k >= 1 /\ k <= Max(S)
        BY <2>1, <2>3, Zenon
      <4> QED BY <3>1, <4>1
    <3> QED BY <3>1, <3>2
  <2> QED BY <1>1, <2>2, <2>3, <2>4 DEF S
<1> QED BY <1>3, <1>4

\* Rows and events that were there are still what they were.
Grows ==
    /\ issued <= issued' /\ foreign <= foreign' /\ prunes <= prunes'
    /\ Len(events) <= Len(events') /\ \A i \in DOMAIN events : events'[i] = events[i]
    /\ \A i \in DOMAIN table' : table'[i].id <= issued => \E j \in DOMAIN table : table[j] = table'[i]

\* They are even at the same place.
Stays == \A i \in DOMAIN table' : table'[i].id <= issued => i \in DOMAIN table /\ table[i] = table'[i]

LEMMA InsertGrows ==
    ASSUME TablesTyped, NEW scoped \in BOOLEAN, NEW old \in BOOLEAN, NEW priced \in BOOLEAN,
           Insert(scoped, old, priced), clock' = clock, foreign' \in Nat, foreign <= foreign', prunes' = prunes
    PROVE  /\ TablesTyped' /\ Grows /\ Stays
           /\ issued' = issued + 1
           /\ DOMAIN table' = DOMAIN table \cup {MaxRowId("requests") + 1}
           /\ \A i \in DOMAIN table' : table'[i] = IF i \in DOMAIN table THEN table[i]
                                                  ELSE [id |-> issued + 1, scoped |-> scoped, old |-> old]
<1> DEFINE m == MaxRowId("requests") + 1
<1>1. m \in Nat /\ m \notin DOMAIN table /\ m >= 1 /\ \A i \in DOMAIN table : i \in 1 .. m
  BY LargestRowId
<1>2. issued' = issued + 1 /\ issued \in Nat /\ issued' \in Nat
  BY DEF Insert, TablesTyped
<1> DEFINE row == [id |-> issued + 1, scoped |-> scoped, old |-> old]
<1>3. table' = [i \in DOMAIN table \cup {m} |-> IF i \in DOMAIN table THEN table[i] ELSE row]
  BY <1>2 DEF Insert
<1>4. row \in RequestRows /\ row.id = issued + 1
  BY <1>2 DEF RequestRows
<1> HIDE DEF m, row
<1>5. DOMAIN table' = DOMAIN table \cup {m} /\ \A i \in DOMAIN table' : table'[i] = IF i \in DOMAIN table THEN table[i] ELSE row
  BY <1>3
<1>6. \A i \in DOMAIN table : table[i] \in RequestRows /\ table[i].id \in 1 .. issued
  BY DEF TablesTyped
<1>7. table' \in [DOMAIN table' -> RequestRows]
  BY <1>3, <1>4, <1>5, <1>6
<1>8. \A i \in DOMAIN table' : table'[i].id \in 1 .. issued'
  BY <1>2, <1>4, <1>5, <1>6
<1>9. \A i, j \in DOMAIN table' : table'[i].id = table'[j].id => i = j
  <2>1. \A i, j \in DOMAIN table : table[i].id = table[j].id => i = j
    BY DEF TablesTyped
  <2>2. \A i \in DOMAIN table : table[i].id # issued + 1
    BY <1>2, <1>6
  <2> QED BY <1>4, <1>5, <2>1, <2>2
<1>10. \E n \in Nat : DOMAIN table' \subseteq 1 .. n
  BY <1>1, <1>5
<1>11. /\ events' \in Seq(SpendEvents) /\ Len(events) <= Len(events') /\ \A i \in DOMAIN events : events'[i] = events[i]
       /\ \A i \in DOMAIN events' : events'[i].id \in 1 .. issued'
       /\ \A i \in DOMAIN events' : i \notin DOMAIN events => events'[i].kind = "charge"
  <2> DEFINE e == [kind |-> "charge", id |-> issued', delta |-> 0, scoped |-> scoped]
  <2>1. e \in SpendEvents /\ e.id = issued' /\ e.kind = "charge"
    BY <1>2 DEF SpendEvents
  <2>2. events' = IF priced THEN Append(events, e) ELSE events
    BY DEF Insert
  <2>3. events \in Seq(SpendEvents) /\ \A i \in DOMAIN events : events[i].id \in 1 .. issued
    BY DEF TablesTyped
  <2> HIDE DEF e
  <2>4. CASE ~ priced
    <3>1. events' = events
      BY <2>2, <2>4
    <3>2. \A i \in DOMAIN events : events[i].id \in 1 .. issued'
      BY <1>2, <2>3
    <3> QED BY <2>3, <3>1, <3>2
  <2>5. CASE priced
    <3>1. events' = Append(events, e)
      BY <2>2, <2>5
    <3>2. /\ events' \in Seq(SpendEvents) /\ Len(events') = Len(events) + 1 /\ Len(events) \in Nat
          /\ DOMAIN events' = 1 .. Len(events) + 1 /\ DOMAIN events = 1 .. Len(events)
          /\ \A i \in 1 .. Len(events) : events'[i] = events[i]
          /\ events'[Len(events) + 1] = e
      BY <2>1, <2>3, <3>1
    <3>3. \A i \in DOMAIN events' : i \in DOMAIN events \/ i = Len(events) + 1
      BY <3>2
    <3>4. \A i \in DOMAIN events' : events'[i].id \in 1 .. issued'
      <4>1. issued' \in 1 .. issued' /\ \A k \in 1 .. issued : k \in 1 .. issued'
        BY <1>2
      <4> QED BY <2>1, <2>3, <3>2, <3>3, <4>1
    <3> QED BY <2>1, <3>2, <3>3, <3>4
  <2> QED BY <2>4, <2>5
<1>12. \A i, j \in Corrections' : events'[i].id = events'[j].id => i = j
  <2>1. \A i \in Corrections' : i \in Corrections /\ events'[i] = events[i]
    BY <1>11 DEF Corrections
  <2> QED BY <2>1 DEF TablesTyped
<1>13. TablesTyped'
  BY <1>2, <1>7, <1>8, <1>9, <1>10, <1>11, <1>12 DEF TablesTyped
<1>14. Stays
  BY <1>2, <1>4, <1>5 DEF Stays
<1>15. Grows
  BY <1>2, <1>11, <1>14 DEF Grows, Stays, TablesTyped
<1> QED BY <1>2, <1>5, <1>13, <1>14, <1>15 DEF m, row

LEMMA RepriceGrows ==
    ASSUME TablesTyped, RepriceApply
    PROVE  TablesTyped' /\ Grows /\ Stays
<1>1. PICK id \in ScopedRows(DOMAIN table) \cap ChargesOf(DOMAIN events), d \in {-1, 1} :
        /\ \A i \in Corrections : events[i].id # id
        /\ events' = Append(events, [kind |-> "price_corrected", id |-> id, delta |-> d, scoped |-> TRUE])
  BY DEF RepriceApply
<1>2. UNCHANGED <<clock, table, issued, prunes>> /\ foreign' = foreign + 1
  BY DEF RepriceApply, Foreign
<1>3. id \in 1 .. issued /\ issued \in Nat
  BY DEF ScopedRows, TablesTyped
<1> DEFINE e == [kind |-> "price_corrected", id |-> id, delta |-> d, scoped |-> TRUE]
<1>4. e \in SpendEvents /\ e.id = id /\ e.kind = "price_corrected"
  BY <1>3 DEF SpendEvents
<1>5. events \in Seq(SpendEvents) /\ events' = Append(events, e)
  BY <1>1 DEF TablesTyped
<1> HIDE DEF e
<1>6. /\ events' \in Seq(SpendEvents) /\ Len(events') = Len(events) + 1 /\ Len(events) \in Nat
      /\ DOMAIN events' = 1 .. Len(events) + 1 /\ DOMAIN events = 1 .. Len(events)
      /\ \A i \in 1 .. Len(events) : events'[i] = events[i]
      /\ events'[Len(events) + 1] = e
  BY <1>4, <1>5
<1>7. \A i \in DOMAIN events' : i \in DOMAIN events \/ i = Len(events) + 1
  BY <1>6
<1>8. \A i \in DOMAIN events' : events'[i].id \in 1 .. issued
  BY <1>3, <1>4, <1>6, <1>7 DEF TablesTyped
<1>9. \A i, j \in Corrections' : events'[i].id = events'[j].id => i = j
  <2>1. \A i \in Corrections' : \/ i \in Corrections /\ events'[i] = events[i]
                                \/ i = Len(events) + 1
    BY <1>6, <1>7 DEF Corrections
  <2>2. \A i \in Corrections : events[i].id # id
    BY <1>1
  <2>3. \A i, j \in Corrections : events[i].id = events[j].id => i = j
    BY DEF TablesTyped
  <2> QED BY <1>4, <1>6, <2>1, <2>2, <2>3
<1>10. TablesTyped'
  <2>1. /\ \E n \in Nat : DOMAIN table' \subseteq 1 .. n
        /\ table' \in [DOMAIN table' -> RequestRows]
        /\ \A i \in DOMAIN table' : table'[i].id \in 1 .. issued'
        /\ \A i, j \in DOMAIN table' : table'[i].id = table'[j].id => i = j
        /\ clock' \in Int /\ issued' \in Nat /\ foreign' \in Nat /\ prunes' \in Nat
    BY <1>2 DEF TablesTyped
  <2>2. \A i \in DOMAIN events' : events'[i].id \in 1 .. issued'
    BY <1>2, <1>8
  <2> QED BY <1>6, <1>9, <2>1, <2>2 DEF TablesTyped
<1>11. Stays
  BY <1>2 DEF Stays
<1>12. Grows
  <2>1. issued <= issued' /\ foreign <= foreign' /\ prunes <= prunes'
    BY <1>2 DEF TablesTyped
  <2> QED BY <1>2, <1>6, <2>1 DEF Grows
<1> QED BY <1>10, <1>11, <1>12

LEMMA PruneGrows ==
    ASSUME TablesTyped, Prune
    PROVE  TablesTyped' /\ Grows /\ Stays
<1>1. /\ UNCHANGED <<clock, issued, events>> /\ foreign' = foreign + 1 /\ prunes' = prunes + 1
      /\ table' = [i \in {j \in DOMAIN table : ~ table[j].old} |-> table[i]]
  BY DEF Prune, Foreign, Restrict
<1>2. DOMAIN table' \subseteq DOMAIN table /\ \A i \in DOMAIN table' : table'[i] = table[i]
  BY <1>1
<1>3. /\ \E n \in Nat : DOMAIN table' \subseteq 1 .. n
      /\ \A i \in DOMAIN table' : table'[i].id \in 1 .. issued
      /\ \A i, j \in DOMAIN table' : table'[i].id = table'[j].id => i = j
  BY <1>2 DEF TablesTyped
<1>4. table' \in [DOMAIN table' -> RequestRows]
  <2>1. \A i \in DOMAIN table' : table'[i] \in RequestRows
    BY <1>2 DEF TablesTyped
  <2> QED BY <1>1, <2>1
<1>5. /\ events' \in Seq(SpendEvents) /\ \A i \in DOMAIN events' : events'[i].id \in 1 .. issued'
      /\ \A i, j \in Corrections' : events'[i].id = events'[j].id => i = j
      /\ clock' \in Int /\ issued' \in Nat /\ foreign' \in Nat /\ prunes' \in Nat
  BY <1>1 DEF TablesTyped, Corrections
<1>6. TablesTyped'
  BY <1>1, <1>3, <1>4, <1>5 DEF TablesTyped
<1>7. Stays
  BY <1>2 DEF Stays
<1>8. Grows
  <2>1. issued <= issued' /\ foreign <= foreign' /\ prunes <= prunes' /\ Len(events) <= Len(events')
    BY <1>1, EventsAt DEF TablesTyped
  <2> QED BY <1>1, <1>2, <2>1 DEF Grows
<1> QED BY <1>6, <1>7, <1>8

\* The elements of a finite set of naturals have all the ranks up to its size.
LEMMA RanksTaken ==
    ASSUME NEW D, IsFiniteSet(D), D \subseteq Nat, NEW n \in 1 .. Cardinality(D)
    PROVE  \E i \in D : Cardinality({j \in D : j <= i}) = n
<1> DEFINE Rank(i) == Cardinality({j \in D : j <= i})
           c == Cardinality(D)
<1>0. c \in Nat
  BY FS_CardinalityType
<1>1. ASSUME NEW i \in D PROVE Rank(i) \in 1 .. c
  <2> DEFINE B == {j \in D : j <= i}
  <2>1. i \in Nat
    BY Zenon
  <2>2. i \in B
    BY <2>1
  <2>3. B \subseteq D
    OBVIOUS
  <2> HIDE DEF B
  <2>4. IsFiniteSet(B) /\ Cardinality(B) <= Cardinality(D) /\ Cardinality(B) \in Nat
    BY <2>3, FS_Subset, FS_CardinalityType
  <2>5. Cardinality(B) # 0
    BY <2>2, <2>4, FS_EmptySet
  <2>6. Cardinality(B) \in 1 .. c
    BY <1>0, <2>4, <2>5
  <2> QED BY <2>6 DEF B
<1>2. ASSUME NEW i \in D, NEW k \in D, i < k PROVE Rank(i) # Rank(k)
  <2> DEFINE B == {j \in D : j <= i}
             C == {j \in D : j <= k}
  <2>1. i \in Nat /\ k \in Nat
    BY Zenon
  <2>2. \A j \in D : j \in Nat
    BY Zenon
  <2>3. B \subseteq C \ {k} /\ C \subseteq D /\ k \in C
    <3>1. \A j \in D : j <= i => j <= k /\ j # k
      BY <1>2, <2>1, <2>2
    <3>2. k <= k
      BY <2>1
    <3> QED BY <3>1, <3>2, Zenon
  <2> HIDE DEF B, C
  <2>4. IsFiniteSet(C) /\ IsFiniteSet(C \ {k})
    BY <2>3, FS_Subset
  <2>5. Cardinality(C \ {k}) = Cardinality(C) - 1 /\ Cardinality(C) \in Nat
    BY <2>3, <2>4, FS_RemoveElement, FS_CardinalityType
  <2>6. Cardinality(B) <= Cardinality(C \ {k}) /\ Cardinality(B) \in Nat
    BY <2>3, <2>4, FS_Subset, FS_CardinalityType
  <2>7. Cardinality(B) # Cardinality(C)
    BY <2>5, <2>6
  <2> QED BY <2>7 DEF B, C
<1>3. \A i, k \in D : i # k => Rank(i) # Rank(k)
  <2> SUFFICES ASSUME NEW i \in D, NEW k \in D, i # k PROVE Rank(i) # Rank(k)
    OBVIOUS
  <2>1. i \in Nat /\ k \in Nat
    BY Zenon
  <2> HIDE DEF Rank
  <2>2. CASE i < k
    BY <1>2, <2>2
  <2>3. CASE k < i
    BY <1>2, <2>3
  <2> QED BY <2>1, <2>2, <2>3
<1> HIDE DEF Rank
<1> SUFFICES ASSUME \A i \in D : Rank(i) # n PROVE FALSE
  BY DEF Rank
<1> DEFINE T == (1 .. c) \ {n}
           f == [i \in D |-> Rank(i)]
<1>4. f \in [D -> T]
  BY <1>1
<1>5. IsFiniteSet(T) /\ Cardinality(T) < Cardinality(D)
  <2>1. IsFiniteSet(1 .. c) /\ Cardinality(1 .. c) = c
    BY <1>0, FS_Interval
  <2>2. n \in 1 .. c
    OBVIOUS
  <2>3. IsFiniteSet(T) /\ Cardinality(T) = c - 1
    <3> DEFINE I == 1 .. c
    <3>1. IsFiniteSet(I) /\ n \in I /\ Cardinality(I) = c
      BY <2>1, <2>2
    <3> HIDE DEF I
    <3>2. IsFiniteSet(I \ {n}) /\ Cardinality(I \ {n}) = Cardinality(I) - 1
      BY <3>1, FS_RemoveElement
    <3> QED BY <3>1, <3>2 DEF I
  <2> HIDE DEF T
  <2> QED BY <1>0, <2>3
<1> HIDE DEF T
<1>6. \E x, y \in D : x # y /\ f[x] = f[y]
  <2> HIDE DEF f
  <2> QED BY <1>4, <1>5, FS_PigeonHole
<1> QED BY <1>3, <1>6

LEMMA VacuumGrows ==
    ASSUME TablesTyped, Vacuum
    PROVE  TablesTyped' /\ Grows /\ prunes # 0
<1> DEFINE D == DOMAIN table
           c == Cardinality(D)
           Place(n) == CHOOSE i \in D : Cardinality({j \in D : j <= i}) = n
<1>0. IsFiniteSet(D) /\ D \subseteq Nat /\ c \in Nat
  BY TableFinite, FS_CardinalityType
<1>1. /\ UNCHANGED <<clock, issued, events, prunes>> /\ foreign' = foreign + 1 /\ prunes > 0
      /\ table' = [n \in 1 .. c |-> table[Place(n)]]
  BY DEF Vacuum, Foreign
<1>2. ASSUME NEW n \in 1 .. c
      PROVE  Place(n) \in D /\ Cardinality({j \in D : j <= Place(n)}) = n
  <2>1. \E i \in D : Cardinality({j \in D : j <= i}) = n
    <3> HIDE DEF D
    <3> QED BY <1>0, RanksTaken
  <2> QED BY <2>1
<1>3. \A n, m \in 1 .. c : Place(n) = Place(m) => n = m
  <2> HIDE DEF Place
  <2> QED BY <1>2, Zenon
<1>4. \A n \in 1 .. c : Place(n) \in D
  BY <1>2
<1> HIDE DEF Place, c
<1>5. DOMAIN table' = 1 .. c /\ \A n \in 1 .. c : table'[n] = table[Place(n)]
  BY <1>1
<1>6. \A i \in D : table[i] \in RequestRows /\ table[i].id \in 1 .. issued
  BY DEF TablesTyped
<1>7. \A i, j \in D : table[i].id = table[j].id => i = j
  BY DEF TablesTyped
<1> HIDE DEF D
<1>8. /\ \E n \in Nat : DOMAIN table' \subseteq 1 .. n
      /\ table' \in [DOMAIN table' -> RequestRows]
      /\ \A i \in DOMAIN table' : table'[i].id \in 1 .. issued
  BY <1>0, <1>1, <1>4, <1>5, <1>6
<1>9. \A i, j \in DOMAIN table' : table'[i].id = table'[j].id => i = j
  BY <1>3, <1>4, <1>5, <1>7
<1>10. /\ events' \in Seq(SpendEvents) /\ \A i \in DOMAIN events' : events'[i].id \in 1 .. issued'
       /\ \A i, j \in Corrections' : events'[i].id = events'[j].id => i = j
       /\ clock' \in Int /\ issued' \in Nat /\ foreign' \in Nat /\ prunes' \in Nat
  BY <1>1 DEF TablesTyped, Corrections
<1>11. TablesTyped'
  BY <1>1, <1>8, <1>9, <1>10 DEF TablesTyped
<1>12. Grows
  <2>1. issued <= issued' /\ foreign <= foreign' /\ prunes <= prunes' /\ Len(events) <= Len(events')
    BY <1>1, EventsAt DEF TablesTyped
  <2>2. \A i \in DOMAIN table' : \E j \in DOMAIN table : table[j] = table'[i]
    BY <1>4, <1>5 DEF D
  <2> QED BY <1>1, <2>1, <2>2 DEF Grows
<1> QED BY <1>1, <1>11, <1>12

\* A commit of this process between two reads, or of another one.
Commit == OwnInsert \/ ForeignInsert \/ RepriceApply \/ Prune \/ Vacuum

LEMMA CommitGrows ==
    ASSUME TablesTyped, Commit
    PROVE  /\ TablesTyped' /\ Grows /\ UNCHANGED <<base, cache, pc, read>>
           /\ pc = "idle" \/ foreign' = foreign + 1
           /\ Vacuum \/ Stays
<1>1. CASE OwnInsert
  <2>1. PICK scoped, priced \in BOOLEAN : Insert(scoped, FALSE, priced)
    BY <1>1 DEF OwnInsert
  <2>2. UNCHANGED <<clock, foreign, prunes, base, cache, pc, read>> /\ pc = "idle"
    BY <1>1 DEF OwnInsert
  <2>3. foreign' \in Nat /\ foreign <= foreign'
    BY <2>2 DEF TablesTyped
  <2> QED BY <2>1, <2>2, <2>3, InsertGrows
<1>2. CASE ForeignInsert
  <2>1. PICK scoped, priced \in BOOLEAN, old \in Ages : Insert(scoped, old, priced)
    BY <1>2 DEF ForeignInsert
  <2>2. UNCHANGED <<clock, prunes, base, cache, pc, read>> /\ foreign' = foreign + 1
    BY <1>2 DEF ForeignInsert, Foreign
  <2>3. foreign' \in Nat /\ foreign <= foreign' /\ old \in BOOLEAN
    BY <2>2, AgesAssumption DEF TablesTyped
  <2> QED BY <2>1, <2>2, <2>3, InsertGrows
<1>3. CASE RepriceApply
  <2>1. UNCHANGED <<base, cache, pc, read>> /\ foreign' = foreign + 1
    BY <1>3 DEF RepriceApply, Foreign
  <2> QED BY <1>3, <2>1, RepriceGrows
<1>4. CASE Prune
  <2>1. UNCHANGED <<base, cache, pc, read>> /\ foreign' = foreign + 1
    BY <1>4 DEF Prune, Foreign
  <2> QED BY <1>4, <2>1, PruneGrows
<1>5. CASE Vacuum
  <2>1. UNCHANGED <<base, cache, pc, read>> /\ foreign' = foreign + 1
    BY <1>5 DEF Vacuum, Foreign
  <2> QED BY <1>5, <2>1, VacuumGrows
<1> QED BY <1>1, <1>2, <1>3, <1>4, <1>5 DEF Commit

\* What is noted of a commit: that it fell inside a read, and what it did to the rows.
LEMMA CommitNotes ==
    ASSUME taint \in [read : Taints, cache : Taints], Commit
    PROVE  /\ taint' \in [read : Taints, cache : Taints]
           /\ taint.cache \subseteq taint'.cache
           /\ pc = "idle" /\ taint.read = {} => taint'.read = {}
           /\ pc # "idle" => taint.read \subseteq taint'.read /\ "commit" \in taint'.read
           /\ pc # "idle" /\ Vacuum => "renumbering" \in taint'.read
           /\ Prune \/ Vacuum => "removal" \in taint'.cache
<1>1. ASSUME NEW effects \in Taints, Foreign(effects)
      PROVE  /\ taint' \in [read : Taints, cache : Taints]
             /\ taint.cache \subseteq taint'.cache
             /\ pc = "idle" => taint'.read = {}
             /\ pc # "idle" => taint.read \subseteq taint'.read /\ "commit" \in taint'.read
             /\ pc # "idle" => effects \subseteq taint'.read
             /\ effects \cap {"removal"} \subseteq taint'.cache
  <2> DEFINE R == IF pc = "idle" THEN {} ELSE taint.read \cup {"commit"} \cup effects
             C == taint.cache \cup (effects \cap {"removal"})
  <2>1. taint' = [read |-> R, cache |-> C]
    BY <1>1 DEF Foreign
  <2>2. R \in Taints /\ C \in Taints
    BY DEF Taints
  <2>3. /\ taint.cache \subseteq C /\ effects \cap {"removal"} \subseteq C /\ (pc = "idle" => R = {})
        /\ pc # "idle" => taint.read \subseteq R /\ "commit" \in R /\ effects \subseteq R
    OBVIOUS
  <2> HIDE DEF R, C
  <2> QED BY <2>1, <2>2, <2>3
<1>2. {} \in Taints /\ {"removal"} \in Taints /\ {"removal", "renumbering"} \in Taints
  BY DEF Taints
<1>3. (Prune => Foreign({"removal"})) /\ (Vacuum => Foreign({"removal", "renumbering"}))
  BY DEF Prune, Vacuum
<1>4. pc # "idle" /\ Vacuum => "renumbering" \in taint'.read
  BY <1>1, <1>2, <1>3
<1>5. Prune \/ Vacuum => "removal" \in taint'.cache
  BY <1>1, <1>2, <1>3
<1>6. CASE OwnInsert
  BY <1>4, <1>5, <1>6 DEF OwnInsert
<1>7. CASE \E effects \in Taints : Foreign(effects)
  BY <1>1, <1>4, <1>5, <1>7
<1>8. Commit => OwnInsert \/ \E effects \in Taints : Foreign(effects)
  BY <1>2, <1>3 DEF Commit, ForeignInsert, RepriceApply
<1> QED BY <1>6, <1>7, <1>8

-----------------------------------------------------------------------------
(* What charges are worth. *)

ProjectIn(E, ids, charges) ==
    [amount |-> Sum(Values(E), ids \cap charges),
     requests |-> Cardinality(ids), unresolved |-> Cardinality(ids \ charges)]

\* One unfolding of the recursion in an effective charge, and in a projection's amount.
UnfoldDeltas(D, f) == [s \in D |-> IF s = {} THEN 0 ELSE events[OneOf(s)].delta + f[s \ {OneOf(s)}]]
UnfoldAmount(D, f) == [s \in D |-> IF s = {} THEN 0 ELSE Effective(OneOf(s)) + f[s \ {OneOf(s)}]]

LEMMA EffectiveIs == ASSUME NEW id \in Nat PROVE Effective(id) = Values(events)[id]
<1> DEFINE S == CorrectionsOf(events, id)
<1>1. Effective(id) = 1 + (CHOOSE f : f = UnfoldDeltas(SUBSET S, f))[S]
  BY DEF Effective, MapThenSumSet, MapThenFoldSet, UnfoldDeltas, OneOf, CorrectionsOf
<1>2. ASSUME NEW f PROVE UnfoldDeltas(SUBSET S, f) = Unfold(Deltas(events), SUBSET S, f)
  <2>1. \A s \in SUBSET S : s # {} => OneOf(s) \in DOMAIN events
    BY OneOfIn DEF CorrectionsOf
  <2> HIDE DEF S
  <2>2. \A s \in SUBSET S : s # {} => Deltas(events)[OneOf(s)] = events[OneOf(s)].delta
    BY <2>1 DEF Deltas
  <2> QED BY <2>2 DEF UnfoldDeltas, Unfold
<1> HIDE DEF S
<1>3. (CHOOSE f : f = UnfoldDeltas(SUBSET S, f)) = Iter(Deltas(events), S)
  BY <1>2 DEF Iter
<1>4. Effective(id) = 1 + Sum(Deltas(events), S)
  BY <1>1, <1>3, SumIs
<1> QED BY <1>4 DEF Values, S

LEMMA ProjectIs ==
    ASSUME NEW ids \in SUBSET Nat, NEW charges
    PROVE  Project(ids, charges) = ProjectIn(events, ids, charges)
<1> DEFINE S == ids \cap charges
<1>1. MapThenSumSet(Effective, S) = (CHOOSE f : f = UnfoldAmount(SUBSET S, f))[S]
  BY DEF MapThenSumSet, MapThenFoldSet, UnfoldAmount, OneOf
<1>2. ASSUME NEW f PROVE UnfoldAmount(SUBSET S, f) = Unfold(Values(events), SUBSET S, f)
  <2>1. \A s \in SUBSET S : s # {} => OneOf(s) \in Nat
    BY OneOfIn
  <2> HIDE DEF S
  <2>2. \A s \in SUBSET S : s # {} => Effective(OneOf(s)) = Values(events)[OneOf(s)]
    BY <2>1, EffectiveIs
  <2> QED BY <2>2 DEF UnfoldAmount, Unfold
<1> HIDE DEF S
<1>3. (CHOOSE f : f = UnfoldAmount(SUBSET S, f)) = Iter(Values(events), S)
  BY <1>2 DEF Iter
<1>4. MapThenSumSet(Effective, S) = Sum(Values(events), S)
  BY <1>1, <1>3, SumIs
<1> QED BY <1>4 DEF Project, ProjectIn, S

\* A charge is corrected once, by no more than it is worth.
LEMMA ValuesNatural ==
    ASSUME TablesTyped PROVE \A id \in Nat : Values(events)[id] \in Nat
<1> SUFFICES ASSUME NEW id \in Nat PROVE 1 + Sum(Deltas(events), CorrectionsOf(events, id)) \in Nat
  BY DEF Values
<1> DEFINE S == CorrectionsOf(events, id)
<1>1. \A i, j \in S : i = j
  BY DEF CorrectionsOf, TablesTyped, Corrections
<1>2. \A i \in S : Deltas(events)[i] \in {-1, 0, 1}
  BY EventsAt DEF CorrectionsOf, Deltas, SpendEvents
<1> HIDE DEF S
<1>3. CASE S = {}
  <2>1. Sum(Deltas(events), S) = 0
    BY <1>3, SumEmpty
  <2> QED BY <2>1 DEF S
<1>4. CASE S # {}
  <2>1. PICK i \in S : S = {i}
    BY <1>1, <1>4
  <2>2. IsFiniteSet(S) /\ S \ {i} = {}
    BY <2>1, FS_Singleton
  <2>3. \A x \in S : Deltas(events)[x] \in Int
    BY <1>2
  <2>4. Sum(Deltas(events), S) = Deltas(events)[i] + Sum(Deltas(events), S \ {i})
    BY <2>2, <2>3, SumRemove
  <2>5. Sum(Deltas(events), S) = Deltas(events)[i] + 0
    BY <2>2, <2>4, SumEmpty
  <2>6. Deltas(events)[i] \in {-1, 0, 1}
    BY <1>2
  <2> DEFINE a == Sum(Deltas(events), S)
             b == Deltas(events)[i]
  <2>7. a = b + 0 /\ b \in {-1, 0, 1}
    BY <2>5, <2>6
  <2> HIDE DEF a, b
  <2>8. 1 + a \in Nat
    BY <2>7
  <2> QED BY <2>8 DEF a, S
<1> QED BY <1>3, <1>4

LEMMA NamedFinite ==
    ASSUME TablesTyped
    PROVE  /\ \A S \in SUBSET DOMAIN table : ScopedIn(table, S) \subseteq 1 .. issued /\ IsFiniteSet(ScopedIn(table, S))
           /\ \A S \in SUBSET DOMAIN events : ChargedIn(events, S) \subseteq 1 .. issued /\ IsFiniteSet(ChargedIn(events, S))
           /\ 1 .. issued \subseteq Nat /\ IsFiniteSet(1 .. issued)
<1>1. IsFiniteSet(1 .. issued) /\ 1 .. issued \subseteq Nat
  <2>1. issued \in Nat
    BY DEF TablesTyped
  <2> QED BY <2>1, FS_Interval
<1>2. ASSUME NEW S \in SUBSET DOMAIN table PROVE ScopedIn(table, S) \subseteq 1 .. issued
  BY DEF ScopedIn, TablesTyped
<1>3. ASSUME NEW S \in SUBSET DOMAIN events PROVE ChargedIn(events, S) \subseteq 1 .. issued
  BY EventsAt DEF ChargedIn
<1> QED BY <1>1, <1>2, <1>3, FS_Subset

\* Without a correction among what is new, the values are what they were.
LEMMA ValuesKept ==
    ASSUME TablesTyped, TablesTyped', Grows, NEW k \in 0 .. Len(events), PlainAfter(events', k)
    PROVE  Values(events') = Values(events) /\ PlainAfter(events, k)
<1>1. /\ DOMAIN events = 1 .. Len(events) /\ Len(events) \in Nat
      /\ DOMAIN events' = 1 .. Len(events') /\ Len(events') \in Nat
      /\ Len(events) <= Len(events')
  BY DEF Grows, TablesTyped
<1>2. \A i \in DOMAIN events : i \in DOMAIN events' /\ events'[i] = events[i]
  BY <1>1 DEF Grows
<1>3. \A i \in DOMAIN events' : i > k => events'[i].kind = "charge"
  BY <1>1 DEF PlainAfter
<1>4. \A i \in DOMAIN events' : i <= k => i \in DOMAIN events
  BY <1>1
<1>5. \A i \in DOMAIN events' : i <= k \/ i > k
  BY <1>1
<1>6. ASSUME NEW id \in Nat
      PROVE  Sum(Deltas(events'), CorrectionsOf(events', id)) = Sum(Deltas(events), CorrectionsOf(events, id))
  <2>1. CorrectionsOf(events', id) = CorrectionsOf(events, id)
    BY <1>2, <1>3, <1>4, <1>5 DEF CorrectionsOf
  <2>2. \A i \in CorrectionsOf(events, id) : Deltas(events')[i] = Deltas(events)[i]
    BY <1>2 DEF CorrectionsOf, Deltas
  <2>3. IsFiniteSet(CorrectionsOf(events, id))
    BY EventsAt, FS_Subset DEF CorrectionsOf
  <2>4. Sum(Deltas(events'), CorrectionsOf(events, id)) = Sum(Deltas(events), CorrectionsOf(events, id))
    BY <2>2, <2>3, SumSame
  <2> QED BY <2>1, <2>4
<1>7. Values(events') = Values(events)
  BY <1>6 DEF Values
<1>8. PlainAfter(events, k)
  <2>1. \A i \in k + 1 .. Len(events) : i \in DOMAIN events /\ i \in DOMAIN events' /\ i > k
    BY <1>1
  <2> QED BY <1>2, <1>3, <2>1 DEF PlainAfter
<1> QED BY <1>7, <1>8

\* What is left of the rows is worth no more than before.
LEMMA WorthGrows ==
    ASSUME TablesTyped, TablesTyped', Grows, NEW k \in 0 .. Len(events), PlainAfter(events', k)
    PROVE  /\ PlainAfter(events, k) /\ Worth(table', events', k) <= Worth(table, events, k)
           /\ Worth(table, events, k) \in Nat /\ Worth(table', events', k) \in Nat
<1> DEFINE S == ScopedIn(table, DOMAIN table) \cap ChargedIn(events, 1 .. k)
           T == ScopedIn(table', DOMAIN table') \cap ChargedIn(events', 1 .. k)
<1>1. 1 .. k \subseteq DOMAIN events /\ 1 .. k \subseteq DOMAIN events'
  <2>1. DOMAIN events' = 1 .. Len(events') /\ Len(events') \in Nat
    BY DEF TablesTyped
  <2> QED BY <2>1, EventsAt DEF Grows
<1>2. \A i \in 1 .. k : events'[i] = events[i]
  BY <1>1 DEF Grows
<1>3. ChargedIn(events', 1 .. k) = ChargedIn(events, 1 .. k)
  BY <1>2 DEF ChargedIn
<1>4. ChargedIn(events, 1 .. k) \subseteq 1 .. issued /\ issued \in Nat
  BY <1>1, NamedFinite DEF TablesTyped
<1>5. T \subseteq S
  <2> SUFFICES ASSUME NEW id \in T PROVE id \in S
    OBVIOUS
  <2>1. id \in ChargedIn(events, 1 .. k) /\ id <= issued
    BY <1>3, <1>4
  <2>2. PICK i \in DOMAIN table' : table'[i].scoped /\ table'[i].id = id
    BY DEF ScopedIn
  <2>3. PICK j \in DOMAIN table : table[j] = table'[i]
    BY <2>1, <2>2 DEF Grows
  <2>4. id \in ScopedIn(table, DOMAIN table)
    BY <2>2, <2>3 DEF ScopedIn
  <2> QED BY <2>1, <2>4
<1>6. IsFiniteSet(S) /\ S \subseteq Nat
  <2>1. S \subseteq 1 .. issued
    BY <1>4
  <2> QED BY <2>1, NamedFinite, FS_Subset
<1> HIDE DEF S, T
<1>7. \A x \in S : Values(events)[x] \in Nat
  BY <1>6, ValuesNatural
<1>8. Sum(Values(events), T) <= Sum(Values(events), S)
  BY <1>5, <1>6, <1>7, SumMonotone
<1>9. Values(events') = Values(events) /\ PlainAfter(events, k)
  BY ValuesKept
<1>10. Sum(Values(events), S) \in Nat
  <2>1. \A x \in S : Values(events)[x] \in Int
    BY <1>7
  <2> QED BY <1>6, <1>7, <2>1, SumType
<1>11. Sum(Values(events), T) \in Nat
  <2>1. IsFiniteSet(T) /\ \A x \in T : Values(events)[x] \in Nat
    BY <1>5, <1>6, <1>7, FS_Subset
  <2>2. \A x \in T : Values(events)[x] \in Int
    BY <2>1
  <2> QED BY <2>1, <2>2, SumType
<1> QED BY <1>8, <1>9, <1>10, <1>11 DEF Worth, S, T

-----------------------------------------------------------------------------
(* The types of a read. *)

LEMMA CommitTyped ==
    ASSUME TablesTyped, ReadTyped, TablesTyped', Grows, UNCHANGED <<base, cache, pc, read>>
    PROVE  ReadTyped'
<1>1. 1 .. issued \subseteq 1 .. issued'
  BY DEF TablesTyped, Grows
<1>2. SUBSET (1 .. issued) \subseteq SUBSET (1 .. issued')
  BY <1>1
<1>3. read' \in ReadRecord'
  BY <1>2 DEF ReadTyped, ReadRecord
<1> QED BY <1>3 DEF ReadTyped

LEMMA ClockTyped ==
    ASSUME TablesTyped, ReadTyped, ClockTick
    PROVE  TablesTyped' /\ ReadTyped'
<1>1. UNCHANGED <<dbVars, base, cache, pc, read>> /\ clock' = clock + 1
  BY DEF ClockTick
<1>2. TablesTyped'
  BY <1>1 DEF TablesTyped, dbVars, Corrections
<1>3. ReadTyped'
  BY <1>1 DEF ReadTyped, ReadRecord, dbVars
<1> QED BY <1>2, <1>3

LEMMA ReadStays ==
    ASSUME TablesTyped, UNCHANGED <<clock, dbVars>>
    PROVE  TablesTyped'
  BY DEF TablesTyped, dbVars, Corrections

LEMMA RowIdTypes ==
    ASSUME TablesTyped, NEW t \in Tables
    PROVE  /\ MaxRowId(t) \in Nat /\ Cardinality(RowIds(t)) \in Nat
           /\ \A rowid : Cardinality(After(t, rowid)) \in Nat
<1>1. IsFiniteSet(RowIds(t))
  BY TableFinite, EventsAt DEF RowIds
<1>2. \A rowid : IsFiniteSet(After(t, rowid))
  BY <1>1, FS_Subset DEF After
<1>3. MaxRowId(t) \in Nat
  BY LargestRowId, EventsAt DEF Tables
<1> QED BY <1>1, <1>2, <1>3, FS_CardinalityType

LEMMA NamedTypes ==
    ASSUME TablesTyped
    PROVE  /\ \A S \in SUBSET DOMAIN table : ScopedRows(S) \in SUBSET (1 .. issued) /\ ScopedRows(S) = ScopedIn(table, S)
           /\ \A S \in SUBSET DOMAIN events : ChargesOf(S) \in SUBSET (1 .. issued) /\ ChargesOf(S) = ChargedIn(events, S)
  BY NamedFinite DEF ScopedRows, ScopedIn, ChargesOf, ChargedIn

LEMMA ProjectionTypes ==
    ASSUME TablesTyped, NEW ids \in SUBSET (1 .. issued), NEW charges \in SUBSET (1 .. issued)
    PROVE  /\ Project(ids, charges) = ProjectIn(events, ids, charges)
           /\ Project(ids, charges) \in Results
           /\ Project(ids, charges).amount = Sum(Values(events), ids \cap charges)
           /\ Sum(Values(events), ids \cap charges) \in Nat
           /\ Cardinality(ids) \in Nat /\ Cardinality(ids \ charges) \in Nat
<1>1. IsFiniteSet(ids) /\ IsFiniteSet(ids \ charges) /\ IsFiniteSet(ids \cap charges) /\ ids \in SUBSET Nat
  BY NamedFinite, FS_Subset
<1>2. Project(ids, charges) = ProjectIn(events, ids, charges)
  BY <1>1, ProjectIs
<1>4. Sum(Values(events), ids \cap charges) \in Nat
  <2> DEFINE S == ids \cap charges
  <2>1. S \subseteq Nat /\ IsFiniteSet(S)
    BY <1>1
  <2> HIDE DEF S
  <2>2. \A x \in S : Values(events)[x] \in Nat
    BY <2>1, ValuesNatural
  <2>3. \A x \in S : Values(events)[x] \in Int
    BY <2>2
  <2>4. Sum(Values(events), S) \in Nat
    BY <2>1, <2>2, <2>3, SumType
  <2> QED BY <2>4 DEF S
<1>5. Cardinality(ids) \in Nat /\ Cardinality(ids \ charges) \in Nat
  BY <1>1, FS_CardinalityType
<1> DEFINE a == Sum(Values(events), ids \cap charges)
<1>6. Project(ids, charges) = [amount |-> a, requests |-> Cardinality(ids), unresolved |-> Cardinality(ids \ charges)]
  BY <1>2 DEF ProjectIn
<1> HIDE DEF a
<1>7. Project(ids, charges) \in Results /\ Project(ids, charges).amount = a
  <2>1. a \in Int
    BY <1>4 DEF a
  <2> QED BY <1>5, <1>6, <2>1 DEF Results
<1> QED BY <1>2, <1>4, <1>5, <1>7 DEF a

\* AppendMark.read: from the version to the mark, one table after the other.
LEMMA MarkTyped ==
    ASSUME TablesTyped, ReadTyped, NEW t \in Tables, ReadVersion(t) \/ ReadMax(t) \/ Recount(t) \/ CountSince(t)
    PROVE  ReadTyped' /\ cache' = cache
<1>0. /\ read \in ReadRecord /\ foreign \in Nat
      /\ base \in [Tables -> Bases \cup {Absent}]
      /\ cache # Absent => cache \in Entries
  BY DEF ReadTyped, TablesTyped
<1>1. MaxRowId(t) \in Nat /\ Cardinality(RowIds(t)) \in Nat /\ clock \in Int
  BY RowIdTypes DEF TablesTyped
<1>2. CASE ReadVersion(t)
  <2>1. /\ pc' = MarkSteps[t].max /\ read' = [read EXCEPT !.version = foreign]
        /\ UNCHANGED <<clock, dbVars, base, cache>> /\ pc = MarkSteps[t].version
    BY <1>2 DEF ReadVersion, Go, Step
  <2>2. read' \in ReadRecord' /\ read'.mark = read.mark
    BY <1>0, <2>1 DEF ReadRecord, dbVars
  <2>3. pc' \in ReadSteps /\ pc' # "done" /\ pc' \notin AfterMarks /\ pc' \notin Extending /\ (pc' \in AfterEvents => pc \in AfterEvents)
    BY <2>1 DEF MarkSteps, Tables, ReadSteps, AfterEvents, AfterMarks, Extending
  <2> QED BY <2>1, <2>2, <2>3 DEF ReadTyped
<1>3. CASE ReadMax(t)
  <2>1. /\ pc' = MarkSteps[t].count /\ read' = [read EXCEPT !.max = MaxRowId(t)]
        /\ UNCHANGED <<clock, dbVars, base, cache>> /\ pc = MarkSteps[t].max
    BY <1>3 DEF ReadMax, Go, Step
  <2>2. read' \in ReadRecord' /\ read'.mark = read.mark
    BY <1>0, <1>1, <2>1 DEF ReadRecord, dbVars
  <2>3. pc' \in ReadSteps /\ pc' # "done" /\ pc' \notin AfterMarks /\ pc' \notin Extending /\ (pc' \in AfterEvents => pc \in AfterEvents)
    BY <2>1 DEF MarkSteps, Tables, ReadSteps, AfterEvents, AfterMarks, Extending
  <2> QED BY <2>1, <2>2, <2>3 DEF ReadTyped
<1>4. ASSUME NEW m \in Marks, pc = MarkSteps[t].count, pc' = AfterMark(t),
             read' = [read EXCEPT !.mark = [@ EXCEPT ![t] = m]], UNCHANGED dbVars
      PROVE  /\ pc' \in ReadSteps /\ read' \in ReadRecord' /\ pc' # "done" /\ pc' \notin Extending
             /\ pc' \in AfterEvents => read'.mark["events"] \in Marks
             /\ pc' \in AfterMarks => read'.mark["requests"] \in Marks
  <2>1. read' \in ReadRecord' /\ read'.mark = [read.mark EXCEPT ![t] = m] /\ read.mark \in [Tables -> Marks \cup {Absent}]
    BY <1>0, <1>4 DEF ReadRecord, dbVars
  <2>2. CASE t = "events"
    BY <1>4, <2>1, <2>2 DEF AfterMark, ReadSteps, AfterEvents, AfterMarks, Tables, Extending
  <2>3. CASE t = "requests"
    <3>1. read.mark["events"] \in Marks
      BY <1>4, <2>3 DEF ReadTyped, MarkSteps, AfterEvents
    <3> QED BY <1>4, <2>1, <2>3, <3>1 DEF AfterMark, ReadSteps, AfterEvents, AfterMarks, Tables, Extending
  <2> QED BY <2>2, <2>3 DEF Tables
<1>5. CASE Recount(t)
  <2> DEFINE b == [rowid |-> MaxRowId(t), count |-> Cardinality(RowIds(t)), at |-> clock, version |-> read.version]
             m == [rowid |-> MaxRowId(t), count |-> Cardinality(RowIds(t))]
  <2>1. /\ base' = [base EXCEPT ![t] = b] /\ pc' = AfterMark(t)
        /\ read' = [read EXCEPT !.mark = [@ EXCEPT ![t] = m]]
        /\ UNCHANGED <<clock, dbVars, cache>> /\ pc = MarkSteps[t].count
    BY <1>5 DEF Recount, FullCount, Go, Step
  <2>2. b \in Bases /\ m \in Marks
    BY <1>0, <1>1 DEF Bases, Marks, ReadRecord
  <2> HIDE DEF b, m
  <2>3. base' \in [Tables -> Bases \cup {Absent}]
    BY <1>0, <2>1, <2>2
  <2>4. /\ pc' \in ReadSteps /\ read' \in ReadRecord' /\ pc' # "done" /\ pc' \notin Extending
        /\ pc' \in AfterEvents => read'.mark["events"] \in Marks
        /\ pc' \in AfterMarks => read'.mark["requests"] \in Marks
    BY <1>4, <2>1, <2>2
  <2> QED BY <1>0, <2>1, <2>3, <2>4 DEF ReadTyped
<1>6. CASE CountSince(t)
  <2> DEFINE m == [rowid |-> read.max, count |-> base[t].count + Cardinality(After(t, base[t].rowid))]
  <2>1. /\ pc' = AfterMark(t) /\ read' = [read EXCEPT !.mark = [@ EXCEPT ![t] = m]]
        /\ UNCHANGED <<clock, dbVars, base, cache>> /\ pc = MarkSteps[t].count /\ base[t] # Absent
    BY <1>6 DEF CountSince, Usable, Go, Step
  <2>2. m \in Marks
    <3>1. base[t] \in Bases
      BY <1>0, <2>1
    <3>2. base[t].count \in Int /\ read.max \in Nat
      BY <1>0, <3>1 DEF Bases, ReadRecord
    <3>3. Cardinality(After(t, base[t].rowid)) \in Nat
      BY RowIdTypes
    <3> QED BY <3>2, <3>3 DEF Marks
  <2> HIDE DEF m
  <2>4. /\ pc' \in ReadSteps /\ read' \in ReadRecord' /\ pc' # "done" /\ pc' \notin Extending
        /\ pc' \in AfterEvents => read'.mark["events"] \in Marks
        /\ pc' \in AfterMarks => read'.mark["requests"] \in Marks
    BY <1>4, <2>1, <2>2
  <2> QED BY <1>0, <2>1, <2>4 DEF ReadTyped
<1>7. UNCHANGED cache
  BY DEF ReadVersion, ReadMax, Recount, FullCount, CountSince
<1> QED BY <1>2, <1>3, <1>5, <1>6, <1>7

\* The statements of a read that follow its marks, and those around it.
Serving ==
    \/ Start \/ ServeCached \/ Expired \/ CheckEvents \/ ListIds \/ ListCharges
    \/ ListRows \/ Extend \/ FullRows \/ FullEvents \/ Rebuild \/ Return

\* What such a step leaves of the read: it never changes a mark.
Kept == read'.mark = read.mark /\ read'.start = read.start

LEMMA EntryTypes ==
    ASSUME ReadTyped, cache # Absent
    PROVE  /\ cache.mark \in [Tables -> Marks] /\ cache.projection \in Results /\ cache.at \in Int
           /\ cache.mark["events"] \in Marks /\ cache.mark["requests"] \in Marks
           /\ CachedEvents \in Nat
  BY DEF ReadTyped, Entries, Tables, CachedEvents, Marks

LEMMA MarkTypes ==
    ASSUME ReadTyped, pc \in AfterMarks
    PROVE  read.mark \in [Tables -> Marks] /\ ReadEvents \in Nat
<1>1. pc \in AfterEvents
  BY DEF AfterMarks
<1>2. read.mark \in [Tables -> Marks \cup {Absent}]
  BY DEF ReadTyped, ReadRecord
<1>3. \A t \in Tables : read.mark[t] \in Marks
  BY <1>1 DEF ReadTyped, Tables
<1>4. read.mark["events"] \in Marks
  BY <1>1 DEF ReadTyped
<1> QED BY <1>2, <1>3, <1>4 DEF ReadEvents, Marks

LEMMA PlusTyped == ASSUME NEW p \in Results, NEW q \in Results PROVE Plus(p, q) \in Results /\ Plus(p, q).amount = p.amount + q.amount
  BY DEF Plus, Results

LEMMA ServingTyped ==
    ASSUME TablesTyped, ReadTyped, Serving
    PROVE  ReadTyped' /\ UNCHANGED <<clock, dbVars, base>>
<1>0. /\ read \in ReadRecord /\ foreign \in Nat
      /\ base \in [Tables -> Bases \cup {Absent}]
      /\ cache # Absent => cache \in Entries
  BY DEF ReadTyped, TablesTyped
<1>1. UNCHANGED <<clock, dbVars, base>>
  BY DEF Serving, Start, ServeCached, Expired, CheckEvents, ListIds, ListCharges, ListRows, Extend,
         FullRows, FullEvents, Rebuild, Return, Go
<1> SUFFICES ReadTyped'
  BY <1>1
<1>2. \A S \in SUBSET DOMAIN events : ChargesOf(S) \in SUBSET (1 .. issued)
  BY NamedTypes
<1>3. \A S \in SUBSET DOMAIN table : ScopedRows(S) \in SUBSET (1 .. issued)
  BY NamedTypes
<1>4. Idle \in ReadRecord
  BY DEF Idle, ReadRecord, Tables, Marks
\* A step that only moves on.
<1>5. ASSUME pc \in AfterMarks, pc' \in AfterMarks, pc' # "done", read' \in ReadRecord, read'.mark = read.mark, cache' = cache,
             pc' \in Extending => cache # Absent
      PROVE  ReadTyped'
  <2>1. pc' \in ReadSteps /\ pc \in AfterEvents
    BY <1>5 DEF ReadSteps, AfterMarks
  <2>2. read'.mark["events"] \in Marks /\ read'.mark["requests"] \in Marks
    BY <1>5, <2>1 DEF ReadTyped
  <2>3. read' \in ReadRecord'
    BY <1>1, <1>5 DEF ReadRecord, dbVars
  <2> QED BY <1>0, <1>1, <1>5, <2>1, <2>2, <2>3 DEF ReadTyped
\* A step that returns p, and may cache it.
<1>6. ASSUME NEW p \in Results, pc \in AfterMarks, pc' = "done", read' = [read EXCEPT !.result = p],
             NEW at \in Int, cache' = cache \/ cache' = [mark |-> read.mark, projection |-> p, at |-> at]
      PROVE  ReadTyped'
  <2>1. pc' \in ReadSteps /\ pc' \in AfterMarks /\ pc \in AfterEvents /\ pc' \notin Extending
    BY <1>6 DEF ReadSteps, AfterMarks, AfterEvents, Extending
  <2>2. read' \in ReadRecord' /\ read'.mark = read.mark /\ read'.result = p
    BY <1>0, <1>1, <1>6 DEF ReadRecord, dbVars
  <2>3. read'.mark["events"] \in Marks /\ read'.mark["requests"] \in Marks
    BY <1>6, <2>1, <2>2 DEF ReadTyped
  <2>4. cache' # Absent => cache' \in Entries
    BY <1>0, <1>6, MarkTypes DEF Entries
  <2> QED BY <1>0, <1>1, <1>6, <2>1, <2>2, <2>3, <2>4 DEF ReadTyped
<1>7. CASE Start
  <2>1. pc' = "events_version" /\ read' = [Idle EXCEPT !.start = foreign] /\ cache' = cache
    BY <1>7 DEF Start, Go
  <2>2. read' \in ReadRecord'
    BY <1>0, <1>1, <1>4, <2>1 DEF ReadRecord, dbVars
  <2> QED BY <1>0, <1>1, <2>1, <2>2 DEF ReadTyped, ReadSteps, AfterEvents, AfterMarks, Extending
<1>8. CASE ServeCached
  <2>1. pc = "serve" /\ pc' = "done" /\ read' = [read EXCEPT !.result = cache.projection] /\ cache' = cache /\ cache # Absent
    BY <1>8 DEF ServeCached, Go, Fresh
  <2>2. cache.projection \in Results /\ pc \in AfterMarks /\ 0 \in Int
    BY <2>1, EntryTypes DEF AfterMarks, AfterEvents
  <2> QED BY <1>6, <2>1, <2>2
<1>9. CASE Expired
  <2>1. pc = "serve" /\ pc' = "full_rows" /\ read' = read /\ cache' = cache
    BY <1>9 DEF Expired, Go
  <2>2. pc' \notin Extending
    BY <2>1 DEF Extending
  <2> QED BY <1>0, <1>5, <2>1, <2>2 DEF AfterMarks, AfterEvents
<1>10. CASE CheckEvents
  <2>1. pc = "serve" /\ pc' \in {"ids", "full_rows"} /\ read' = read /\ cache' = cache
    BY <1>10 DEF CheckEvents, Go
  <2>2. cache # Absent
    BY <1>10 DEF CheckEvents, Fresh
  <2> QED BY <1>0, <1>5, <2>1, <2>2 DEF AfterMarks, AfterEvents
<1>11. CASE ListIds
  <2> DEFINE new == {table[i].id : i \in After("requests", cache.mark["requests"].rowid)}
  <2>1. pc = "ids" /\ pc' \in {"charges", "full_rows"} /\ read' = [read EXCEPT !.ids = new] /\ cache' = cache
    BY <1>11 DEF ListIds, Go
  <2>2. new \in SUBSET (1 .. issued)
    BY DEF After, RowIds, TablesTyped
  <2> HIDE DEF new
  <2>3. read' \in ReadRecord /\ read'.mark = read.mark
    BY <1>0, <2>1, <2>2 DEF ReadRecord
  <2>4. pc \in Extending /\ cache # Absent
    BY <2>1 DEF Extending, ReadTyped
  <2> QED BY <1>5, <2>1, <2>3, <2>4 DEF AfterMarks, AfterEvents
<1>12. CASE ListCharges
  <2> DEFINE new == ChargesOf(After("events", cache.mark["events"].rowid))
  <2>1. /\ pc = "charges" /\ pc' \in {"rows", "full_rows"} /\ cache' = cache
        /\ read' = [read EXCEPT !.charges = new] \/ read' = [read EXCEPT !.ids = {}]
    BY <1>12 DEF ListCharges, Go
  <2>2. new \in SUBSET (1 .. issued)
    BY <1>2 DEF After, RowIds
  <2> HIDE DEF new
  <2>3. read' \in ReadRecord /\ read'.mark = read.mark
    BY <1>0, <2>1, <2>2 DEF ReadRecord
  <2>4. pc \in Extending /\ cache # Absent
    BY <2>1 DEF Extending, ReadTyped
  <2> QED BY <1>5, <2>1, <2>3, <2>4 DEF AfterMarks, AfterEvents
<1>13. CASE ListRows
  <2> DEFINE new == ScopedRows(After("requests", cache.mark["requests"].rowid))
  <2>1. pc = "rows" /\ pc' = "extend" /\ cache' = cache /\ read' = [read EXCEPT !.rows = new]
    BY <1>13 DEF ListRows, Go
  <2>2. new \in SUBSET (1 .. issued)
    BY <1>3 DEF After, RowIds
  <2> HIDE DEF new
  <2>3. read' \in ReadRecord /\ read'.mark = read.mark
    BY <1>0, <2>1, <2>2 DEF ReadRecord
  <2>4. pc \in Extending /\ cache # Absent
    BY <2>1 DEF Extending, ReadTyped
  <2> QED BY <1>5, <2>1, <2>3, <2>4 DEF AfterMarks, AfterEvents
<1>14. CASE Extend
  <2> DEFINE p == Plus(cache.projection, Project(read.rows, read.charges))
  <2>1. /\ pc = "extend" /\ pc' = "done" /\ read' = [read EXCEPT !.result = p]
        /\ cache' = [mark |-> read.mark, projection |-> p, at |-> cache.at]
    BY <1>14 DEF Extend, Go
  <2>2. cache # Absent
    BY <2>1 DEF ReadTyped, Extending
  <2>3. Project(read.rows, read.charges) \in Results
    BY <1>0, ProjectionTypes DEF ReadRecord
  <2>4. p \in Results
    BY <2>2, <2>3, EntryTypes, PlusTyped
  <2>5. cache.at \in Int /\ pc \in AfterMarks
    BY <2>1, <2>2, EntryTypes DEF AfterMarks, AfterEvents
  <2> HIDE DEF p
  <2> QED BY <1>6, <2>1, <2>4, <2>5
<1>15. CASE FullRows
  <2> DEFINE new == ScopedRows(DOMAIN table)
  <2>1. pc = "full_rows" /\ pc' = "full_events" /\ cache' = cache /\ read' = [read EXCEPT !.rows = new, !.ids = {}, !.charges = {}]
    BY <1>15 DEF FullRows, Go
  <2>2. new \in SUBSET (1 .. issued)
    BY <1>3
  <2> HIDE DEF new
  <2>3. read' \in ReadRecord /\ read'.mark = read.mark
    BY <1>0, <2>1, <2>2 DEF ReadRecord
  <2>4. pc' \notin Extending
    BY <2>1 DEF Extending
  <2> QED BY <1>5, <2>1, <2>3, <2>4 DEF AfterMarks, AfterEvents
<1>16. CASE FullEvents
  <2> DEFINE new == ChargesOf(DOMAIN events)
  <2>1. pc = "full_events" /\ pc' = "rebuild" /\ cache' = cache /\ read' = [read EXCEPT !.charges = new]
    BY <1>16 DEF FullEvents, Go
  <2>2. new \in SUBSET (1 .. issued)
    BY <1>2
  <2> HIDE DEF new
  <2>3. read' \in ReadRecord /\ read'.mark = read.mark
    BY <1>0, <2>1, <2>2 DEF ReadRecord
  <2>4. pc' \notin Extending
    BY <2>1 DEF Extending
  <2> QED BY <1>5, <2>1, <2>3, <2>4 DEF AfterMarks, AfterEvents
<1>17. CASE Rebuild
  <2> DEFINE p == Project(read.rows, read.charges)
  <2>1. /\ pc = "rebuild" /\ pc' = "done" /\ read' = [read EXCEPT !.result = p]
        /\ cache' = [mark |-> read.mark, projection |-> p, at |-> clock]
    BY <1>17 DEF Rebuild, Go
  <2>2. p \in Results
    BY <1>0, ProjectionTypes DEF ReadRecord
  <2>3. clock \in Int /\ pc \in AfterMarks
    BY <2>1 DEF TablesTyped, AfterMarks, AfterEvents
  <2> HIDE DEF p
  <2> QED BY <1>6, <2>1, <2>2, <2>3
<1>18. CASE Return
  <2>1. pc' = "idle" /\ read' = Idle /\ cache' = cache
    BY <1>18 DEF Return, Go
  <2>2. read' \in ReadRecord'
    BY <1>1, <1>4, <2>1 DEF ReadRecord, dbVars
  <2> QED BY <1>0, <1>1, <2>1, <2>2 DEF ReadTyped, ReadSteps, AfterEvents, AfterMarks, Extending
<1> QED BY <1>7, <1>8, <1>9, <1>10, <1>11, <1>12, <1>13, <1>14, <1>15, <1>16, <1>17, <1>18 DEF Serving

-----------------------------------------------------------------------------
(* What a read returns is never short of what the ledger holds. *)

\* Ids that were there: their charges and their rows are what they were.
LEMMA ChargedKept ==
    ASSUME TablesTyped, TablesTyped', Grows, NEW a \in Nat, NEW b \in 0 .. Len(events)
    PROVE  ChargedIn(events', a + 1 .. b) = ChargedIn(events, a + 1 .. b)
<1>1. \A i \in a + 1 .. b : i \in DOMAIN events
  BY EventsAt
<1>2. \A i \in a + 1 .. b : events'[i] = events[i]
  BY <1>1 DEF Grows
<1> QED BY <1>2 DEF ChargedIn

LEMMA ScopedKept ==
    ASSUME TablesTyped, TablesTyped', Grows, NEW id \in ScopedIn(table', DOMAIN table'), id <= issued
    PROVE  id \in ScopedIn(table, DOMAIN table)
<1>1. PICK i \in DOMAIN table' : table'[i].scoped /\ table'[i].id = id
  BY DEF ScopedIn
<1>2. PICK j \in DOMAIN table : table[j] = table'[i]
  BY <1>1 DEF Grows
<1> QED BY <1>1, <1>2 DEF ScopedIn

LEMMA CommitMarks ==
    ASSUME TablesTyped, ReadTyped, ShortInv, Commit
    PROVE  MarkInv'
<1>1. /\ TablesTyped' /\ Grows /\ UNCHANGED <<base, cache, pc, read>>
      /\ pc = "idle" \/ foreign' = foreign + 1
  BY CommitGrows
<1>2. /\ foreign \in Nat /\ foreign' \in Nat /\ foreign <= foreign'
      /\ Len(events) \in Nat /\ Len(events') \in Nat /\ Len(events) <= Len(events')
      /\ DOMAIN events = 1 .. Len(events)
  BY <1>1 DEF TablesTyped, Grows
<1>3. read.start \in Nat /\ read.max \in Nat
  BY DEF ReadTyped, ReadRecord
<1>4. read.start <= foreign /\ read' = read /\ pc' = pc
  BY <1>1 DEF ShortInv, MarkInv
<1>5. pc # "idle" => read'.start # foreign'
  BY <1>1, <1>2, <1>3, <1>4
<1>6. read'.start <= foreign'
  BY <1>2, <1>3, <1>4
<1>7. pc' = "events_count" => read'.max <= Len(events') /\ (read'.start = foreign' => read'.max = Len(events'))
  <2> SUFFICES ASSUME pc' = "events_count" PROVE read'.max <= Len(events') /\ read'.start # foreign'
    OBVIOUS
  <2>1. read.max <= Len(events)
    BY <1>4 DEF ShortInv, MarkInv
  <2> QED BY <1>2, <1>3, <1>4, <1>5, <2>1
<1>8. ASSUME pc \in AfterEvents PROVE ReadEvents <= Len(events) /\ ReadEvents \in Nat
  BY <1>8 DEF ShortInv, MarkInv, ReadTyped, ReadEvents, Marks
<1>9. pc' \in AfterEvents => ReadEvents' <= Len(events') /\ (read'.start = foreign' => ReadEvents' = Len(events'))
  <2> SUFFICES ASSUME pc \in AfterEvents PROVE ReadEvents' <= Len(events') /\ read'.start # foreign'
    BY <1>4
  <2>1. ReadEvents' = ReadEvents /\ pc # "idle"
    BY <1>4 DEF ReadEvents, AfterEvents
  <2> QED BY <1>2, <1>5, <1>8, <2>1
<1>10. pc' \in Extending => \A i \in (CachedEvents + 1 .. ReadEvents)' : events'[i].kind = "charge"
  <2> SUFFICES ASSUME pc \in Extending PROVE \A i \in (CachedEvents + 1 .. ReadEvents)' : events'[i].kind = "charge"
    BY <1>4
  <2>1. pc \in AfterEvents /\ cache # Absent
    BY DEF Extending, AfterEvents, ReadTyped
  <2>2. ReadEvents' = ReadEvents /\ CachedEvents' = CachedEvents
    BY <1>1 DEF ReadEvents, CachedEvents
  <2>3. CachedEvents \in Nat /\ ReadEvents \in Nat /\ ReadEvents <= Len(events)
    BY <1>8, <2>1, EntryTypes
  <2>4. \A i \in CachedEvents + 1 .. ReadEvents : i \in DOMAIN events
    BY <1>2, <2>3
  <2>5. \A i \in CachedEvents + 1 .. ReadEvents : events'[i] = events[i] /\ events[i].kind = "charge"
    BY <1>1, <2>4 DEF Grows, ShortInv, MarkInv
  <2> QED BY <2>2, <2>5
<1> QED BY <1>6, <1>7, <1>9, <1>10 DEF MarkInv

LEMMA CommitLists ==
    ASSUME TablesTyped, ReadTyped, ShortInv, TaintInv, Commit
    PROVE  ListInv'
<1>1. /\ TablesTyped' /\ Grows /\ UNCHANGED <<base, cache, pc, read>>
      /\ pc # "idle" /\ "renumbering" \notin taint'.read => Stays /\ "renumbering" \notin taint.read
  BY CommitGrows, CommitNotes DEF TaintInv
<1>2. \A S \in SUBSET (1 .. issued) : \A id \in S : id <= issued
  BY DEF TablesTyped
<1>3. read.ids \in SUBSET (1 .. issued) /\ read.charges \in SUBSET (1 .. issued)
  BY DEF ReadTyped, ReadRecord
<1>4. ASSUME pc \in AfterEvents PROVE ReadEvents \in 0 .. Len(events)
  BY <1>4, EventsAt DEF ShortInv, MarkInv, ReadTyped, ReadEvents, Marks
<1>5. ASSUME pc \in Extending PROVE ReadSince' = ReadSince /\ ReadSince \in SUBSET (1 .. issued)
  <2>1. pc \in AfterEvents /\ cache # Absent
    BY <1>5 DEF Extending, AfterEvents, ReadTyped
  <2>2. ReadEvents' = ReadEvents /\ CachedEvents' = CachedEvents
    BY <1>1 DEF ReadEvents, CachedEvents
  <2>3. CachedEvents \in Nat /\ ReadEvents \in 0 .. Len(events)
    BY <1>4, <2>1, EntryTypes
  <2> DEFINE a == CachedEvents
             b == ReadEvents
  <2>4. ReadSince' = ChargedIn(events', a + 1 .. b) /\ ReadSince = ChargedIn(events, a + 1 .. b)
    BY <2>2 DEF ReadSince
  <2>5. a \in Nat /\ b \in 0 .. Len(events)
    BY <2>3
  <2> HIDE DEF a, b
  <2>6. ReadSince' = ReadSince
    BY <1>1, <2>4, <2>5, ChargedKept
  <2>7. a + 1 .. b \subseteq DOMAIN events
    BY <2>5, EventsAt
  <2> QED BY <2>4, <2>6, <2>7, NamedFinite
<1>6. ASSUME pc \in {"full_events", "rebuild"}
      PROVE  /\ ChargedIn(events', (1 .. ReadEvents)') = ChargedIn(events, 1 .. ReadEvents)
             /\ ChargedIn(events, 1 .. ReadEvents) \in SUBSET (1 .. issued)
  <2>1. ReadEvents' = ReadEvents /\ ReadEvents \in 0 .. Len(events)
    BY <1>1, <1>4, <1>6 DEF ReadEvents, AfterEvents
  <2> DEFINE b == ReadEvents
  <2>2. ReadEvents' = b /\ b \in 0 .. Len(events)
    BY <2>1
  <2> HIDE DEF b
  <2>3. ChargedIn(events', 0 + 1 .. b) = ChargedIn(events, 0 + 1 .. b)
    BY <1>1, <2>2, ChargedKept
  <2>4. 1 .. b \subseteq DOMAIN events
    BY <2>2, EventsAt
  <2> QED BY <2>2, <2>3, <2>4, NamedFinite DEF b
<1>7. ASSUME pc \in {"charges", "rows"}, "renumbering" \notin taint'.read, NEW i \in DOMAIN table', table'[i].id \in read.ids
      PROVE  i > cache.mark["requests"].rowid
  <2>1. i \in DOMAIN table /\ table[i] = table'[i]
    BY <1>1, <1>2, <1>3, <1>7 DEF Stays
  <2> QED BY <1>1, <1>7, <2>1 DEF ShortInv, ListInv
<1>8. pc = "rows" => ReadSince' \subseteq read.charges /\ read.charges \subseteq read.ids
  BY <1>5 DEF Extending, ShortInv, ListInv
<1>9. ASSUME pc = "extend", "renumbering" \notin taint'.read PROVE ScopedIn(table', DOMAIN table') \cap ReadSince' \subseteq read.rows \cap read.charges
  <2>1. ReadSince' = ReadSince /\ \A id \in ReadSince : id <= issued
    BY <1>2, <1>5, <1>9 DEF Extending
  <2>2. \A id \in ScopedIn(table', DOMAIN table') : id <= issued => id \in ScopedIn(table, DOMAIN table)
    BY <1>1, ScopedKept
  <2>3. ScopedIn(table, DOMAIN table) \cap ReadSince \subseteq read.rows \cap read.charges
    BY <1>1, <1>9 DEF ShortInv, ListInv
  <2> QED BY <2>1, <2>2, <2>3
<1>10. ASSUME pc \in {"full_events", "rebuild"}
       PROVE  ScopedIn(table', DOMAIN table') \cap ChargedIn(events', (1 .. ReadEvents)') \subseteq read.rows
  <2> DEFINE C == ChargedIn(events, 1 .. ReadEvents)
  <2>1. ChargedIn(events', (1 .. ReadEvents)') = C /\ \A id \in C : id <= issued
    BY <1>2, <1>6, <1>10
  <2>2. \A id \in ScopedIn(table', DOMAIN table') : id <= issued => id \in ScopedIn(table, DOMAIN table)
    BY <1>1, ScopedKept
  <2>3. ScopedIn(table, DOMAIN table) \cap C \subseteq read.rows
    BY <1>10 DEF ShortInv, ListInv
  <2> HIDE DEF C
  <2> QED BY <2>1, <2>2, <2>3
<1>11. ASSUME pc = "rebuild" PROVE ChargedIn(events', (1 .. ReadEvents)') \subseteq read.charges
  BY <1>6, <1>11 DEF ShortInv, ListInv
<1> QED BY <1>1, <1>7, <1>8, <1>9, <1>10, <1>11 DEF ListInv

LEMMA CommitCovered ==
    ASSUME TablesTyped, ReadTyped, ShortInv, TaintInv, Commit
    PROVE  CoveredInv'
<1>1. /\ TablesTyped' /\ Grows /\ UNCHANGED <<base, cache, pc, read>>
      /\ pc = "idle" \/ foreign' = foreign + 1
      /\ "renumbering" \notin taint'.cache => "renumbering" \notin taint.cache
  BY CommitGrows, CommitNotes DEF TaintInv
<1>2. /\ foreign \in Nat /\ Len(events) \in Nat /\ Len(events') \in Nat /\ Len(events) <= Len(events')
  BY <1>1 DEF TablesTyped, Grows
<1>3. pc = "done" => read'.start # foreign'
  <2>1. read.start \in Nat /\ read.start <= foreign /\ read' = read
    BY <1>1 DEF ReadTyped, ReadRecord, ShortInv, MarkInv
  <2> QED BY <1>1, <1>2, <2>1
<1>4. ASSUME cache # Absent
      PROVE  /\ CachedEvents' <= Len(events')
             /\ "renumbering" \notin taint'.cache /\ PlainAfter(events', CachedEvents') =>
                   cache'.projection.amount >= Worth(table', events', CachedEvents')
  <2> DEFINE k == CachedEvents
             a == cache.projection.amount
  <2>1. /\ k \in 0 .. Len(events) /\ a \in Int
        /\ "renumbering" \notin taint.cache /\ PlainAfter(events, k) => a >= Worth(table, events, k)
    BY <1>2, <1>4, EntryTypes DEF ShortInv, CoveredInv, Results
  <2>2. CachedEvents' = k /\ cache'.projection.amount = a
    BY <1>1 DEF CachedEvents
  <2> HIDE DEF k, a
  <2>3. ASSUME "renumbering" \notin taint'.cache, PlainAfter(events', k) PROVE a >= Worth(table', events', k)
    <3>1. PlainAfter(events, k) /\ Worth(table', events', k) <= Worth(table, events, k)
      BY <1>1, <2>1, <2>3, WorthGrows
    <3>2. Worth(table, events, k) \in Int /\ Worth(table', events', k) \in Int
      BY <1>1, <2>1, <2>3, WorthGrows
    <3> QED BY <1>1, <2>1, <2>3, <3>1, <3>2
  <2> QED BY <1>2, <2>1, <2>2, <2>3
<1> QED BY <1>1, <1>3, <1>4 DEF CoveredInv

\* Where the tables and the cache stay, so does what the cache covers.
LEMMA CoveredStays ==
    ASSUME ShortInv, UNCHANGED <<dbVars, cache>>, taint'.cache = taint.cache, pc' # "done"
    PROVE  CoveredInv'
  BY DEF ShortInv, CoveredInv, CachedEvents, Worth, PlainAfter, dbVars

LEMMA ClockShort ==
    ASSUME ShortInv, ClockTick
    PROVE  ShortInv'
<1>1. UNCHANGED <<dbVars, base, cache, pc, read, taint>>
  BY DEF ClockTick
<1>2. MarkInv' /\ ListInv' /\ CoveredInv'
  BY <1>1 DEF ShortInv, MarkInv, ListInv, CoveredInv, CachedEvents, ReadEvents, ReadSince, Worth, PlainAfter, dbVars
<1> QED BY <1>2 DEF ShortInv

LEMMA MarkShort ==
    ASSUME TablesTyped, ReadTyped, ShortInv, NEW t \in Tables,
           ReadVersion(t) \/ ReadMax(t) \/ Recount(t) \/ CountSince(t)
    PROVE  ShortInv'
<1>1. read \in ReadRecord /\ foreign \in Nat /\ read.start <= foreign /\ read.max \in Nat
  BY DEF ReadTyped, TablesTyped, ShortInv, MarkInv, ReadRecord
<1>2. UNCHANGED <<dbVars, cache, taint>>
  BY DEF ReadVersion, ReadMax, Recount, FullCount, CountSince, Go
<1>3. pc' # "done" /\ pc' \notin Extending /\ pc' \notin {"full_events", "rebuild"}
  BY DEF ReadVersion, ReadMax, Recount, FullCount, CountSince, Go, MarkSteps, Tables, AfterMark, Extending
<1>4. CoveredInv'
  BY <1>2, <1>3, CoveredStays
<1>5. ListInv'
  BY <1>3 DEF ListInv, Extending
<1>6. MaxRowId("events") = Len(events) /\ Len(events) \in Nat
  BY LargestRowId, EventsAt
<1>7. ASSUME pc # "events_max", read'.start = read.start, read'.max = read.max, pc' # "events_count",
             pc' \in AfterEvents => pc \in AfterEvents /\ read'.mark["events"] = read.mark["events"]
      PROVE  MarkInv'
  <2>1. pc' \in AfterEvents => pc \in AfterEvents /\ ReadEvents' = ReadEvents
    BY <1>7 DEF ReadEvents
  <2> QED BY <1>1, <1>2, <1>3, <1>7, <2>1 DEF ShortInv, MarkInv, dbVars
<1>8. CASE ReadVersion(t)
  <2>1. pc = MarkSteps[t].version /\ pc' = MarkSteps[t].max /\ read' = [read EXCEPT !.version = foreign]
    BY <1>8 DEF ReadVersion, Step, Go
  <2>2. read'.start = read.start /\ read'.max = read.max /\ read'.mark = read.mark
    BY <1>1, <2>1 DEF ReadRecord
  <2>3. pc # "events_max" /\ pc' # "events_count" /\ (pc' \in AfterEvents => pc \in AfterEvents)
    BY <2>1 DEF MarkSteps, Tables, AfterEvents
  <2> QED BY <1>4, <1>5, <1>7, <2>2, <2>3 DEF ShortInv
<1>9. CASE ReadMax(t)
  <2>1. pc = MarkSteps[t].max /\ pc' = MarkSteps[t].count /\ read' = [read EXCEPT !.max = MaxRowId(t)]
    BY <1>9 DEF ReadMax, Step, Go
  <2>2. read'.start = read.start /\ read'.max = MaxRowId(t) /\ read'.mark = read.mark
    BY <1>1, <2>1 DEF ReadRecord
  <2>3. CASE t = "events"
    <3>1. pc' = "events_count" /\ pc' \notin AfterEvents
      BY <2>1, <2>3 DEF MarkSteps, AfterEvents, Tables
    <3>2. MarkInv'
      BY <1>1, <1>2, <1>3, <1>6, <2>2, <2>3, <3>1 DEF MarkInv, dbVars
    <3> QED BY <1>4, <1>5, <3>2 DEF ShortInv
  <2>4. CASE t = "requests"
    <3>1. pc' = "requests_count" /\ pc' \in AfterEvents /\ pc \in AfterEvents
      BY <2>1, <2>4 DEF MarkSteps, AfterEvents, Tables
    <3>2. ReadEvents' = ReadEvents
      BY <2>2 DEF ReadEvents
    <3>3. MarkInv'
      BY <1>1, <1>2, <1>3, <2>2, <3>1, <3>2 DEF ShortInv, MarkInv, dbVars
    <3> QED BY <1>4, <1>5, <3>3 DEF ShortInv
  <2> QED BY <2>3, <2>4 DEF Tables
\* The mark that is now known is at most what is there.
<1>10. ASSUME NEW m, pc = MarkSteps[t].count, pc' = AfterMark(t), read' = [read EXCEPT !.mark = [@ EXCEPT ![t] = m]],
              t = "events" => m.rowid <= Len(events) /\ (read.start = foreign => m.rowid = Len(events))
       PROVE  MarkInv'
  <2>1. read'.start = read.start /\ read'.max = read.max /\ read'.mark = [read.mark EXCEPT ![t] = m]
        /\ read.mark \in [Tables -> Marks \cup {Absent}]
    BY <1>1, <1>10 DEF ReadRecord
  <2>2. CASE t = "events"
    <3>1. pc' = "requests_version" /\ read'.mark["events"] = m
      BY <1>10, <2>1, <2>2 DEF AfterMark, Tables
    <3>2. ReadEvents' = m.rowid
      BY <3>1 DEF ReadEvents
    <3> QED BY <1>1, <1>2, <1>3, <1>10, <2>1, <2>2, <3>1, <3>2 DEF MarkInv, dbVars
  <2>3. CASE t = "requests"
    <3>1. pc = "requests_count" /\ pc' = "serve" /\ pc \in AfterEvents /\ read'.mark["events"] = read.mark["events"]
      BY <1>10, <2>1, <2>3 DEF AfterMark, MarkSteps, Tables, AfterEvents
    <3> QED BY <1>7, <2>1, <3>1
  <2> QED BY <2>2, <2>3 DEF Tables
<1>11. CASE Recount(t)
  <2> DEFINE m == [rowid |-> MaxRowId(t), count |-> Cardinality(RowIds(t))]
  <2>1. pc = MarkSteps[t].count /\ pc' = AfterMark(t) /\ read' = [read EXCEPT !.mark = [@ EXCEPT ![t] = m]]
    BY <1>11 DEF Recount, FullCount, Go, Step
  <2>2. m.rowid = MaxRowId(t)
    OBVIOUS
  <2> HIDE DEF m
  <2>3. MarkInv'
    BY <1>6, <1>10, <2>1, <2>2
  <2> QED BY <1>4, <1>5, <2>3 DEF ShortInv
<1>12. CASE CountSince(t)
  <2> DEFINE m == [rowid |-> read.max, count |-> base[t].count + Cardinality(After(t, base[t].rowid))]
  <2>1. pc = MarkSteps[t].count /\ pc' = AfterMark(t) /\ read' = [read EXCEPT !.mark = [@ EXCEPT ![t] = m]]
    BY <1>12 DEF CountSince, Go, Step
  <2>2. m.rowid = read.max
    OBVIOUS
  <2> HIDE DEF m
  <2>3. t = "events" => read.max <= Len(events) /\ (read.start = foreign => read.max = Len(events))
    BY <2>1 DEF MarkSteps, Tables, ShortInv, MarkInv
  <2>4. MarkInv'
    BY <1>10, <2>1, <2>2, <2>3
  <2> QED BY <1>4, <1>5, <2>4 DEF ShortInv
<1> QED BY <1>8, <1>9, <1>11, <1>12

\* A quiet read has read the last mark of the events.
LEMMA QuietRead ==
    ASSUME TablesTyped, ReadTyped, MarkInv, pc \in AfterMarks
    PROVE  /\ ReadEvents \in 0 .. Len(events)
           /\ read.start = foreign => ReadEvents = Len(events)
<1>1. pc \in AfterEvents
  BY DEF AfterMarks
<1>2. ReadEvents <= Len(events) /\ (read.start = foreign => ReadEvents = Len(events))
  BY <1>1 DEF MarkInv
<1> QED BY <1>2, MarkTypes, EventsAt

\* The steps that keep the marks and return nothing keep MarkInv.
LEMMA ServingMarks ==
    ASSUME TablesTyped, ReadTyped, MarkInv, UNCHANGED <<dbVars, cache>>, Kept, pc \in AfterMarks, pc' \in AfterMarks,
           pc' \in Extending => cache # Absent /\ (pc \in Extending \/ OnlyCharges(After("events", CachedEvents)))
    PROVE  MarkInv'
<1>1. /\ read.start <= foreign /\ ReadEvents \in 0 .. Len(events) /\ (read.start = foreign => ReadEvents = Len(events))
      /\ Len(events) \in Nat
  BY QuietRead, EventsAt DEF MarkInv
<1>2. read'.start = read.start /\ ReadEvents' = ReadEvents /\ CachedEvents' = CachedEvents
  BY DEF Kept, ReadEvents, CachedEvents
<1>3. events' = events /\ foreign' = foreign
  BY DEF dbVars
<1>4. pc' # "events_count"
  BY DEF AfterMarks, AfterEvents
<1>5. ASSUME pc' \in Extending, NEW i \in CachedEvents + 1 .. ReadEvents PROVE events[i].kind = "charge"
  <2>1. CASE pc \in Extending
    BY <1>5, <2>1 DEF MarkInv
  <2>2. CASE pc \notin Extending
    <3>1. OnlyCharges(After("events", CachedEvents)) /\ cache # Absent
      BY <1>5, <2>2
    <3>2. CachedEvents \in Nat
      BY <3>1, EntryTypes
    <3>3. i \in 1 .. Len(events) /\ i > CachedEvents
      BY <1>1, <3>2
    <3>4. i \in After("events", CachedEvents)
      BY <3>3, EventsAt DEF After, RowIds
    <3> QED BY <3>1, <3>4 DEF OnlyCharges
  <2> QED BY <2>1, <2>2
<1> QED BY <1>1, <1>2, <1>3, <1>4, <1>5 DEF MarkInv

\* What a projection of rows and charges is worth at least.
LEMMA ProjectCovers ==
    ASSUME TablesTyped, ReadTyped, NEW k \in 0 .. Len(events),
           ScopedIn(table, DOMAIN table) \cap ChargedIn(events, 1 .. k) \subseteq read.rows \cap read.charges
    PROVE  /\ Project(read.rows, read.charges).amount \in Nat
           /\ Project(read.rows, read.charges).amount >= Worth(table, events, k)
<1> DEFINE S == ScopedIn(table, DOMAIN table) \cap ChargedIn(events, 1 .. k)
           R == read.rows \cap read.charges
<1>1. read.rows \in SUBSET (1 .. issued) /\ read.charges \in SUBSET (1 .. issued)
  BY DEF ReadTyped, ReadRecord
<1>2. Project(read.rows, read.charges).amount = Sum(Values(events), R) /\ Sum(Values(events), R) \in Nat
  BY <1>1, ProjectionTypes
<1>3. R \subseteq Nat /\ IsFiniteSet(R) /\ S \in SUBSET R
  BY <1>1, NamedFinite, FS_Subset
<1>4. Worth(table, events, k) = Sum(Values(events), S)
  BY DEF Worth
<1> HIDE DEF R, S
<1>5. \A x \in R : Values(events)[x] \in Nat
  BY <1>3, ValuesNatural
<1>6. Sum(Values(events), S) <= Sum(Values(events), R)
  BY <1>3, <1>5, SumMonotone
<1>7. Sum(Values(events), S) \in Nat
  <2>1. \A x \in S : Values(events)[x] \in Nat
    BY <1>3, <1>5
  <2>2. \A x \in S : Values(events)[x] \in Int
    BY <2>1
  <2>3. IsFiniteSet(S)
    BY <1>3, FS_Subset
  <2> QED BY <2>1, <2>2, <2>3, SumType
<1> QED BY <1>2, <1>4, <1>6, <1>7

\* The cached projection and that of what was appended cover what the new mark does.
LEMMA ExtendCovers ==
    ASSUME TablesTyped, ReadTyped, ShortInv, pc = "extend", PlainAfter(events, ReadEvents),
           "renumbering" \notin taint.cache, "renumbering" \notin taint.read
    PROVE  cache.projection.amount + Project(read.rows, read.charges).amount >= Worth(table, events, ReadEvents)
<1> DEFINE a == CachedEvents
           b == ReadEvents
           D == ScopedIn(table, DOMAIN table)
           A == D \cap ChargedIn(events, 1 .. a)
           B == read.rows \cap read.charges
           S == D \cap ChargedIn(events, 1 .. b)
<1>1. pc \in AfterMarks /\ pc \in Extending /\ cache # Absent
  BY DEF AfterMarks, AfterEvents, Extending, ReadTyped
<1>2. b \in 0 .. Len(events) /\ a \in 0 .. Len(events) /\ Len(events) \in Nat
  BY <1>1, QuietRead, EntryTypes, EventsAt DEF ShortInv, CoveredInv
<1>3. \A i \in a + 1 .. b : events[i].kind = "charge"
  BY <1>1 DEF ShortInv, MarkInv
<1>4. \A i \in b + 1 .. Len(events) : events[i].kind = "charge"
  BY DEF PlainAfter
<1>5. D \cap ReadSince \subseteq B
  BY DEF ShortInv, ListInv
<1>6. ReadSince = ChargedIn(events, a + 1 .. b)
  BY DEF ReadSince
<1>7. PlainAfter(events, a) => cache.projection.amount >= Worth(table, events, a)
  BY <1>1 DEF ShortInv, CoveredInv
<1>8. Worth(table, events, a) = Sum(Values(events), A) /\ Worth(table, events, b) = Sum(Values(events), S)
  BY DEF Worth
<1>9. read.rows \in SUBSET (1 .. issued) /\ read.charges \in SUBSET (1 .. issued)
  BY DEF ReadTyped, ReadRecord
<1>10. Project(read.rows, read.charges).amount = Sum(Values(events), B)
  BY <1>9, ProjectionTypes
<1>11. cache.projection.amount \in Int
  BY <1>1, EntryTypes DEF Results
<1>12. D \subseteq 1 .. issued
  BY NamedFinite
<1> HIDE DEF a, b
<1>13. PlainAfter(events, a)
  <2>1. \A i \in a + 1 .. Len(events) : i \in a + 1 .. b \/ i \in b + 1 .. Len(events)
    BY <1>2
  <2> QED BY <1>3, <1>4, <2>1 DEF PlainAfter
<1>14. S \subseteq A \cup B
  <2>1. \A i \in 1 .. b : i \in 1 .. a \/ i \in a + 1 .. b
    BY <1>2
  <2>2. ChargedIn(events, 1 .. b) \subseteq ChargedIn(events, 1 .. a) \cup ReadSince
    BY <1>6, <2>1 DEF ChargedIn
  <2> QED BY <1>5, <2>2
<1>15. A \subseteq 1 .. issued /\ B \subseteq 1 .. issued
  BY <1>9, <1>12
<1> HIDE DEF A, B, S, D
<1>16. A \subseteq Nat /\ B \subseteq Nat /\ IsFiniteSet(A) /\ IsFiniteSet(B)
  BY <1>15, NamedFinite, FS_Subset
<1>17. \A x \in A \cup B : Values(events)[x] \in Nat
  BY <1>16, ValuesNatural
<1>18. Sum(Values(events), S) <= Sum(Values(events), A) + Sum(Values(events), B)
  BY <1>14, <1>16, <1>17, SumCover
<1>19. Sum(Values(events), A) \in Nat /\ Sum(Values(events), B) \in Nat /\ Sum(Values(events), S) \in Nat
  <2>1. \A T \in SUBSET (A \cup B) : IsFiniteSet(T) /\ \A x \in T : Values(events)[x] \in Nat /\ Values(events)[x] \in Int
    <3>1. IsFiniteSet(A \cup B)
      BY <1>16, FS_Union
    <3> QED BY <3>1, <1>17, FS_Subset
  <2>2. \A T \in SUBSET (A \cup B) : Sum(Values(events), T) \in Nat
    BY <2>1, SumType
  <2> QED BY <1>14, <2>2
<1>20. cache.projection.amount + Sum(Values(events), B) >= Sum(Values(events), S)
  BY <1>7, <1>8, <1>11, <1>13, <1>18, <1>19
<1> QED BY <1>8, <1>10, <1>20 DEF b

\* A read that is over left a projection that covers its mark.
LEMMA DoneShort ==
    ASSUME TablesTyped, ReadTyped, ShortInv, UNCHANGED dbVars, Kept, pc \in AfterMarks, pc' = "done",
           NEW p \in Results, read'.result = p, NEW at,
           "renumbering" \notin taint'.cache /\ PlainAfter(events, ReadEvents) => p.amount >= Worth(table, events, ReadEvents),
           (cache' = cache /\ taint' = taint) \/ cache' = [mark |-> read.mark, projection |-> p, at |-> at]
    PROVE  ShortInv'
<1>1. /\ read.start <= foreign /\ ReadEvents \in 0 .. Len(events) /\ (read.start = foreign => ReadEvents = Len(events))
      /\ Len(events) \in Nat
  BY QuietRead, EventsAt DEF ShortInv, MarkInv
<1>2. read'.start = read.start /\ ReadEvents' = ReadEvents /\ events' = events /\ foreign' = foreign /\ table' = table
  BY DEF Kept, ReadEvents, dbVars
<1>3. MarkInv'
  BY <1>1, <1>2 DEF MarkInv, Extending
<1>4. ListInv'
  BY DEF ListInv
<1>5. read.start = foreign /\ "renumbering" \notin taint'.cache => read'.result.amount >= Worth(table, events, Len(events))
  <2> SUFFICES ASSUME read.start = foreign, "renumbering" \notin taint'.cache PROVE p.amount >= Worth(table, events, Len(events))
    OBVIOUS
  <2>1. ReadEvents = Len(events)
    BY <1>1
  <2>2. \A i \in Len(events) + 1 .. Len(events) : FALSE
    BY <1>1
  <2>3. PlainAfter(events, Len(events))
    BY <2>2 DEF PlainAfter
  <2> QED BY <2>1, <2>3
<1>6. cache' # Absent => /\ CachedEvents' <= Len(events)
                         /\ "renumbering" \notin taint'.cache /\ PlainAfter(events, CachedEvents') =>
                               cache'.projection.amount >= Worth(table, events, CachedEvents')
  <2>1. CASE cache' = cache /\ taint' = taint
    <3>1. CachedEvents' = CachedEvents
      BY <2>1 DEF CachedEvents
    <3> QED BY <2>1, <3>1 DEF ShortInv, CoveredInv
  <2>2. CASE cache' = [mark |-> read.mark, projection |-> p, at |-> at]
    <3>1. CachedEvents' = ReadEvents /\ cache'.projection = p
      BY <2>2 DEF CachedEvents, ReadEvents
    <3> QED BY <1>1, <3>1
  <2> QED BY <2>1, <2>2
<1>7. CoveredInv'
  BY <1>2, <1>5, <1>6 DEF CoveredInv
<1> QED BY <1>3, <1>4, <1>7 DEF ShortInv

LEMMA ServingShort ==
    ASSUME TablesTyped, ReadTyped, ShortInv, TaintInv, Serving
    PROVE  ShortInv'
<1>0. UNCHANGED <<clock, dbVars, base>> /\ read \in ReadRecord /\ foreign \in Nat
  BY ServingTyped DEF ReadTyped, TablesTyped
<1>1. table' = table /\ events' = events /\ foreign' = foreign
  BY <1>0 DEF dbVars
<1>2. Len(events) \in Nat /\ DOMAIN events = 1 .. Len(events)
  BY EventsAt
\* A step that only moves on.
<1>3. ASSUME cache' = cache, taint' = taint, Kept, pc \in AfterMarks, pc' \in AfterMarks, pc' # "done", ListInv',
             pc' \in Extending => cache # Absent /\ (pc \in Extending \/ OnlyCharges(After("events", CachedEvents)))
      PROVE  ShortInv'
  <2>1. MarkInv'
    BY <1>0, <1>3, ServingMarks DEF ShortInv
  <2>2. CoveredInv'
    BY <1>0, <1>3, CoveredStays
  <2> QED BY <1>3, <2>1, <2>2 DEF ShortInv
<1>4. CASE Start
  <2>1. pc' = "events_version" /\ read' = [Idle EXCEPT !.start = foreign] /\ cache' = cache /\ taint' = taint
    BY <1>4 DEF Start, Go
  <2>2. read'.start = foreign
    BY <2>1 DEF Idle
  <2>3. MarkInv' /\ ListInv'
    BY <1>0, <1>1, <2>1, <2>2 DEF MarkInv, ListInv, AfterEvents, Extending
  <2>4. CoveredInv'
    BY <1>0, <2>1, CoveredStays
  <2> QED BY <2>3, <2>4 DEF ShortInv
<1>5. CASE Return
  <2>1. pc' = "idle" /\ read' = Idle /\ cache' = cache /\ taint'.cache = taint.cache
    BY <1>5 DEF Return, Go, TaintInv
  <2>2. read'.start = 0
    BY <2>1 DEF Idle
  <2>3. MarkInv' /\ ListInv'
    BY <1>0, <1>1, <2>1, <2>2 DEF MarkInv, ListInv, AfterEvents, Extending
  <2>4. CoveredInv'
    BY <1>0, <2>1, CoveredStays
  <2> QED BY <2>3, <2>4 DEF ShortInv
<1>6. CASE ServeCached
  <2> DEFINE p == cache.projection
  <2>1. pc = "serve" /\ pc' = "done" /\ read' = [read EXCEPT !.result = p] /\ cache' = cache /\ taint' = taint /\ cache # Absent
        /\ cache.mark = read.mark
    BY <1>6 DEF ServeCached, Go, Fresh
  <2>2. p \in Results /\ pc \in AfterMarks
    BY <2>1, EntryTypes DEF AfterMarks, AfterEvents
  <2>3. Kept /\ read'.result = p
    BY <1>0, <2>1 DEF ReadRecord, Kept
  <2>4. CachedEvents = ReadEvents
    BY <2>1 DEF CachedEvents, ReadEvents
  <2>5. "renumbering" \notin taint'.cache /\ PlainAfter(events, ReadEvents) => p.amount >= Worth(table, events, ReadEvents)
    BY <2>1, <2>4 DEF ShortInv, CoveredInv
  <2> HIDE DEF p
  <2> QED BY <1>0, <2>1, <2>2, <2>3, <2>5, DoneShort
<1>7. CASE Expired
  <2>1. pc = "serve" /\ pc' = "full_rows" /\ read' = read /\ cache' = cache /\ taint' = taint
    BY <1>7 DEF Expired, Go
  <2>2. Kept /\ pc \in AfterMarks /\ pc' \in AfterMarks /\ pc' \notin Extending
    BY <2>1 DEF Kept, AfterMarks, AfterEvents, Extending
  <2>3. ListInv'
    BY <2>1 DEF ListInv
  <2> QED BY <1>3, <2>1, <2>2, <2>3
<1>8. CASE CheckEvents
  <2>1. pc = "serve" /\ pc' \in {"ids", "full_rows"} /\ read' = read /\ cache' = cache /\ taint' = taint
        /\ cache # Absent /\ (pc' = "ids" => OnlyCharges(After("events", CachedEvents)))
    BY <1>8 DEF CheckEvents, Go, Fresh, CachedEvents
  <2>2. Kept /\ pc \in AfterMarks /\ pc' \in AfterMarks /\ pc' # "done" /\ (pc' \in Extending => pc' = "ids")
    BY <2>1 DEF Kept, AfterMarks, AfterEvents, Extending
  <2>3. ListInv'
    BY <2>1 DEF ListInv
  <2> QED BY <1>3, <2>1, <2>2, <2>3
<1>9. CASE ListIds
  <2> DEFINE new == After("requests", cache.mark["requests"].rowid)
  <2>1. pc = "ids" /\ pc' \in {"charges", "full_rows"} /\ read' = [read EXCEPT !.ids = {table[i].id : i \in new}]
        /\ cache' = cache /\ taint' = taint
    BY <1>9 DEF ListIds, Go
  <2>2. Kept /\ pc \in AfterMarks /\ pc' \in AfterMarks /\ pc' # "done" /\ pc \in Extending /\ cache # Absent
    BY <1>0, <2>1 DEF Kept, AfterMarks, AfterEvents, Extending, ReadTyped, ReadRecord
  <2>3. read'.ids = {table[i].id : i \in new}
    BY <1>0, <2>1 DEF ReadRecord
  <2>4. ASSUME NEW i \in DOMAIN table, table[i].id \in read'.ids PROVE i > cache.mark["requests"].rowid
    <3>1. PICK j \in new : table[j].id = table[i].id
      BY <2>3, <2>4
    <3>2. j \in DOMAIN table /\ j > cache.mark["requests"].rowid
      BY DEF After, RowIds
    <3>3. j = i
      BY <3>1, <3>2 DEF TablesTyped
    <3> QED BY <3>2, <3>3
  <2>5. ListInv'
    BY <1>1, <2>1, <2>4 DEF ListInv
  <2> QED BY <1>3, <2>1, <2>2, <2>5
<1>10. CASE ListCharges
  <2> DEFINE new == ChargesOf(After("events", CachedEvents))
  <2>1. /\ pc = "charges" /\ pc' \in {"rows", "full_rows"} /\ cache' = cache /\ taint' = taint
        /\ read' = [read EXCEPT !.charges = new] \/ read' = [read EXCEPT !.ids = {}]
        /\ pc' = "rows" => new \subseteq read.ids /\ read' = [read EXCEPT !.charges = new]
    BY <1>10 DEF ListCharges, NewCharges, Go, CachedEvents
  <2>2. Kept /\ pc \in AfterMarks /\ pc' \in AfterMarks /\ pc' # "done" /\ pc \in Extending /\ cache # Absent
    BY <1>0, <2>1 DEF Kept, AfterMarks, AfterEvents, Extending, ReadTyped, ReadRecord
  <2>3. pc' = "rows" => read'.charges = new /\ read'.ids = read.ids
    BY <1>0, <2>1 DEF ReadRecord
  <2>4. ReadSince \subseteq new
    <3>1. ReadEvents \in 0 .. Len(events) /\ CachedEvents \in Nat
      BY <2>2, QuietRead, EntryTypes DEF ShortInv
    <3>2. \A i \in CachedEvents + 1 .. ReadEvents : i \in 1 .. Len(events) /\ i > CachedEvents
      BY <1>2, <3>1
    <3>3. \A i \in CachedEvents + 1 .. ReadEvents : i \in After("events", CachedEvents)
      BY <1>2, <3>2 DEF After, RowIds
    <3> QED BY <3>3 DEF ReadSince, ChargedIn, ChargesOf
  <2>5. ReadSince' = ReadSince
    BY <1>1, <2>1, <2>2 DEF ReadSince, CachedEvents, ReadEvents, Kept
  <2> HIDE DEF new
  <2>6. ListInv'
    BY <1>1, <2>1, <2>3, <2>4, <2>5 DEF ShortInv, ListInv
  <2> QED BY <1>3, <2>1, <2>2, <2>6
<1>11. CASE ListRows
  <2> DEFINE new == ScopedRows(After("requests", cache.mark["requests"].rowid))
  <2>1. pc = "rows" /\ pc' = "extend" /\ read' = [read EXCEPT !.rows = new] /\ cache' = cache /\ taint' = taint
    BY <1>11 DEF ListRows, Go
  <2>2. Kept /\ pc \in AfterMarks /\ pc' \in AfterMarks /\ pc' # "done" /\ pc \in Extending /\ cache # Absent
    BY <1>0, <2>1 DEF Kept, AfterMarks, AfterEvents, Extending, ReadTyped, ReadRecord
  <2>3. read'.rows = new /\ read'.charges = read.charges
    BY <1>0, <2>1 DEF ReadRecord
  <2>4. ReadSince' = ReadSince
    BY <1>1, <2>1, <2>2 DEF ReadSince, CachedEvents, ReadEvents, Kept
  <2>5. ReadSince \subseteq read.charges /\ read.charges \subseteq read.ids
    BY <2>1 DEF ShortInv, ListInv
  <2>6. ASSUME "renumbering" \notin taint.read, NEW id \in ScopedIn(table, DOMAIN table), id \in read.ids PROVE id \in new
    <3>1. PICK i \in DOMAIN table : table[i].scoped /\ table[i].id = id
      BY DEF ScopedIn
    <3>2. i > cache.mark["requests"].rowid
      BY <2>1, <2>6, <3>1 DEF ShortInv, ListInv
    <3>3. i \in After("requests", cache.mark["requests"].rowid)
      BY <3>2 DEF After, RowIds
    <3> QED BY <3>1, <3>3 DEF ScopedRows
  <2> HIDE DEF new
  <2>7. "renumbering" \notin taint.read => ScopedIn(table, DOMAIN table) \cap ReadSince \subseteq read'.rows \cap read'.charges
    BY <2>3, <2>5, <2>6
  <2>8. ListInv'
    BY <1>1, <2>1, <2>4, <2>7 DEF ListInv
  <2> QED BY <1>3, <2>1, <2>2, <2>8
<1>12. CASE Extend
  <2> DEFINE p == Plus(cache.projection, Project(read.rows, read.charges))
  <2>1. /\ pc = "extend" /\ pc' = "done" /\ read' = [read EXCEPT !.result = p]
        /\ cache' = [mark |-> read.mark, projection |-> p, at |-> cache.at]
    BY <1>12 DEF Extend, Go
  <2>2. cache # Absent /\ pc \in AfterMarks
    BY <2>1 DEF ReadTyped, Extending, AfterMarks, AfterEvents
  <2>3. Project(read.rows, read.charges) \in Results
    BY <1>0, ProjectionTypes DEF ReadRecord
  <2>4. p \in Results /\ p.amount = cache.projection.amount + Project(read.rows, read.charges).amount
    BY <2>2, <2>3, EntryTypes, PlusTyped
  <2>t. "renumbering" \notin taint'.cache => "renumbering" \notin taint.cache /\ "renumbering" \notin taint.read
    BY <1>12 DEF Extend, TaintInv
  <2>5. "renumbering" \notin taint'.cache /\ PlainAfter(events, ReadEvents) => p.amount >= Worth(table, events, ReadEvents)
    BY <2>1, <2>4, <2>t, ExtendCovers
  <2> HIDE DEF p
  <2>6. Kept /\ read'.result = p
    BY <1>0, <2>1 DEF ReadRecord, Kept
  <2> QED BY <1>0, <2>1, <2>2, <2>4, <2>5, <2>6, DoneShort
<1>13. CASE FullRows
  <2>1. pc = "full_rows" /\ pc' = "full_events" /\ cache' = cache /\ taint' = taint
        /\ read' = [read EXCEPT !.rows = ScopedRows(DOMAIN table), !.ids = {}, !.charges = {}]
    BY <1>13 DEF FullRows, Go
  <2>2. Kept /\ pc \in AfterMarks /\ pc' \in AfterMarks /\ pc' # "done" /\ pc' \notin Extending
    BY <1>0, <2>1 DEF Kept, AfterMarks, AfterEvents, Extending, ReadRecord
  <2>3. read'.rows = ScopedIn(table, DOMAIN table)
    BY <1>0, <2>1, NamedTypes DEF ReadRecord
  <2>4. ListInv'
    BY <1>1, <2>1, <2>3 DEF ListInv
  <2> QED BY <1>3, <2>1, <2>2, <2>4
<1>14. CASE FullEvents
  <2>1. pc = "full_events" /\ pc' = "rebuild" /\ cache' = cache /\ taint' = taint
        /\ read' = [read EXCEPT !.charges = ChargesOf(DOMAIN events)]
    BY <1>14 DEF FullEvents, Go
  <2>2. Kept /\ pc \in AfterMarks /\ pc' \in AfterMarks /\ pc' # "done" /\ pc' \notin Extending
    BY <1>0, <2>1 DEF Kept, AfterMarks, AfterEvents, Extending, ReadRecord
  <2>3. read'.rows = read.rows /\ read'.charges = ChargedIn(events, DOMAIN events)
    BY <1>0, <2>1, NamedTypes DEF ReadRecord
  <2>4. ChargedIn(events, 1 .. ReadEvents) \subseteq ChargedIn(events, DOMAIN events)
    <3>1. ReadEvents \in 0 .. Len(events)
      BY <2>2, QuietRead DEF ShortInv
    <3>2. 1 .. ReadEvents \subseteq DOMAIN events
      BY <1>2, <3>1
    <3> QED BY <3>2 DEF ChargedIn
  <2>5. ReadEvents' = ReadEvents
    BY <2>2 DEF ReadEvents, Kept
  <2>6. ListInv'
    BY <1>1, <2>1, <2>3, <2>4, <2>5 DEF ShortInv, ListInv
  <2> QED BY <1>3, <2>1, <2>2, <2>6
<1>15. CASE Rebuild
  <2> DEFINE p == Project(read.rows, read.charges)
  <2>1. /\ pc = "rebuild" /\ pc' = "done" /\ read' = [read EXCEPT !.result = p]
        /\ cache' = [mark |-> read.mark, projection |-> p, at |-> clock]
    BY <1>15 DEF Rebuild, Go
  <2>2. p \in Results /\ pc \in AfterMarks
    BY <1>0, <2>1, ProjectionTypes DEF AfterMarks, AfterEvents, ReadRecord
  <2>3. ReadEvents \in 0 .. Len(events)
    BY <2>2, QuietRead DEF ShortInv
  <2>4. ScopedIn(table, DOMAIN table) \cap ChargedIn(events, 1 .. ReadEvents) \subseteq read.rows \cap read.charges
    BY <2>1 DEF ShortInv, ListInv
  <2>5. p.amount >= Worth(table, events, ReadEvents)
    BY <2>3, <2>4, ProjectCovers
  <2> HIDE DEF p
  <2>6. Kept /\ read'.result = p
    BY <1>0, <2>1 DEF ReadRecord, Kept
  <2> QED BY <1>0, <2>1, <2>2, <2>5, <2>6, DoneShort
<1> QED BY <1>4, <1>5, <1>6, <1>7, <1>8, <1>9, <1>10, <1>11, <1>12, <1>13, <1>14, <1>15 DEF Serving

\* Nothing returned is short unless a VACUUM fell inside a read.
CoverageInv == TablesTyped /\ ReadTyped /\ ShortInv /\ TaintInv

LEMMA StartTyped == ASSUME CacheInit PROVE TablesTyped /\ ReadTyped
<1>1. DOMAIN table = {} /\ DOMAIN events = {} /\ events \in Seq(SpendEvents) /\ table \in [DOMAIN table -> RequestRows]
  BY DEF CacheInit
<1>2. DOMAIN table \subseteq 1 .. 0
  BY <1>1
<1>3. TablesTyped
  BY <1>1, <1>2 DEF CacheInit, TablesTyped, Corrections
<1>4. read \in ReadRecord
  BY DEF CacheInit, Idle, ReadRecord, Tables, Marks
<1>5. base \in [Tables -> Bases \cup {Absent}]
  BY DEF CacheInit
<1>6. pc = "idle" /\ cache = Absent
  BY DEF CacheInit
<1>7. pc \in ReadSteps /\ pc \notin AfterEvents /\ pc \notin AfterMarks /\ pc # "done" /\ pc \notin Extending
  BY <1>6 DEF ReadSteps, AfterEvents, AfterMarks, Extending
<1>8. ReadTyped
  BY <1>4, <1>5, <1>6, <1>7 DEF ReadTyped
<1> QED BY <1>3, <1>8

LEMMA CacheSteps ==
    ASSUME CacheNext
    PROVE  \/ Commit \/ ClockTick \/ Serving
           \/ \E t \in Tables : ReadVersion(t) \/ ReadMax(t) \/ Recount(t) \/ CountSince(t)
  BY DEF CacheNext, Read, Commit, Serving

LEMMA TypedNext ==
    ASSUME TablesTyped, ReadTyped, CacheNext
    PROVE  TablesTyped' /\ ReadTyped'
<1>1. CASE Commit
  <2>1. TablesTyped' /\ Grows /\ UNCHANGED <<base, cache, pc, read>>
    BY <1>1, CommitGrows
  <2> QED BY <2>1, CommitTyped
<1>2. CASE ClockTick
  BY <1>2, ClockTyped
<1>3. CASE Serving
  BY <1>3, ServingTyped, ReadStays
<1>4. ASSUME NEW t \in Tables, ReadVersion(t) \/ ReadMax(t) \/ Recount(t) \/ CountSince(t)
      PROVE  TablesTyped' /\ ReadTyped'
  <2>1. UNCHANGED <<clock, dbVars>>
    BY <1>4 DEF ReadVersion, ReadMax, Recount, FullCount, CountSince, Go
  <2> QED BY <1>4, <2>1, MarkTyped, ReadStays
<1> QED BY <1>1, <1>2, <1>3, <1>4, CacheSteps

LEMMA TaintNext ==
    ASSUME TablesTyped, ReadTyped, MarkInv, TaintInv, CacheNext
    PROVE  TaintInv'
<1>0. /\ taint \in [read : Taints, cache : Taints] /\ read \in ReadRecord /\ foreign \in Nat /\ read.start \in Nat
      /\ read.start <= foreign /\ (taint.read # {} => pc # "idle" /\ read.start < foreign)
  BY DEF TaintInv, TablesTyped, ReadTyped, MarkInv, ReadRecord
<1>1. CASE Commit
  <2>1. UNCHANGED <<pc, read>> /\ (pc = "idle" \/ foreign' = foreign + 1)
    BY <1>1, CommitGrows
  <2>2. CASE pc = "idle"
    BY <1>0, <1>1, <2>2, CommitNotes DEF TaintInv
  <2>3. CASE pc # "idle"
    BY <1>0, <1>1, <2>1, <2>3, CommitNotes DEF TaintInv
  <2> QED BY <2>2, <2>3
<1>2. CASE UNCHANGED <<taint, foreign>> /\ pc # "idle" /\ pc' # "idle" /\ read'.start = read.start
  BY <1>0, <1>2 DEF TaintInv
<1>3. CASE ClockTick
  BY <1>0, <1>3 DEF ClockTick, TaintInv, dbVars
<1>4. ASSUME NEW t \in Tables, ReadVersion(t) \/ ReadMax(t) \/ Recount(t) \/ CountSince(t)
      PROVE  TaintInv'
  <2>1. UNCHANGED <<taint, foreign>>
    BY <1>4 DEF ReadVersion, ReadMax, Recount, FullCount, CountSince, Go, dbVars
  <2>2. pc # "idle" /\ pc' # "idle"
    BY <1>4 DEF ReadVersion, ReadMax, Recount, FullCount, CountSince, Go, Step, MarkSteps, AfterMark, Tables
  <2>3. read'.start = read.start
    BY <1>0, <1>4 DEF ReadVersion, ReadMax, Recount, FullCount, CountSince, Go, ReadRecord
  <2> QED BY <1>2, <2>1, <2>2, <2>3
<1>5. CASE Start
  BY <1>0, <1>5 DEF Start, Go, dbVars, TaintInv
<1>6. CASE Return
  <2>1. taint'.read = {} /\ taint'.cache = taint.cache /\ taint' \in [read : Taints, cache : Taints]
    BY <1>0, <1>6 DEF Return, Taints
  <2> QED BY <2>1 DEF TaintInv
<1>7. CASE ServeCached \/ Expired \/ CheckEvents \/ ListIds \/ ListCharges \/ ListRows \/ FullRows \/ FullEvents
  <2>1. UNCHANGED <<taint, foreign>> /\ pc # "idle" /\ pc' # "idle"
    BY <1>7 DEF ServeCached, Expired, CheckEvents, ListIds, ListCharges, ListRows, FullRows, FullEvents, Go, dbVars
  <2>2. read'.start = read.start
    BY <1>0, <1>7 DEF ServeCached, Expired, CheckEvents, ListIds, ListCharges, ListRows, FullRows, FullEvents, Go, ReadRecord
  <2> QED BY <1>2, <2>1, <2>2
<1>8. CASE Extend \/ Rebuild
  <2>1. /\ taint' = [taint EXCEPT !.cache = taint.cache \cup taint.read] \/ taint' = [taint EXCEPT !.cache = taint.read]
        /\ foreign' = foreign /\ pc # "idle" /\ pc' = "done"
    BY <1>8 DEF Extend, Rebuild, Go, dbVars
  <2>2. read'.start = read.start
    BY <1>0, <1>8 DEF Extend, Rebuild, Go, ReadRecord
  <2>3. taint.cache \cup taint.read \in Taints /\ taint.read \in Taints
    BY <1>0 DEF Taints
  <2>4. taint'.read = taint.read /\ taint' \in [read : Taints, cache : Taints]
    BY <1>0, <2>1, <2>3
  <2> QED BY <1>0, <2>1, <2>2, <2>4 DEF TaintInv
<1> QED BY <1>1, <1>3, <1>4, <1>5, <1>6, <1>7, <1>8, CacheSteps DEF Serving

LEMMA CoverageStart == ASSUME CacheInit PROVE CoverageInv
<1>1. pc = "idle" /\ cache = Absent /\ read.start = 0 /\ foreign = 0 /\ taint = [read |-> {}, cache |-> {}]
  BY DEF CacheInit, Idle
<1>2. MarkInv /\ ListInv /\ CoveredInv
  BY <1>1 DEF MarkInv, ListInv, CoveredInv, AfterEvents, Extending
<1>3. TaintInv
  BY <1>1 DEF TaintInv, Taints
<1> QED BY <1>2, <1>3, StartTyped DEF CoverageInv, ShortInv

LEMMA CoverageNext ==
    ASSUME CoverageInv, [CacheNext]_cacheVars
    PROVE  CoverageInv'
<1>0. TablesTyped /\ ReadTyped /\ ShortInv /\ TaintInv
  BY DEF CoverageInv
<1>1. CASE CacheNext
  <2>1. TablesTyped' /\ ReadTyped' /\ TaintInv'
    BY <1>0, <1>1, TypedNext, TaintNext DEF ShortInv
  <2>2. CASE Commit
    <3>2. MarkInv' /\ ListInv' /\ CoveredInv'
      BY <1>0, <2>2, CommitMarks, CommitLists, CommitCovered
    <3> QED BY <2>1, <3>2 DEF CoverageInv, ShortInv
  <2>3. CASE ClockTick
    BY <1>0, <2>1, <2>3, ClockShort DEF CoverageInv
  <2>4. CASE Serving
    BY <1>0, <2>1, <2>4, ServingShort DEF CoverageInv
  <2>5. ASSUME NEW t \in Tables, ReadVersion(t) \/ ReadMax(t) \/ Recount(t) \/ CountSince(t)
        PROVE  CoverageInv'
    BY <1>0, <2>1, <2>5, MarkShort DEF CoverageInv
  <2> QED BY <1>1, <2>2, <2>3, <2>4, <2>5, CacheSteps
<1>2. CASE UNCHANGED cacheVars
  <2>1. UNCHANGED <<clock, dbVars>> /\ UNCHANGED <<dbVars, base, cache, pc, read, taint>>
    BY <1>2 DEF cacheVars
  <2>2. TablesTyped'
    BY <1>0, <2>1, ReadStays
  <2>3. ReadTyped'
    BY <1>0, <2>1 DEF ReadTyped, ReadRecord, dbVars
  <2>4. MarkInv' /\ ListInv' /\ CoveredInv'
    BY <1>0, <2>1 DEF ShortInv, MarkInv, ListInv, CoveredInv, CachedEvents, ReadEvents, ReadSince, Worth, PlainAfter, dbVars
  <2>5. TaintInv'
    BY <1>0, <2>1 DEF TaintInv, dbVars
  <2> QED BY <2>2, <2>3, <2>4, <2>5 DEF CoverageInv, ShortInv
<1> QED BY <1>1, <1>2

LEMMA CoverageEnough == ASSUME CoverageInv PROVE NeverShort
<1> SUFFICES ASSUME Quiet, "renumbering" \notin taint.cache PROVE read.result.amount >= Full.amount
  BY DEF NeverShort
<1>1. TablesTyped /\ pc = "done" /\ read.start = foreign /\ CoveredInv
  BY DEF CoverageInv, ShortInv, Quiet
<1>2. read.result.amount >= Worth(table, events, Len(events))
  BY <1>1 DEF CoveredInv
<1> DEFINE D == ScopedIn(table, DOMAIN table)
           C == ChargedIn(events, DOMAIN events)
<1>3. Full = Project(D, C) /\ D \in SUBSET (1 .. issued) /\ C \in SUBSET (1 .. issued)
  BY <1>1, NamedTypes DEF Full
<1>4. Project(D, C).amount = Sum(Values(events), D \cap C)
  BY <1>1, <1>3, ProjectionTypes
<1>5. DOMAIN events = 1 .. Len(events)
  BY <1>1, EventsAt
<1>6. Worth(table, events, Len(events)) = Sum(Values(events), D \cap C)
  BY <1>5 DEF Worth
<1> QED BY <1>2, <1>3, <1>4, <1>6

(* A quiet read never returns less effective spend than the ledger holds, *)
(* for any tables, ages, corrections, clock and cache settings, and       *)
(* wherever the commits of others fall, inside reads too, as long as no   *)
(* VACUUM renumbered rows inside a read the cached projection is from.    *)
THEOREM CacheNeverShort == CacheSpec => []NeverShort
<1>1. CacheInit => CoverageInv
  BY CoverageStart
<1>2. CoverageInv /\ [CacheNext]_cacheVars => CoverageInv'
  BY CoverageNext
<1>3. CoverageInv => NeverShort
  BY CoverageEnough
<1> QED BY <1>1, <1>2, <1>3, PTL DEF CacheSpec

-----------------------------------------------------------------------------
(* What is put together undisturbed is the projection as it stands. *)

CachedRows == cache.mark["requests"].rowid
Below(k) == {i \in DOMAIN table : i <= k}
Whole == ProjectIn(events, ScopedIn(table, DOMAIN table), ChargedIn(events, 1 .. Len(events)))

\* A read that was not disturbed has marked the ends of both tables.
MarksExact ==
    /\ \A t \in Tables : pc = MarkSteps[t].count => read.max = MaxRowId(t)
    /\ pc \in AfterEvents => ReadEvents = Len(events)
    /\ pc \in AfterMarks => read.mark["requests"].rowid = MaxRowId("requests")

\* The cached projection is that of the rows and charges below its marks,
\* and a charge is below one mark when its row is below the other.
CacheExact ==
    cache # Absent =>
        /\ CachedEvents <= Len(events)
        /\ CachedRows = 0 \/ \E j \in DOMAIN table : CachedRows <= j
        /\ \A i \in DOMAIN events, j \in DOMAIN table :
              events[i].kind = "charge" /\ events[i].id = table[j].id => (i <= CachedEvents <=> j <= CachedRows)
        /\ PlainAfter(events, CachedEvents) =>
              cache.projection = ProjectIn(events, ScopedIn(table, Below(CachedRows)), ChargedIn(events, 1 .. CachedEvents))

ReadExact ==
    /\ pc \in Extending => PlainAfter(events, CachedEvents)
    /\ pc \in {"rows", "extend"} => read.charges = ChargedIn(events, CachedEvents + 1 .. Len(events))
    /\ pc = "extend" => read.rows = ScopedIn(table, After("requests", CachedRows))
    /\ pc \in {"full_events", "rebuild"} => read.rows = ScopedIn(table, DOMAIN table)
    /\ pc = "rebuild" => read.charges = ChargedIn(events, 1 .. Len(events))
    /\ pc = "done" /\ taint.cache = {} => read.result = Whole

ExactInv ==
    /\ taint.read = {} => MarksExact /\ ReadExact
    /\ taint.cache = {} => CacheExact

\* Where a commit leaves the rows of the cached projection, it leaves the
\* projection: what was appended lies above both marks.
LEMMA AppendExact ==
    ASSUME TablesTyped, ReadTyped, TablesTyped', Grows, CacheExact, cache' = cache,
           \A i \in DOMAIN table : i \in DOMAIN table' /\ table'[i] = table[i],
           \A j \in DOMAIN table' \ DOMAIN table : j > MaxRowId("requests") /\ table'[j].id > issued,
           \A i \in DOMAIN events' : i \notin DOMAIN events /\ events'[i].kind = "charge" => events'[i].id > issued
    PROVE  CacheExact'
<1>3. /\ Len(events) \in Nat /\ Len(events') \in Nat /\ Len(events) <= Len(events') /\ issued \in Nat
      /\ DOMAIN events = 1 .. Len(events) /\ DOMAIN events' = 1 .. Len(events')
      /\ \A i \in DOMAIN events : events'[i] = events[i] /\ events[i].id \in 1 .. issued
      /\ \A j \in DOMAIN table : table[j].id \in 1 .. issued
  BY EventsAt DEF TablesTyped, Grows
<1> SUFFICES ASSUME cache # Absent
             PROVE  /\ CachedEvents' <= Len(events')
                    /\ CachedRows' = 0 \/ \E j \in DOMAIN table' : CachedRows' <= j
                    /\ \A i \in DOMAIN events', j \in DOMAIN table' :
                          events'[i].kind = "charge" /\ events'[i].id = table'[j].id =>
                              (i <= CachedEvents' <=> j <= CachedRows')
                    /\ PlainAfter(events', CachedEvents') =>
                          cache'.projection = ProjectIn(events', ScopedIn(table', Below(CachedRows)'),
                                                        ChargedIn(events', (1 .. CachedEvents)'))
  BY DEF CacheExact
<1> DEFINE a == CachedEvents
           r == CachedRows
           p == cache.projection
<1>4. a \in Nat /\ r \in Nat
  BY EntryTypes DEF CachedRows, Marks
<1>5. /\ a <= Len(events) /\ (r = 0 \/ \E j \in DOMAIN table : r <= j)
      /\ \A i \in DOMAIN events, j \in DOMAIN table :
            events[i].kind = "charge" /\ events[i].id = table[j].id => (i <= a <=> j <= r)
      /\ PlainAfter(events, a) => p = ProjectIn(events, ScopedIn(table, Below(r)), ChargedIn(events, 1 .. a))
  BY DEF CacheExact
<1>6. CachedEvents' = a /\ CachedRows' = r /\ cache'.projection = p /\ Below(CachedRows)' = {i \in DOMAIN table' : i <= r}
  BY DEF CachedEvents, CachedRows, Below
<1> HIDE DEF a, r, p
<1>7. DOMAIN table \subseteq Nat /\ DOMAIN table' \subseteq Nat
  BY DEF TablesTyped
<1>8. \A j \in DOMAIN table' \ DOMAIN table : ~ (j <= r)
  <2>1. MaxRowId("requests") \in Nat /\ \A i \in DOMAIN table : i \in 1 .. MaxRowId("requests")
    BY LargestRowId
  <2>2. r <= MaxRowId("requests")
    BY <1>4, <1>5, <1>7, <2>1
  <2> QED BY <1>4, <1>7, <2>1, <2>2
<1>9. ASSUME NEW i \in DOMAIN events', NEW j \in DOMAIN table', events'[i].kind = "charge", events'[i].id = table'[j].id
      PROVE  i <= a <=> j <= r
  <2>1. CASE i \in DOMAIN events /\ j \in DOMAIN table
    BY <1>3, <1>5, <1>9, <2>1
  <2>2. CASE i \notin DOMAIN events /\ j \notin DOMAIN table
    <3>1. i \in Nat /\ i > Len(events)
      BY <1>3, <2>2
    <3>2. ~ (i <= a)
      BY <1>3, <1>4, <1>5, <3>1
    <3> QED BY <1>8, <2>2, <3>2
  <2>3. CASE i \in DOMAIN events /\ j \notin DOMAIN table
    <3>1. events'[i].id \in 1 .. issued /\ table'[j].id > issued
      BY <1>3, <2>3
    <3> QED BY <1>3, <1>9, <3>1
  <2>4. CASE i \notin DOMAIN events /\ j \in DOMAIN table
    <3>1. events'[i].id > issued /\ table'[j].id \in 1 .. issued
      BY <1>3, <1>9, <2>4
    <3> QED BY <1>3, <1>9, <3>1
  <2> QED BY <2>1, <2>2, <2>3, <2>4
<1>10. ASSUME PlainAfter(events', a)
       PROVE  p = ProjectIn(events', ScopedIn(table', {i \in DOMAIN table' : i <= r}), ChargedIn(events', 1 .. a))
  <2>1. a \in 0 .. Len(events)
    BY <1>3, <1>4, <1>5
  <2>2. Values(events') = Values(events) /\ PlainAfter(events, a)
    BY <1>10, <2>1, ValuesKept
  <2>3. ChargedIn(events', 0 + 1 .. a) = ChargedIn(events, 0 + 1 .. a)
    BY <2>1, ChargedKept
  <2>4. 0 + 1 .. a = 1 .. a
    OBVIOUS
  <2>5. {i \in DOMAIN table' : i <= r} = Below(r)
    BY <1>8 DEF Below
  <2>6. ScopedIn(table', Below(r)) = ScopedIn(table, Below(r))
    <3>1. \A i \in Below(r) : table'[i] = table[i]
      BY DEF Below
    <3> QED BY <3>1 DEF ScopedIn
  <2>7. ChargedIn(events', 1 .. a) = ChargedIn(events, 1 .. a)
    BY <2>3, <2>4
  <2>8. p = ProjectIn(events, ScopedIn(table, Below(r)), ChargedIn(events, 1 .. a))
    BY <1>5, <2>2
  <2> QED BY <2>2, <2>5, <2>6, <2>7, <2>8 DEF ProjectIn
<1>11. a <= Len(events') /\ (r = 0 \/ \E j \in DOMAIN table' : r <= j)
  BY <1>3, <1>4, <1>5
<1> QED BY <1>6, <1>9, <1>10, <1>11

LEMMA CommitExact ==
    ASSUME TablesTyped, ReadTyped, TaintInv, ExactInv, Commit
    PROVE  ExactInv'
<1>1. TablesTyped' /\ Grows /\ UNCHANGED <<base, cache, pc, read>>
  BY CommitGrows
<1>2. ASSUME taint'.read = {} PROVE MarksExact' /\ ReadExact'
  <2>1. pc' = "idle"
    BY <1>1, <1>2, CommitNotes DEF TaintInv
  <2>2. pc' \notin AfterEvents /\ pc' \notin AfterMarks /\ pc' \notin Extending /\ \A t \in Tables : pc' # MarkSteps[t].count
    BY <2>1 DEF AfterMarks, AfterEvents, Extending, MarkSteps, Tables
  <2> QED BY <2>1, <2>2 DEF MarksExact, ReadExact
<1>3. ASSUME taint'.cache = {} PROVE CacheExact'
  <2>1. CacheExact /\ ~ Prune /\ ~ Vacuum
    BY <1>3, CommitNotes DEF TaintInv, ExactInv
  <2>2. Len(events) \in Nat /\ DOMAIN events = 1 .. Len(events) /\ events \in Seq(SpendEvents) /\ issued \in Nat
    BY EventsAt DEF TablesTyped
  <2>3. CASE RepriceApply
    <3>1. PICK id \in ScopedRows(DOMAIN table) \cap ChargesOf(DOMAIN events), d \in {-1, 1} :
            events' = Append(events, [kind |-> "price_corrected", id |-> id, delta |-> d, scoped |-> TRUE])
      BY <2>3 DEF RepriceApply
    <3> DEFINE e == [kind |-> "price_corrected", id |-> id, delta |-> d, scoped |-> TRUE]
    <3>2. e.kind = "price_corrected" /\ events' = Append(events, e)
      BY <3>1
    <3> HIDE DEF e
    <3>3. \A i \in DOMAIN events' : i \in DOMAIN events \/ events'[i] = e
      BY <2>2, <3>2
    <3>4. table' = table
      BY <2>3 DEF RepriceApply
    <3> QED BY <1>1, <2>1, <3>2, <3>3, <3>4, AppendExact
  <2>4. ASSUME NEW scoped \in BOOLEAN, NEW old \in BOOLEAN, NEW priced \in BOOLEAN, Insert(scoped, old, priced),
               clock' = clock, foreign' \in Nat, foreign <= foreign', prunes' = prunes
        PROVE  CacheExact'
    <3>1. /\ issued' = issued + 1
          /\ DOMAIN table' = DOMAIN table \cup {MaxRowId("requests") + 1}
          /\ \A i \in DOMAIN table' : table'[i] = IF i \in DOMAIN table THEN table[i]
                                                 ELSE [id |-> issued + 1, scoped |-> scoped, old |-> old]
      BY <2>4, InsertGrows
    <3>2. MaxRowId("requests") \in Nat
      BY LargestRowId
    <3>3. \A i \in DOMAIN table : i \in DOMAIN table' /\ table'[i] = table[i]
      BY <3>1
    <3>4. \A j \in DOMAIN table' \ DOMAIN table : j > MaxRowId("requests") /\ table'[j].id > issued
      BY <2>2, <3>1, <3>2
    <3> DEFINE e == [kind |-> "charge", id |-> issued', delta |-> 0, scoped |-> scoped]
    <3>6. e.id = issued' /\ (events' = Append(events, e) \/ events' = events)
      BY <2>4 DEF Insert
    <3> HIDE DEF e
    <3>7. \A i \in DOMAIN events' : i \in DOMAIN events \/ events'[i] = e
      <4>1. CASE events' = events
        BY <4>1
      <4>2. CASE events' = Append(events, e)
        BY <2>2, <3>6, <4>2
      <4> QED BY <3>6, <4>1, <4>2
    <3>8. issued' > issued
      BY <2>2, <3>1
    <3> QED BY <1>1, <2>1, <3>3, <3>4, <3>6, <3>7, <3>8, AppendExact
  <2>5. CASE OwnInsert
    <3>1. PICK scoped, priced \in BOOLEAN : Insert(scoped, FALSE, priced)
      BY <2>5 DEF OwnInsert
    <3>2. UNCHANGED <<clock, foreign, prunes>> /\ foreign \in Nat
      BY <2>5 DEF OwnInsert, TablesTyped
    <3>3. foreign' \in Nat /\ foreign <= foreign'
      BY <3>2
    <3> QED BY <2>4, <3>1, <3>2, <3>3
  <2>6. CASE ForeignInsert
    <3>1. PICK scoped, priced \in BOOLEAN, old \in Ages : Insert(scoped, old, priced)
      BY <2>6 DEF ForeignInsert
    <3>2. UNCHANGED <<clock, prunes>> /\ foreign' = foreign + 1 /\ foreign \in Nat /\ old \in BOOLEAN
      BY <2>6, AgesAssumption DEF ForeignInsert, Foreign, TablesTyped
    <3>3. foreign' \in Nat /\ foreign <= foreign'
      BY <3>2
    <3> QED BY <2>4, <3>1, <3>2, <3>3
  <2> QED BY <2>1, <2>3, <2>5, <2>6 DEF Commit
<1> QED BY <1>2, <1>3 DEF ExactInv

\* Two projections that share no row and no charge add up to that of both.
LEMMA ProjectAdds ==
    ASSUME TablesTyped, NEW D1 \in SUBSET (1 .. issued), NEW C1 \in SUBSET (1 .. issued),
           NEW D2 \in SUBSET (1 .. issued), NEW C2 \in SUBSET (1 .. issued),
           D1 \cap D2 = {}, D1 \cap C2 = {}, D2 \cap C1 = {}
    PROVE  Plus(ProjectIn(events, D1, C1), ProjectIn(events, D2, C2)) = ProjectIn(events, D1 \cup D2, C1 \cup C2)
<1> DEFINE w == Values(events)
           A1 == D1 \cap C1
           A2 == D2 \cap C2
           U1 == D1 \ C1
           U2 == D2 \ C2
<1>1. /\ (D1 \cup D2) \cap (C1 \cup C2) = A1 \cup A2 /\ (D1 \cup D2) \ (C1 \cup C2) = U1 \cup U2
      /\ A1 \cap A2 = {} /\ U1 \cap U2 = {} /\ A1 \in SUBSET D1 /\ A2 \in SUBSET D2 /\ U1 \in SUBSET D1 /\ U2 \in SUBSET D2
  OBVIOUS
<1>2. IsFiniteSet(D1) /\ IsFiniteSet(D2) /\ D1 \subseteq Nat /\ D2 \subseteq Nat
  BY NamedFinite, FS_Subset
<1>3. ProjectIn(events, D1, C1) = [amount |-> Sum(w, A1), requests |-> Cardinality(D1), unresolved |-> Cardinality(U1)]
  BY DEF ProjectIn
<1>4. ProjectIn(events, D2, C2) = [amount |-> Sum(w, A2), requests |-> Cardinality(D2), unresolved |-> Cardinality(U2)]
  BY DEF ProjectIn
<1>5. ProjectIn(events, D1 \cup D2, C1 \cup C2)
        = [amount |-> Sum(w, A1 \cup A2), requests |-> Cardinality(D1 \cup D2), unresolved |-> Cardinality(U1 \cup U2)]
  BY <1>1 DEF ProjectIn
<1>6. \A x \in Nat : w[x] \in Nat
  BY ValuesNatural
<1> HIDE DEF w, A1, A2, U1, U2
<1>7. IsFiniteSet(A1) /\ IsFiniteSet(A2) /\ IsFiniteSet(U1) /\ IsFiniteSet(U2)
  BY <1>1, <1>2, SubsetFinite
<1>8. Sum(w, A1 \cup A2) = Sum(w, A1) + Sum(w, A2)
  <2>1. \A x \in A1 \cup A2 : x \in Nat
    BY <1>1, <1>2
  <2>2. \A x \in A1 \cup A2 : w[x] \in Int
    BY <1>6, <2>1
  <2> QED BY <1>1, <1>7, <2>2, SumUnion
<1>9. \A S, T : IsFiniteSet(S) /\ IsFiniteSet(T) /\ S \cap T = {} => Cardinality(S \cup T) = Cardinality(S) + Cardinality(T)
  <2> SUFFICES ASSUME NEW S, NEW T, IsFiniteSet(S), IsFiniteSet(T), S \cap T = {}
               PROVE  Cardinality(S \cup T) = Cardinality(S) + Cardinality(T)
    OBVIOUS
  <2>1. Cardinality(S \cup T) = Cardinality(S) + Cardinality(T) - Cardinality(S \cap T)
    BY FS_Union
  <2>2. Cardinality(S) \in Nat /\ Cardinality(T) \in Nat /\ Cardinality(S \cap T) = 0
    BY FS_CardinalityType, FS_EmptySet
  <2> QED BY <2>1, <2>2
<1>10. Cardinality(D1 \cup D2) = Cardinality(D1) + Cardinality(D2) /\ Cardinality(U1 \cup U2) = Cardinality(U1) + Cardinality(U2)
  BY <1>1, <1>2, <1>7, <1>9
<1> QED BY <1>3, <1>4, <1>5, <1>8, <1>10 DEF Plus

\* The cached projection plus that of what was appended is the whole.
LEMMA ExtendWhole ==
    ASSUME TablesTyped, ReadTyped, CacheExact, ReadExact, pc = "extend"
    PROVE  Plus(cache.projection, Project(read.rows, read.charges)) = Whole
<1> DEFINE a == CachedEvents
           r == CachedRows
           n == Len(events)
           D1 == ScopedIn(table, Below(r))
           D2 == ScopedIn(table, After("requests", r))
           C1 == ChargedIn(events, 1 .. a)
           C2 == ChargedIn(events, a + 1 .. n)
<1>1. pc \in Extending /\ cache # Absent
  BY DEF Extending, ReadTyped
<1>2. a \in Nat /\ r \in Nat /\ n \in Nat
  BY <1>1, EntryTypes, EventsAt DEF CachedRows, Marks
<1>3. /\ a <= n
      /\ \A i \in DOMAIN events, j \in DOMAIN table :
            events[i].kind = "charge" /\ events[i].id = table[j].id => (i <= a <=> j <= r)
      /\ PlainAfter(events, a) /\ cache.projection = ProjectIn(events, D1, C1)
  BY <1>1 DEF CacheExact, ReadExact
<1>4. read.rows = D2 /\ read.charges = C2
  BY DEF ReadExact
<1>5. DOMAIN events = 1 .. n /\ DOMAIN table \subseteq Nat /\ \A i, j \in DOMAIN table : table[i].id = table[j].id => i = j
  BY EventsAt, TableFinite DEF TablesTyped
<1>6. Whole = ProjectIn(events, ScopedIn(table, DOMAIN table), ChargedIn(events, 1 .. n))
  BY DEF Whole
<1> HIDE DEF a, r, n
<1>7. /\ 1 .. a \subseteq DOMAIN events /\ a + 1 .. n \subseteq DOMAIN events
      /\ 1 .. n = (1 .. a) \cup (a + 1 .. n)
      /\ (\A i \in 1 .. a : i <= a) /\ (\A i \in a + 1 .. n : ~ (i <= a))
  BY <1>2, <1>3, <1>5
<1>r. /\ Below(r) \subseteq DOMAIN table /\ After("requests", r) \subseteq DOMAIN table
      /\ DOMAIN table = Below(r) \cup After("requests", r)
      /\ (\A i \in Below(r) : i <= r) /\ (\A i \in After("requests", r) : ~ (i <= r))
  BY <1>2, <1>5 DEF Below, After, RowIds
<1>8. D1 \in SUBSET (1 .. issued) /\ D2 \in SUBSET (1 .. issued) /\ C1 \in SUBSET (1 .. issued) /\ C2 \in SUBSET (1 .. issued)
  BY <1>7, <1>r, NamedFinite
<1>9. D1 \cup D2 = ScopedIn(table, DOMAIN table) /\ C1 \cup C2 = ChargedIn(events, 1 .. n)
  BY <1>7, <1>r DEF ScopedIn, ChargedIn
<1>10. /\ \A id \in D1 : \E j \in DOMAIN table : table[j].id = id /\ j <= r
       /\ \A id \in D2 : \E j \in DOMAIN table : table[j].id = id /\ ~ (j <= r)
  BY <1>r DEF ScopedIn
<1>11. /\ \A id \in C1 : \E i \in DOMAIN events : events[i].kind = "charge" /\ events[i].id = id /\ i <= a
       /\ \A id \in C2 : \E i \in DOMAIN events : events[i].kind = "charge" /\ events[i].id = id /\ ~ (i <= a)
  BY <1>7 DEF ChargedIn
<1> HIDE DEF D1, D2, C1, C2
<1>12. D1 \cap D2 = {} /\ D1 \cap C2 = {} /\ D2 \cap C1 = {}
  <2>1. ASSUME NEW id \in D1 PROVE id \notin D2
    BY <1>5, <1>10, <2>1, Zenon
  <2>2. ASSUME NEW id \in D1 PROVE id \notin C2
    BY <1>3, <1>10, <1>11, <2>2, Zenon
  <2>3. ASSUME NEW id \in D2, id \in C1 PROVE FALSE
    <3>1. PICK j \in DOMAIN table : table[j].id = id /\ ~ (j <= r)
      BY <1>10, <2>3
    <3>2. PICK i \in DOMAIN events : events[i].kind = "charge" /\ events[i].id = id /\ i <= a
      BY <1>11, <2>3
    <3>3. events[i].kind = "charge" /\ events[i].id = table[j].id => (i <= a <=> j <= r)
      BY <1>3
    <3> QED BY <3>1, <3>2, <3>3
  <2> QED BY <2>1, <2>2, <2>3
<1>13. Plus(ProjectIn(events, D1, C1), ProjectIn(events, D2, C2)) = ProjectIn(events, D1 \cup D2, C1 \cup C2)
  BY <1>8, <1>12, ProjectAdds
<1>14. Project(read.rows, read.charges) = ProjectIn(events, D2, C2)
  BY <1>4, <1>8, ProjectionTypes
<1> QED BY <1>3, <1>6, <1>9, <1>13, <1>14

LEMMA MarkExact ==
    ASSUME TablesTyped, ReadTyped, ExactInv, NEW t \in Tables,
           ReadVersion(t) \/ ReadMax(t) \/ Recount(t) \/ CountSince(t)
    PROVE  ExactInv'
<1>1. read \in ReadRecord
  BY DEF ReadTyped
<1>2. UNCHANGED <<dbVars, cache, taint>>
  BY DEF ReadVersion, ReadMax, Recount, FullCount, CountSince, Go
<1>3. pc' # "done" /\ pc' \notin Extending /\ pc' \notin {"full_events", "rebuild"}
  BY DEF ReadVersion, ReadMax, Recount, FullCount, CountSince, Go, MarkSteps, Tables, AfterMark, Extending
<1>4. CacheExact => CacheExact'
  BY <1>2 DEF CacheExact, CachedEvents, CachedRows, Below, PlainAfter, ProjectIn, dbVars
<1>5. ReadExact'
  BY <1>3 DEF ReadExact, Extending
<1>6. (\A s \in Tables : MaxRowId(s)' = MaxRowId(s)) /\ Len(events)' = Len(events)
  BY <1>2 DEF MaxRowId, RowIds, dbVars
<1>r. MaxRowId("requests")' = MaxRowId("requests") /\ MaxRowId("events") = Len(events)
  BY <1>6, LargestRowId DEF Tables
<1> SUFFICES ASSUME MarksExact PROVE MarksExact'
  BY <1>2, <1>4, <1>5 DEF ExactInv
<1>9. CASE ReadVersion(t)
  <2>1. pc = MarkSteps[t].version /\ pc' = MarkSteps[t].max /\ read' = [read EXCEPT !.version = foreign]
    BY <1>9 DEF ReadVersion, Step, Go
  <2>2. read'.mark = read.mark /\ ReadEvents' = ReadEvents
    BY <1>1, <2>1 DEF ReadRecord, ReadEvents
  <2>3. /\ \A s \in Tables : pc' # MarkSteps[s].count
        /\ pc' \in AfterEvents => pc \in AfterEvents
        /\ pc' \notin AfterMarks
    BY <2>1 DEF MarkSteps, Tables, AfterEvents, AfterMarks
  <2> QED BY <1>6, <2>2, <2>3 DEF MarksExact
<1>10. CASE ReadMax(t)
  <2>1. pc = MarkSteps[t].max /\ pc' = MarkSteps[t].count /\ read' = [read EXCEPT !.max = MaxRowId(t)]
    BY <1>10 DEF ReadMax, Step, Go
  <2>2. read'.mark = read.mark /\ ReadEvents' = ReadEvents /\ read'.max = MaxRowId(t)
    BY <1>1, <2>1 DEF ReadRecord, ReadEvents
  <2>3. /\ \A s \in Tables : pc' = MarkSteps[s].count => s = t
        /\ pc' \in AfterEvents => pc \in AfterEvents
        /\ pc' \notin AfterMarks
    BY <2>1 DEF MarkSteps, Tables, AfterEvents, AfterMarks
  <2> QED BY <1>6, <2>2, <2>3 DEF MarksExact
<1>11. ASSUME NEW m, m.rowid = MaxRowId(t), pc = MarkSteps[t].count, pc' = AfterMark(t),
              read' = [read EXCEPT !.mark = [@ EXCEPT ![t] = m]]
       PROVE  MarksExact'
  <2>1. read'.mark = [read.mark EXCEPT ![t] = m] /\ read.mark \in [Tables -> Marks \cup {Absent}]
    BY <1>1, <1>11 DEF ReadRecord
  <2>2. \A s \in Tables : pc' # MarkSteps[s].count
    BY <1>11 DEF AfterMark, MarkSteps, Tables
  <2>4. pc' \in AfterEvents => ReadEvents' = Len(events)
    <3>1. CASE t = "events"
      BY <1>r, <1>11, <2>1, <3>1 DEF Tables, ReadEvents
    <3>2. CASE t = "requests"
      <4>1. ReadEvents = Len(events)
        BY <1>11, <3>2 DEF MarksExact, MarkSteps, AfterEvents
      <4> QED BY <2>1, <3>2, <4>1 DEF Tables, ReadEvents
    <3> QED BY <3>1, <3>2 DEF Tables
  <2>5. pc' \in AfterMarks => read'.mark["requests"].rowid = MaxRowId("requests")
    <3>1. CASE t = "events"
      <4>1. pc' \notin AfterMarks
        BY <1>11, <3>1 DEF AfterMark, AfterMarks, AfterEvents
      <4> QED BY <4>1
    <3>2. CASE t = "requests"
      BY <1>11, <2>1, <3>2 DEF Tables
    <3> QED BY <3>1, <3>2 DEF Tables
  <2> QED BY <1>6, <1>r, <2>2, <2>4, <2>5 DEF MarksExact
<1>12. CASE Recount(t)
  <2> DEFINE m == [rowid |-> MaxRowId(t), count |-> Cardinality(RowIds(t))]
  <2>1. pc = MarkSteps[t].count /\ pc' = AfterMark(t) /\ read' = [read EXCEPT !.mark = [@ EXCEPT ![t] = m]]
    BY <1>12 DEF Recount, FullCount, Go, Step
  <2>2. m.rowid = MaxRowId(t)
    OBVIOUS
  <2> HIDE DEF m
  <2> QED BY <1>11, <2>1, <2>2
<1>13. CASE CountSince(t)
  <2> DEFINE m == [rowid |-> read.max, count |-> base[t].count + Cardinality(After(t, base[t].rowid))]
  <2>1. pc = MarkSteps[t].count /\ pc' = AfterMark(t) /\ read' = [read EXCEPT !.mark = [@ EXCEPT ![t] = m]]
    BY <1>13 DEF CountSince, Go, Step
  <2>2. m.rowid = read.max
    OBVIOUS
  <2>3. read.max = MaxRowId(t)
    BY <2>1 DEF MarksExact
  <2> HIDE DEF m
  <2> QED BY <1>11, <2>1, <2>2, <2>3
<1> QED BY <1>9, <1>10, <1>12, <1>13

\* Where nothing that is named here changes, marks and cache stay exact.
LEMMA StaysExact ==
    ASSUME TablesTyped, ReadTyped, UNCHANGED dbVars
    PROVE  /\ Whole' = Whole
           /\ cache' = cache => (CacheExact => CacheExact') /\ CachedEvents' = CachedEvents /\ CachedRows' = CachedRows
           /\ Kept /\ pc \in AfterMarks /\ pc' \in AfterMarks /\ MarksExact => MarksExact'
<1>1. table' = table /\ issued' = issued /\ events' = events
  BY DEF dbVars
<1>2. Whole' = Whole
  BY <1>1 DEF Whole, ProjectIn
<1>3. cache' = cache => (CacheExact => CacheExact') /\ CachedEvents' = CachedEvents /\ CachedRows' = CachedRows
  BY <1>1 DEF CacheExact, CachedEvents, CachedRows, Below, PlainAfter, ProjectIn
<1>4. ASSUME Kept, pc \in AfterMarks, pc' \in AfterMarks, MarksExact PROVE MarksExact'
  <2>1. pc \in AfterEvents /\ \A t \in Tables : pc' # MarkSteps[t].count
    BY <1>4 DEF AfterMarks, AfterEvents, MarkSteps, Tables
  <2>2. ReadEvents' = ReadEvents /\ read'.mark = read.mark /\ MaxRowId("requests")' = MaxRowId("requests")
    BY <1>1, <1>4 DEF Kept, ReadEvents, MaxRowId, RowIds
  <2> QED BY <1>1, <1>4, <2>1, <2>2 DEF MarksExact
<1> QED BY <1>2, <1>3, <1>4

\* A read that is over returns the whole, and has cached it if it computed it.
LEMMA DoneExact ==
    ASSUME TablesTyped, ReadTyped, ExactInv, UNCHANGED <<dbVars, base>>, Kept, pc \in AfterMarks, pc' = "done",
           taint'.read = {} => taint.read = {}, taint'.cache = {} /\ taint'.read = {} => read'.result = Whole,
           NEW at, NEW p, read'.result = p,
           \/ cache' = cache /\ taint' = taint
           \/ cache' = [mark |-> read.mark, projection |-> p, at |-> at] /\ (taint'.cache = {} => taint'.read = {})
    PROVE  ExactInv'
<1>1. table' = table /\ issued' = issued /\ events' = events /\ Whole' = Whole
  BY StaysExact DEF dbVars
<1>2. pc' \in AfterMarks /\ pc \in AfterEvents
  BY DEF AfterMarks, AfterEvents
<1>3. ASSUME taint'.read = {} PROVE MarksExact' /\ ReadExact'
  <2>1. MarksExact'
    BY <1>2, <1>3, StaysExact DEF ExactInv
  <2>2. ReadExact'
    BY <1>1, <1>3 DEF ReadExact, Extending
  <2> QED BY <2>1, <2>2
<1>4. ASSUME taint'.cache = {} PROVE CacheExact'
  <2>1. CASE cache' = cache /\ taint' = taint
    BY <1>4, <2>1, StaysExact DEF ExactInv
  <2>2. CASE cache' = [mark |-> read.mark, projection |-> p, at |-> at] /\ (taint'.cache = {} => taint'.read = {})
    <3>1. ReadEvents = Len(events) /\ read.mark["requests"].rowid = MaxRowId("requests") /\ p = Whole
      BY <1>2, <1>4, <2>2 DEF ExactInv, MarksExact
    <3>2. CachedEvents' = Len(events) /\ CachedRows' = MaxRowId("requests") /\ cache'.projection = Whole
      BY <2>2, <3>1 DEF CachedEvents, CachedRows, ReadEvents
    <3> DEFINE k == MaxRowId("requests")
    <3>3. k \in Nat /\ (\A j \in DOMAIN table : j \in 1 .. k) /\ (DOMAIN table # {} => k \in DOMAIN table)
      BY LargestRowId
    <3>4. k = 0 \/ \E j \in DOMAIN table : k <= j
      <4>1. DOMAIN table = {} => k = 0
        BY DEF MaxRowId, RowIds
      <4>2. k <= k
        BY <3>3
      <4> HIDE DEF k
      <4>3. CASE DOMAIN table = {}
        BY <4>1, <4>3
      <4>4. CASE DOMAIN table # {}
        <5>1. k \in DOMAIN table
          BY <3>3, <4>4
        <5> QED BY <4>2, <5>1
      <4> QED BY <4>3, <4>4
    <3>5. {i \in DOMAIN table : i <= k} = DOMAIN table
      <4> HIDE DEF k
      <4> QED BY <3>3
    <3>6. \A i \in DOMAIN events, j \in DOMAIN table : i <= Len(events) /\ j <= k
      <4> HIDE DEF k
      <4> QED BY <3>3, EventsAt
    <3>7. Len(events) <= Len(events)
      BY EventsAt
    <3>8. Below(CachedRows)' = DOMAIN table
      BY <1>1, <3>2, <3>5 DEF Below
    <3> HIDE DEF k
    <3> QED BY <1>1, <3>2, <3>4, <3>6, <3>7, <3>8 DEF CacheExact, Whole, k
  <2> QED BY <2>1, <2>2
<1> QED BY <1>3, <1>4 DEF ExactInv

LEMMA ServingExact ==
    ASSUME TablesTyped, ReadTyped, TaintInv, ExactInv, Serving
    PROVE  ExactInv'
<1>0. UNCHANGED <<clock, dbVars, base>> /\ read \in ReadRecord /\ taint \in [read : Taints, cache : Taints]
  BY ServingTyped DEF ReadTyped, TaintInv
<1>1. table' = table /\ events' = events /\ issued' = issued /\ base' = base
  BY <1>0 DEF dbVars
<1>4. cache' = cache => (CacheExact => CacheExact') /\ CachedEvents' = CachedEvents /\ CachedRows' = CachedRows
  BY <1>0, StaysExact
<1>5. Len(events) \in Nat /\ DOMAIN events = 1 .. Len(events)
  BY EventsAt
\* A step that only moves on.
<1>6. ASSUME cache' = cache, taint' = taint, Kept, pc \in AfterMarks, pc' \in AfterMarks,
             taint.read = {} /\ ReadExact => ReadExact'
      PROVE  ExactInv'
  <2>1. MarksExact => MarksExact'
    BY <1>0, <1>6, StaysExact
  <2> QED BY <1>4, <1>6, <2>1 DEF ExactInv
<1>7. ASSUME cache' = cache, taint'.cache = taint.cache, pc' \in {"idle", "events_version"} PROVE ExactInv'
  <2>1. MarksExact' /\ ReadExact'
    BY <1>7 DEF MarksExact, ReadExact, AfterMarks, AfterEvents, Extending, MarkSteps, Tables
  <2> QED BY <1>4, <1>7, <2>1 DEF ExactInv
<1>8. CASE Start
  BY <1>7, <1>8 DEF Start, Go
<1>9. CASE Return
  <2>1. taint'.cache = taint.cache
    BY <1>0, <1>9 DEF Return
  <2> QED BY <1>7, <1>9, <2>1 DEF Return, Go
<1>10. CASE ServeCached
  <2>1. pc = "serve" /\ pc' = "done" /\ read' = [read EXCEPT !.result = cache.projection] /\ cache' = cache /\ cache # Absent
        /\ cache.mark = read.mark /\ taint' = taint
    BY <1>10 DEF ServeCached, Go, Fresh
  <2>2. pc \in AfterMarks /\ pc \in AfterEvents
    BY <2>1 DEF AfterMarks, AfterEvents
  <2>3. Kept /\ read'.result = cache.projection
    BY <1>0, <2>1 DEF ReadRecord, Kept
  <2>4. ASSUME taint.cache = {}, taint.read = {} PROVE cache.projection = Whole
    <3>1. CachedEvents = Len(events) /\ CachedRows = MaxRowId("requests")
      BY <2>1, <2>2, <2>4 DEF CachedEvents, CachedRows, ExactInv, MarksExact, ReadEvents
    <3>2. PlainAfter(events, Len(events))
      <4>1. \A i \in Len(events) + 1 .. Len(events) : FALSE
        BY <1>5
      <4> QED BY <4>1 DEF PlainAfter
    <3>3. Below(CachedRows) = DOMAIN table
      <4>1. MaxRowId("requests") \in Nat /\ \A j \in DOMAIN table : j \in 1 .. MaxRowId("requests")
        BY LargestRowId
      <4>2. \A j \in DOMAIN table : j <= MaxRowId("requests")
        BY <4>1
      <4> QED BY <3>1, <4>2 DEF Below
    <3> QED BY <2>1, <2>4, <3>1, <3>2, <3>3 DEF ExactInv, CacheExact, Whole
  <2> QED BY <1>0, <2>1, <2>2, <2>3, <2>4, DoneExact
<1>11. CASE Expired
  <2>1. pc = "serve" /\ pc' = "full_rows" /\ read' = read /\ cache' = cache /\ taint' = taint
    BY <1>11 DEF Expired, Go
  <2>2. Kept /\ pc \in AfterMarks /\ pc' \in AfterMarks
    BY <2>1 DEF Kept, AfterMarks, AfterEvents
  <2>3. ReadExact'
    BY <2>1 DEF ReadExact, Extending
  <2> QED BY <1>6, <2>1, <2>2, <2>3
<1>12. CASE CheckEvents
  <2>1. pc = "serve" /\ pc' \in {"ids", "full_rows"} /\ read' = read /\ cache' = cache /\ taint' = taint
        /\ cache # Absent /\ (pc' = "ids" => OnlyCharges(After("events", CachedEvents)))
    BY <1>12 DEF CheckEvents, Go, Fresh, CachedEvents
  <2>2. Kept /\ pc \in AfterMarks /\ pc' \in AfterMarks
    BY <2>1 DEF Kept, AfterMarks, AfterEvents
  <2>3. pc' = "ids" => PlainAfter(events, CachedEvents)
    <3>1. CachedEvents \in Nat
      BY <2>1, EntryTypes
    <3>2. \A i \in CachedEvents + 1 .. Len(events) : i \in 1 .. Len(events) /\ i > CachedEvents
      BY <1>5, <3>1
    <3>3. \A i \in CachedEvents + 1 .. Len(events) : i \in After("events", CachedEvents)
      BY <1>5, <3>2 DEF After, RowIds
    <3> QED BY <2>1, <3>3 DEF OnlyCharges, PlainAfter
  <2>4. ReadExact'
    BY <1>1, <1>4, <2>1, <2>3 DEF ReadExact, Extending, PlainAfter
  <2> QED BY <1>6, <2>1, <2>2, <2>4
<1>13. CASE ListIds
  <2>1. pc = "ids" /\ pc' \in {"charges", "full_rows"} /\ cache' = cache /\ taint' = taint
        /\ read' = [read EXCEPT !.ids = {table[i].id : i \in After("requests", cache.mark["requests"].rowid)}]
    BY <1>13 DEF ListIds, Go
  <2>2. Kept /\ pc \in AfterMarks /\ pc' \in AfterMarks
    BY <1>0, <2>1 DEF Kept, AfterMarks, AfterEvents, ReadRecord
  <2>3. ReadExact => ReadExact'
    BY <1>1, <1>4, <2>1 DEF ReadExact, Extending, PlainAfter
  <2> QED BY <1>6, <2>1, <2>2, <2>3
<1>14. CASE ListCharges
  <2> DEFINE new == ChargesOf(After("events", CachedEvents))
  <2>1. /\ pc = "charges" /\ pc' \in {"rows", "full_rows"} /\ cache' = cache /\ taint' = taint
        /\ read' = [read EXCEPT !.charges = new] \/ read' = [read EXCEPT !.ids = {}]
        /\ pc' = "rows" => read' = [read EXCEPT !.charges = new]
    BY <1>14 DEF ListCharges, NewCharges, Go, CachedEvents
  <2>2. Kept /\ pc \in AfterMarks /\ pc' \in AfterMarks
    BY <1>0, <2>1 DEF Kept, AfterMarks, AfterEvents, ReadRecord
  <2>3. pc' = "rows" => read'.charges = new
    BY <1>0, <2>1 DEF ReadRecord
  <2>4. CachedEvents \in Nat
    BY <2>1, EntryTypes DEF ReadTyped, Extending
  <2>5. new = ChargedIn(events, CachedEvents + 1 .. Len(events))
    <3> DEFINE k == CachedEvents
    <3>1. k \in Nat
      BY <2>4
    <3> HIDE DEF k
    <3>2. {i \in 1 .. Len(events) : i > k} = k + 1 .. Len(events)
      BY <1>5, <3>1
    <3>3. After("events", k) = k + 1 .. Len(events)
      BY <1>5, <3>2 DEF After, RowIds
    <3>4. After("events", k) \subseteq DOMAIN events
      BY DEF After, RowIds
    <3> QED BY <3>3, <3>4, NamedTypes DEF k
  <2> HIDE DEF new
  <2>6. ReadExact => ReadExact'
    BY <1>1, <1>4, <2>1, <2>3, <2>5 DEF ReadExact, Extending, PlainAfter
  <2> QED BY <1>6, <2>1, <2>2, <2>6
<1>15. CASE ListRows
  <2> DEFINE new == ScopedRows(After("requests", CachedRows))
  <2>1. pc = "rows" /\ pc' = "extend" /\ read' = [read EXCEPT !.rows = new] /\ cache' = cache /\ taint' = taint
    BY <1>15 DEF ListRows, Go, CachedRows
  <2>2. Kept /\ pc \in AfterMarks /\ pc' \in AfterMarks
    BY <1>0, <2>1 DEF Kept, AfterMarks, AfterEvents, ReadRecord
  <2>3. read'.rows = new /\ read'.charges = read.charges
    BY <1>0, <2>1 DEF ReadRecord
  <2>5. new = ScopedIn(table, After("requests", CachedRows)) /\ After("requests", CachedRows)' = After("requests", CachedRows)
    <3>1. After("requests", CachedRows) \subseteq DOMAIN table
      BY DEF After, RowIds
    <3>2. After("requests", CachedRows)' = After("requests", CachedRows)
      BY <1>1, <1>4, <2>1 DEF After, RowIds
    <3> QED BY <3>1, <3>2, NamedTypes
  <2> HIDE DEF new
  <2>6. ReadExact => ReadExact'
    BY <1>1, <1>4, <2>1, <2>3, <2>5 DEF ReadExact, Extending, PlainAfter
  <2> QED BY <1>6, <2>1, <2>2, <2>6
<1>16. CASE Extend
  <2> DEFINE p == Plus(cache.projection, Project(read.rows, read.charges))
  <2>1. /\ pc = "extend" /\ pc' = "done" /\ read' = [read EXCEPT !.result = p]
        /\ cache' = [mark |-> read.mark, projection |-> p, at |-> cache.at]
        /\ taint' = [taint EXCEPT !.cache = taint.cache \cup taint.read]
    BY <1>16 DEF Extend, Go
  <2>2. taint.cache = {} /\ taint.read = {} => p = Whole
    BY <2>1, ExtendWhole DEF ExactInv
  <2> HIDE DEF p
  <2>3. Kept /\ pc \in AfterMarks /\ read'.result = p
    BY <1>0, <2>1 DEF Kept, AfterMarks, AfterEvents, ReadRecord
  <2>4. taint'.read = taint.read /\ taint'.cache = taint.cache \cup taint.read
    BY <1>0, <2>1
  <2> QED BY <1>0, <2>1, <2>2, <2>3, <2>4, DoneExact
<1>17. CASE FullRows
  <2>1. pc = "full_rows" /\ pc' = "full_events" /\ cache' = cache /\ taint' = taint
        /\ read' = [read EXCEPT !.rows = ScopedRows(DOMAIN table), !.ids = {}, !.charges = {}]
    BY <1>17 DEF FullRows, Go
  <2>2. Kept /\ pc \in AfterMarks /\ pc' \in AfterMarks
    BY <1>0, <2>1 DEF Kept, AfterMarks, AfterEvents, ReadRecord
  <2>3. read'.rows = ScopedIn(table, DOMAIN table)
    BY <1>0, <2>1, NamedTypes DEF ReadRecord
  <2>4. ReadExact'
    BY <1>1, <2>1, <2>3 DEF ReadExact, Extending
  <2> QED BY <1>6, <2>1, <2>2, <2>4
<1>18. CASE FullEvents
  <2>1. pc = "full_events" /\ pc' = "rebuild" /\ cache' = cache /\ taint' = taint
        /\ read' = [read EXCEPT !.charges = ChargesOf(DOMAIN events)]
    BY <1>18 DEF FullEvents, Go
  <2>2. Kept /\ pc \in AfterMarks /\ pc' \in AfterMarks
    BY <1>0, <2>1 DEF Kept, AfterMarks, AfterEvents, ReadRecord
  <2>3. read'.rows = read.rows /\ read'.charges = ChargedIn(events, 1 .. Len(events))
    BY <1>0, <1>5, <2>1, NamedTypes DEF ReadRecord
  <2>4. ReadExact => ReadExact'
    BY <1>1, <2>1, <2>3 DEF ReadExact, Extending
  <2> QED BY <1>6, <2>1, <2>2, <2>4
<1>19. CASE Rebuild
  <2> DEFINE p == Project(read.rows, read.charges)
  <2>1. /\ pc = "rebuild" /\ pc' = "done" /\ read' = [read EXCEPT !.result = p]
        /\ cache' = [mark |-> read.mark, projection |-> p, at |-> clock]
        /\ taint' = [taint EXCEPT !.cache = taint.read]
    BY <1>19 DEF Rebuild, Go
  <2>2. taint.read = {} => p = Whole
    <3>1. ASSUME taint.read = {}
          PROVE  read.rows = ScopedIn(table, DOMAIN table) /\ read.charges = ChargedIn(events, 1 .. Len(events))
      BY <2>1, <3>1 DEF ExactInv, ReadExact
    <3>2. read.rows \in SUBSET (1 .. issued) /\ read.charges \in SUBSET (1 .. issued)
      BY <1>0 DEF ReadRecord
    <3>3. p = ProjectIn(events, read.rows, read.charges)
      BY <3>2, ProjectionTypes
    <3> HIDE DEF p
    <3> QED BY <3>1, <3>3 DEF Whole
  <2> HIDE DEF p
  <2>3. Kept /\ pc \in AfterMarks /\ read'.result = p
    BY <1>0, <2>1 DEF Kept, AfterMarks, AfterEvents, ReadRecord
  <2>4. taint'.read = taint.read /\ taint'.cache = taint.read
    BY <1>0, <2>1
  <2> QED BY <1>0, <2>1, <2>2, <2>3, <2>4, DoneExact
<1> QED BY <1>8, <1>9, <1>10, <1>11, <1>12, <1>13, <1>14, <1>15, <1>16, <1>17, <1>18, <1>19 DEF Serving

ExactnessInv == CoverageInv /\ ExactInv

LEMMA ExactnessStart == ASSUME CacheInit PROVE ExactnessInv
<1>1. cache = Absent /\ pc = "idle"
  BY DEF CacheInit
<1>2. CacheExact /\ MarksExact /\ ReadExact
  BY <1>1 DEF CacheExact, MarksExact, ReadExact, AfterMarks, AfterEvents, Extending, MarkSteps, Tables
<1> QED BY <1>2, CoverageStart DEF ExactnessInv, ExactInv

LEMMA ExactnessNext ==
    ASSUME ExactnessInv, [CacheNext]_cacheVars
    PROVE  ExactnessInv'
<1>0. TablesTyped /\ ReadTyped /\ TaintInv /\ ExactInv /\ CoverageInv'
  BY CoverageNext DEF ExactnessInv, CoverageInv
<1> SUFFICES ExactInv'
  BY <1>0 DEF ExactnessInv
<1>1. CASE CacheNext
  <2>1. CASE Commit
    BY <1>0, <2>1, CommitExact
  <2>2. CASE UNCHANGED <<dbVars, base, cache, pc, read, taint>>
    BY <1>0, <2>2 DEF ExactInv, MarksExact, CacheExact, ReadExact, CachedEvents, CachedRows, ReadEvents,
                      PlainAfter, ProjectIn, Whole, Below, After, RowIds, MaxRowId, dbVars
  <2>3. ClockTick => UNCHANGED <<dbVars, base, cache, pc, read, taint>>
    BY DEF ClockTick
  <2>4. CASE Serving
    BY <1>0, <2>4, ServingExact
  <2>5. ASSUME NEW t \in Tables, ReadVersion(t) \/ ReadMax(t) \/ Recount(t) \/ CountSince(t)
        PROVE  ExactInv'
    BY <1>0, <2>5, MarkExact
  <2> QED BY <1>1, <2>1, <2>2, <2>3, <2>4, <2>5, CacheSteps
<1>2. CASE UNCHANGED cacheVars
  BY <1>0, <1>2 DEF cacheVars, ExactInv, MarksExact, CacheExact, ReadExact, CachedEvents, CachedRows, ReadEvents,
                    PlainAfter, ProjectIn, Whole, Below, After, RowIds, MaxRowId, dbVars
<1> QED BY <1>1, <1>2

LEMMA ExactnessEnough == ASSUME ExactnessInv PROVE UndisturbedIsFull
<1> SUFFICES ASSUME pc = "done", read.start = foreign, taint.cache = {} PROVE read.result = Full
  BY DEF UndisturbedIsFull, Quiet
<1>1. TablesTyped /\ read.result = Whole
  <2>1. taint.read = {}
    <3>1. read.start \in Nat
      BY DEF ExactnessInv, CoverageInv, ReadTyped, ReadRecord
    <3> QED BY <3>1 DEF ExactnessInv, CoverageInv, TaintInv
  <2> QED BY <2>1 DEF ExactnessInv, CoverageInv, ExactInv, ReadExact
<1> DEFINE D == ScopedIn(table, DOMAIN table)
           C == ChargedIn(events, DOMAIN events)
<1>2. Full = Project(D, C) /\ D \in SUBSET (1 .. issued) /\ C \in SUBSET (1 .. issued)
  BY <1>1, NamedTypes DEF Full
<1>3. Project(D, C) = ProjectIn(events, D, C)
  BY <1>1, <1>2, ProjectionTypes
<1>4. DOMAIN events = 1 .. Len(events)
  BY <1>1, EventsAt
<1>5. Whole = ProjectIn(events, D, C)
  BY <1>4 DEF Whole
<1> QED BY <1>1, <1>2, <1>3, <1>5

(* What a quiet read returns is the projection of the whole scope if the  *)
(* cached projection was put together undisturbed: no commit fell inside  *)
(* a read it is from, and none of its rows was removed since.  Whatever   *)
(* else others commit, and however often it was extended, the marks miss  *)
(* nothing and nothing is counted twice; a disturbed entry is exact again *)
(* after the next undisturbed rebuild.                                     *)
THEOREM CacheIsFull == CacheSpec => []UndisturbedIsFull
<1>1. CacheInit => ExactnessInv
  BY ExactnessStart
<1>2. ExactnessInv /\ [CacheNext]_cacheVars => ExactnessInv'
  BY ExactnessNext
<1>3. ExactnessInv => UndisturbedIsFull
  BY ExactnessEnough
<1> QED BY <1>1, <1>2, <1>3, PTL DEF CacheSpec
=============================================================================
