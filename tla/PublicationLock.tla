--------------------------- MODULE PublicationLock ----------------------------
(***************************************************************************)
(* The lock between builds and launchers, bin/publication-lock.mjs: a      *)
(* directory made with mkdir, whose owner record arrives by a rename after *)
(* it exists.  Every file system call goes by path name and is a step, on  *)
(* POSIX semantics; the reads of one inspectLock or one reaping pass are   *)
(* one step.  A process runs one call at a time; a process identifier is   *)
(* not reused.  A token is a call: its process and its number.             *)
(***************************************************************************)
EXTENDS Naturals, FiniteSets

CONSTANTS Procs, None, MaxCalls, MaxCrashes,
          Slow   \* whether a creator may stay OWNERLESS_LOCK_STALE_MS without its record

ASSUME BoundsAssumption == {MaxCalls, MaxCrashes} \subseteq Nat /\ Slow \in BOOLEAN

VARIABLES lock,    \* the directory at the canonical path, or None
          aside,   \* quarantined directories in use, by the process that moved them
          left,    \* quarantined directories that nobody uses
          pc, me,  \* per process: the next call, and [token, mode, snapshot, file]
          dead, calls

vars == <<lock, aside, left, pc, me, dead, calls>>

\* A directory: owner.json, .owner-<token>.tmp files, .owner-quarantine.json, its age.
Empty == [owner |-> None, temps |-> {}, quarantine |-> None, aged |-> FALSE]
NotRunning == [token |-> None, mode |-> None, snapshot |-> None, file |-> None, retried |-> FALSE]
Unchanged(d) == [d EXCEPT !.aged = FALSE]
-----------------------------------------------------------------------------
\* inspectLock: the possible identities of a directory, as [owner, file].
inspectLock(d) ==
    IF d = None THEN {[owner |-> None, file |-> None]}
    ELSE IF d.owner # None THEN {[owner |-> d.owner, file |-> "owner"]}
    ELSE IF d.temps # {} THEN [owner : d.temps, file : {"temp"}]
    ELSE IF d.quarantine # None THEN {[owner |-> d.quarantine, file |-> "quarantine"]}
    ELSE {[owner |-> None, file |-> None]}

ownerCanStillAct_EvenDead(p, token) == token[1] # p

\* An owner of this process is an orphan here: no call is made while the lock is held.
ownerCanStillAct(p, token) == token[1] # p /\ token[1] \notin dead

quarantineIsCollectable(p, d) ==
    \A s \in inspectLock(d) : IF s.owner = None THEN TRUE ELSE ~ ownerCanStillAct(p, s.owner)

Go(p, next) == pc' = [pc EXCEPT ![p] = next]
Finish(p) == Go(p, "off") /\ me' = [me EXCEPT ![p] = NotRunning]

\* An attempt that failed: acquisition polls again, release looks again.
Retry(p) ==
    /\ Go(p, IF me[p].mode = "acquire" THEN "poll" ELSE "look")
    /\ me' = [me EXCEPT ![p].retried = TRUE]

Done(p) == IF me[p].mode = "acquire" THEN Go(p, "mkdir") /\ UNCHANGED me ELSE Finish(p)
-----------------------------------------------------------------------------
(* acquirePublicationLock *)

\* A call begins by reaping quarantined directories whose owner is gone.
Acquire(p) ==
    /\ pc[p] = "off" /\ p \notin dead
    /\ calls < MaxCalls /\ calls' = calls + 1
    /\ left' = {d \in left : ~ quarantineIsCollectable(p, d)}
    /\ aside' = [r \in Procs |-> IF aside[r] # None /\ quarantineIsCollectable(p, aside[r])
                                 THEN None ELSE aside[r]]
    /\ me' = [me EXCEPT ![p] = [NotRunning EXCEPT !.token = <<p, calls'>>, !.mode = "acquire"]]
    /\ Go(p, "mkdir")
    /\ UNCHANGED <<lock, dead>>

MkDir(p) ==
    /\ pc[p] = "mkdir"
    /\ IF lock = None THEN lock' = Empty /\ Go(p, "write")
                      ELSE UNCHANGED lock /\ Go(p, "inspect")
    /\ UNCHANGED <<aside, left, me, dead, calls>>

\* The record goes into whatever directory is at the path by now.
WriteOwner(p) ==
    /\ pc[p] = "write"
    /\ IF lock = None
       THEN UNCHANGED lock /\ Go(p, "cleanup")
       ELSE lock' = [Unchanged(lock) EXCEPT !.temps = @ \cup {me[p].token}] /\ Go(p, "publish")
    /\ UNCHANGED <<aside, left, me, dead, calls>>

Publish(p) ==
    /\ pc[p] = "publish"
    /\ IF lock # None /\ me[p].token \in lock.temps
       THEN /\ lock' = [Unchanged(lock) EXCEPT !.temps = @ \ {me[p].token}, !.owner = me[p].token]
            /\ Go(p, "held")
       ELSE UNCHANGED lock /\ Go(p, "cleanup")
    /\ UNCHANGED <<aside, left, me, dead, calls>>

\* A directory this call made but could not publish is taken back only by its token.
Cleanup(p) ==
    /\ pc[p] = "cleanup"
    /\ \/ /\ \E s \in inspectLock(lock) :
                /\ s.owner = me[p].token
                /\ me' = [me EXCEPT ![p].snapshot = s.owner, ![p].file = s.file]
          /\ Go(p, "exists")
       \/ /\ \E s \in inspectLock(lock) : s.owner # me[p].token
          /\ Retry(p)
    /\ UNCHANGED <<lock, aside, left, dead, calls>>

\* Somebody made it first: recover it if its owner is gone, else wait.
Inspect(p) ==
    /\ pc[p] = "inspect"
    /\ \/ /\ lock = None                              \* gone since: taken for stale
          /\ Go(p, "move_unknown") /\ UNCHANGED me
       \/ /\ lock # None
          /\ \E s \in inspectLock(lock) :
                \/ /\ s.owner # None /\ ~ ownerCanStillAct(p, s.owner)
                   /\ me' = [me EXCEPT ![p].snapshot = s.owner, ![p].file = s.file]
                   /\ Go(p, "exists")
                \/ /\ s.owner = None /\ lock.aged
                   /\ Go(p, "move_unknown") /\ UNCHANGED me
                \/ /\ IF s.owner = None THEN ~ lock.aged ELSE ownerCanStillAct(p, s.owner)
                   /\ Go(p, "poll") /\ UNCHANGED me
    /\ UNCHANGED <<lock, aside, left, dead, calls>>

Poll(p) == pc[p] = "poll" /\ Go(p, "mkdir") /\ UNCHANGED <<lock, aside, left, me, dead, calls>>

\* LOCK_WAIT_MS, or PATH_CONTENTION_MS of failed publications, have passed.
TimeOut(p) == pc[p] = "poll" /\ Finish(p) /\ UNCHANGED <<lock, aside, left, dead, calls>>
-----------------------------------------------------------------------------
(* quarantineKnownLock and releaseOwnedGeneration *)

\* Recovery leaves a record that another process has claimed.
Exists(p) ==
    /\ pc[p] = "exists"
    /\ IF me[p].file = "quarantine" THEN Go(p, "verify") /\ UNCHANGED me
       ELSE IF lock # None /\ lock.quarantine # None THEN Retry(p)
       ELSE Go(p, "claim") /\ UNCHANGED me
    /\ UNCHANGED <<lock, aside, left, dead, calls>>

\* The record is renamed to the one fixed quarantine name.
Claim(p) ==
    /\ pc[p] = "claim"
    /\ LET t == me[p].snapshot
       IN  IF lock # None /\ me[p].file = "owner" /\ lock.owner # None
           THEN /\ lock' = [Unchanged(lock) EXCEPT !.quarantine = lock.owner, !.owner = None]
                /\ Go(p, "verify") /\ UNCHANGED me
           ELSE IF lock # None /\ me[p].file = "temp" /\ t \in lock.temps
           THEN /\ lock' = [Unchanged(lock) EXCEPT !.quarantine = t, !.temps = @ \ {t}]
                /\ Go(p, "verify") /\ UNCHANGED me
           ELSE Retry(p) /\ UNCHANGED lock
    /\ UNCHANGED <<aside, left, dead, calls>>

\* The record moved must be the one inspected; else it is put back.
Verify(p) ==
    /\ pc[p] = "verify"
    /\ IF lock # None /\ lock.quarantine = me[p].snapshot
       THEN Go(p, "move") /\ UNCHANGED <<lock, me>>
       ELSE /\ lock' = IF lock = None \/ me[p].file = "quarantine" \/ lock.quarantine = None THEN lock
                       ELSE IF me[p].file = "owner"
                       THEN [Unchanged(lock) EXCEPT !.owner = lock.quarantine, !.quarantine = None]
                       ELSE [Unchanged(lock) EXCEPT !.temps = @ \cup {lock.quarantine}, !.quarantine = None]
            /\ Retry(p)
    /\ UNCHANGED <<aside, left, dead, calls>>

\* The whole directory, whichever it is by now, goes to a name of its own.
Move(p) ==
    /\ pc[p] \in {"move", "move_unknown"}
    /\ IF lock = None
       THEN Retry(p) /\ UNCHANGED <<lock, aside>>
       ELSE /\ aside' = [aside EXCEPT ![p] = lock]
            /\ lock' = None
            /\ Go(p, IF pc[p] = "move" THEN "recheck" ELSE "recheck_unknown")
            /\ UNCHANGED me
    /\ UNCHANGED <<left, dead, calls>>

\* The moved directory is another generation than the one that was judged.
Theirs(p) ==
    IF pc[p] = "recheck"
    THEN IF aside[p] = None THEN TRUE ELSE aside[p].quarantine # me[p].snapshot
    ELSE IF aside[p] = None THEN FALSE ELSE {aside[p].owner, aside[p].quarantine} # {None}

\* restoreQuarantinedLock: the path must be free, or hold an empty directory.
Restore(p) ==
    /\ pc[p] \in {"recheck", "recheck_unknown"}
    /\ Theirs(p)
    /\ IF aside[p] # None /\ (lock = None \/ [lock EXCEPT !.aged = FALSE] = Empty)
       THEN lock' = aside[p] /\ UNCHANGED left
       ELSE UNCHANGED lock /\ left' = left \cup ({aside[p]} \ {None})
    /\ aside' = [aside EXCEPT ![p] = None]
    /\ Retry(p)
    /\ UNCHANGED <<dead, calls>>

Remove(p) ==
    /\ pc[p] \in {"recheck", "recheck_unknown"}
    /\ ~ Theirs(p)
    /\ aside' = [aside EXCEPT ![p] = None]
    /\ Done(p)
    /\ UNCHANGED <<lock, left, dead, calls>>

(* releasePublicationLock *)

Release(p) ==
    /\ pc[p] = "held"
    /\ me' = [me EXCEPT ![p].mode = "release", ![p].retried = FALSE]
    /\ Go(p, "look")
    /\ UNCHANGED <<lock, aside, left, dead, calls>>

\* As long as the lock carries this call's token it is handed back.
Look(p) ==
    /\ pc[p] = "look"
    /\ \/ \E s \in inspectLock(lock) :
             /\ s.owner = me[p].token
             /\ me' = [me EXCEPT ![p].snapshot = s.owner, ![p].file = s.file]
             /\ Go(p, IF s.file = "quarantine" THEN "verify" ELSE "claim")
       \/ /\ \E s \in inspectLock(lock) : s.owner # me[p].token
          /\ Finish(p)
    /\ UNCHANGED <<lock, aside, left, dead, calls>>

\* abandonOwnedGeneration, after RELEASE_BUDGET_MS of failed attempts on a lock that
\* names this process.
Abandon(p) ==
    /\ pc[p] \in {"poll", "look"} /\ me[p].retried
    /\ \E s \in inspectLock(lock) :
          s.owner # None /\ IF pc[p] = "poll" THEN s.owner[1] = p ELSE s.owner = me[p].token
    /\ lock' = None
    /\ Done(p)
    /\ UNCHANGED <<aside, left, dead, calls>>
-----------------------------------------------------------------------------
\* A process dies anywhere; what it moved aside stays there.
Crash(p) ==
    /\ pc[p] # "off"
    /\ Cardinality(dead) < MaxCrashes
    /\ dead' = dead \cup {p}
    /\ left' = left \cup ({aside[p]} \ {None})
    /\ aside' = [aside EXCEPT ![p] = None]
    /\ Finish(p)
    /\ UNCHANGED <<lock, calls>>

\* OWNERLESS_LOCK_STALE_MS pass over a directory without any record.
Age ==
    /\ lock = Empty
    /\ Slow \/ \A p \in Procs : pc[p] # "write"
    /\ lock' = [lock EXCEPT !.aged = TRUE]
    /\ UNCHANGED <<aside, left, pc, me, dead, calls>>

Init ==
    /\ lock = None /\ aside = [p \in Procs |-> None] /\ left = {}
    /\ pc = [p \in Procs |-> "off"] /\ me = [p \in Procs |-> NotRunning]
    /\ dead = {} /\ calls = 0

Step(p) ==
    \/ MkDir(p) \/ WriteOwner(p) \/ Publish(p) \/ Cleanup(p) \/ Inspect(p) \/ Poll(p)
    \/ Exists(p) \/ Claim(p) \/ Verify(p) \/ Move(p) \/ Restore(p) \/ Remove(p)
    \/ Release(p) \/ Look(p) \/ Abandon(p)

Next == (\E p \in Procs : Acquire(p) \/ Step(p) \/ TimeOut(p) \/ Crash(p)) \/ Age

Spec == Init /\ [][Next]_vars

\* Time passes, calls proceed and holders release; no call has to be made, to give up or to die.
FairSpec == Spec /\ WF_vars(Age) /\ \A p \in Procs : WF_vars(Step(p))
-----------------------------------------------------------------------------
Tokens == Procs \X (1 .. MaxCalls)
Dirs == [owner : Tokens \cup {None}, temps : SUBSET Tokens, quarantine : Tokens \cup {None}, aged : BOOLEAN]

\* Types; a process has something in memory exactly while it runs a call.
TypeOK ==
    /\ lock \in Dirs \cup {None} /\ left \subseteq Dirs
    /\ \A p \in Procs : aside[p] \in Dirs \cup {None}
    /\ dead \subseteq Procs /\ calls \in 0 .. MaxCalls
    /\ \A p \in Procs : pc[p] = "off" <=> me[p] = NotRunning

Holders == {p \in Procs : pc[p] = "held"}

\* "the exclusive build/reader gate": one process publishes or reads at a time.
MutualExclusion == Cardinality(Holders) <= 1

\* Whatever a dead process left behind, one that is alone and asks for the lock gets
\* it, or gives up without being forced to.
SurvivorAcquires ==
    \A p \in Procs :
        (dead = Procs \ {p} /\ me[p].mode = "acquire") ~> (pc[p] \in {"held", "off"})

\* "a process that HAS proved ownership must not return while leaving that lock
\* permanently held": the lock never names a live process that is not at it.
NotLeftHeld ==
    \A s \in inspectLock(lock) :
        s.owner # None => s.owner[1] \in dead \/ pc[s.owner[1]] # "off"
=============================================================================
