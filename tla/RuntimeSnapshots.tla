--------------------------- MODULE RuntimeSnapshots ---------------------------
(***************************************************************************)
(* Builds and launches (scripts/build.mjs, bin/segreant.mjs and            *)
(* bin/runtime-snapshot.mjs): builders publish dist/ file by file,         *)
(* launchers copy it to a snapshot that every launch of the same build     *)
(* shares, run from the copy, and remove the copies nobody uses.           *)
(*                                                                         *)
(* The publication lock is its promise here (its protocol is the module    *)
(* PublicationLock): one holder, and what a dead process held is free.  A  *)
(* snapshot is keyed by its content, so a key is that content.  Ages are   *)
(* free: an unleased snapshot may be idle for long enough at any moment.   *)
(***************************************************************************)
EXTENDS Naturals, FiniteSets

CONSTANTS Roots,               \* package roots: a checkout, a copy of it
          Builders, Launchers, \* processes: a build runs once, so does a command
          RootOf,              \* the package root of each process
          Files, Entry,        \* what dist/ holds; cli.js among it
          MaxGen,              \* bound on the source generations of a root
          Before,              \* the generation each root has been built from before
          MaxMishaps,          \* bound on errors, deaths and removals that stop
          None

Procs == Builders \cup Launchers

ASSUME ProcAssumption == Builders \cap Launchers = {} /\ RootOf \in [Procs -> Roots] /\ None \notin Procs
ASSUME FileAssumption == Entry \in Files /\ MaxGen \in Nat /\ MaxMishaps \in Nat

Gens == 0 .. MaxGen
ASSUME BeforeAssumption == Before \in [Roots -> Gens]

Keys == [Files -> Gens]
Trees == [files : [Files -> Gens \cup {None}], marker : BOOLEAN, owner : BOOLEAN, leases : SUBSET Launchers]
Paths == {<<"tmp", l>> : l \in Launchers} \cup {<<"build", k>> : k \in Keys}

ASSUME NoneAssumption == None \notin Gens /\ None \notin Keys /\ None \notin Trees /\ None \notin Paths

VARIABLES source,   \* the source generation of each root
          dist,     \* the generation each published file comes from
          gate,     \* holder of each root's publication lock
          lock,     \* holder of the machine-wide snapshot lock
          dir,      \* the temp directory: staging and shared snapshots
          pc,
          build,    \* per builder: [gen, left, retried]
          launch,   \* per launcher: [key, todo, victim, failed]
          mishaps,
          half,     \* history: roots whose last publication stopped in the middle
          cut,      \* history: trees of which an unfinished removal has left a part
          found     \* history, per launcher: [mixed, complete, cut, files], what it hashed and leased

ghosts == <<half, cut, found>>
vars == <<source, dist, gate, lock, dir, pc, build, launch, mishaps, ghosts>>

NewTree == [files |-> [f \in Files |-> None], marker |-> FALSE, owner |-> FALSE, leases |-> {}]

Go(p, next) == pc' = [pc EXCEPT ![p] = next]
processIsAlive(p) == pc[p] # "gone"
Free(holder) == holder # None => ~ processIsAlive(holder)
Mishap == mishaps < MaxMishaps /\ mishaps' = mishaps + 1
-----------------------------------------------------------------------------
(* A full build: build.mjs *)

SourceChanges(r) ==
    /\ source[r] < MaxGen
    /\ source' = [source EXCEPT ![r] = @ + 1]
    /\ UNCHANGED <<dist, gate, lock, dir, pc, build, launch, mishaps, ghosts>>

\* The fingerprint is taken before either compiler pass.
Capture(b) ==
    /\ pc[b] \in {"off", "again"}
    /\ build' = [build EXCEPT ![b].gen = source[RootOf[b]]]
    /\ Go(b, "compile")
    /\ UNCHANGED <<source, dist, gate, lock, dir, launch, mishaps, ghosts>>

\* SourceChangedFailure: one retry, from a new capture.
Refuse(b) ==
    /\ Go(b, IF build[b].retried THEN "gone" ELSE "again")
    /\ build' = [build EXCEPT ![b].retried = TRUE]

Compile(b) ==
    /\ pc[b] = "compile"
    /\ IF source[RootOf[b]] = build[b].gen
       THEN Go(b, "gate") /\ UNCHANGED build
       ELSE Refuse(b)
    /\ UNCHANGED <<source, dist, gate, lock, dir, launch, mishaps, ghosts>>

EnterGate(p) ==
    /\ Free(gate[RootOf[p]])
    /\ gate' = [gate EXCEPT ![RootOf[p]] = p]

\* Only the holder's own record is removed.
LeaveGate(p) == gate' = [gate EXCEPT ![RootOf[p]] = IF @ = p THEN None ELSE @]

BuilderGate(b) ==
    /\ pc[b] = "gate"
    /\ EnterGate(b)
    /\ Go(b, "check")
    /\ UNCHANGED <<source, dist, lock, dir, build, launch, mishaps, ghosts>>

CheckGeneration_Skipped(b) ==
    /\ pc[b] = "check"
    /\ Go(b, "publish")
    /\ build' = [build EXCEPT ![b].left = Files]
    /\ UNCHANGED <<source, dist, gate, lock, dir, launch, mishaps, ghosts>>

\* assertSourceGeneration inside the gate, the last look at the sources.
CheckGeneration(b) ==
    /\ pc[b] = "check"
    /\ IF source[RootOf[b]] = build[b].gen
       THEN /\ Go(b, "publish")
            /\ build' = [build EXCEPT ![b].left = Files]
            /\ UNCHANGED gate
       ELSE Refuse(b) /\ LeaveGate(b)
    /\ UNCHANGED <<source, dist, lock, dir, launch, mishaps, ghosts>>

\* replaceFileAtomically, cli.js last.
PublishFile(b) ==
    /\ pc[b] = "publish"
    /\ \E f \in build[b].left :
          /\ f = Entry => build[b].left = {Entry}
          /\ dist' = [dist EXCEPT ![RootOf[b]][f] = build[b].gen]
          /\ build' = [build EXCEPT ![b].left = @ \ {f}]
    /\ half' = IF build'[b].left = {} THEN half \ {RootOf[b]} ELSE half
    /\ UNCHANGED <<source, gate, lock, dir, pc, launch, mishaps, cut, found>>

Published(b) ==
    /\ pc[b] = "publish" /\ build[b].left = {}
    /\ LeaveGate(b)
    /\ Go(b, "gone")
    /\ UNCHANGED <<source, dist, lock, dir, build, launch, mishaps, ghosts>>

\* A lock that is not had in time, an error or a kill ends the build; in the
\* middle of the publication it leaves files of two generations.
BuilderEnds(b) ==
    /\ pc[b] \in {"compile", "gate", "check", "publish"}
    /\ Go(b, "gone")
    /\ half' = IF pc[b] = "publish" /\ build[b].left \notin {{}, Files} THEN half \cup {RootOf[b]} ELSE half
    /\ Mishap
    /\ UNCHANGED <<source, dist, gate, lock, dir, build, launch, cut, found>>
-----------------------------------------------------------------------------
(* A launch: segreant.mjs with createRuntimeSnapshot *)

Tmp(l) == <<"tmp", l>>
Shared(l) == <<"build", launch[l].key>>
Existing == {d \in Paths : dir[d] # None}
Idle(l) == launch[l].victim = None

\* segreant.mjs reaps before it takes any lock, without a key: staging only.
Start(l) ==
    /\ pc[l] = "off"
    /\ launch' = [launch EXCEPT ![l].todo = Existing]
    /\ Go(l, "sweep")
    /\ UNCHANGED <<source, dist, gate, lock, dir, build, mishaps, ghosts>>

\* Staging goes when its owner record names a dead process or, without a record,
\* when it is old, be its creator dead or only held up.
Orphaned(d) == ~ processIsAlive(d[2])

LiveLeases_AllStale(d) == {}

LiveLeases(d) == {m \in dir[d].leases : processIsAlive(m)}

\* One entry of reapOrphanRuntimeSnapshots; leases of the dead are dropped.
Examine(l) ==
    /\ pc[l] \in {"sweep", "reap"} /\ Idle(l)
    /\ \E d \in launch[l].todo :
         LET reapsShared == d[1] = "build" /\ pc[l] = "reap" /\ d # Shared(l) /\ dir[d] # None
         IN  /\ dir' = IF reapsShared THEN [dir EXCEPT ![d].leases = LiveLeases(d)] ELSE dir
             /\ \E victim \in {None, d} :
                  /\ launch' = [launch EXCEPT ![l].todo = @ \ {d}, ![l].victim = victim]
                  /\ IF d[1] = "tmp" /\ dir[d] # None
                     THEN dir[d].owner => (victim = d <=> Orphaned(d))
                     ELSE victim = d => reapsShared /\ LiveLeases(d) = {}
    /\ UNCHANGED <<source, dist, gate, lock, pc, build, mishaps, ghosts>>

\* removeTree goes entry by entry, in any order, and takes the directory last.
Emptied(d) == dir[d] # None => ~ dir[d].marker /\ \A f \in Files : dir[d].files[f] = None

RemovePart(l) ==
    LET d == launch[l].victim
    IN  /\ processIsAlive(l) /\ d # None
        /\ IF Emptied(d)
           THEN /\ dir' = [dir EXCEPT ![d] = None]
                /\ launch' = [launch EXCEPT ![l].victim = None]
                /\ cut' = cut \ {d}
           ELSE /\ \/ /\ dir[d].marker
                      /\ dir' = [dir EXCEPT ![d].marker = FALSE]
                   \/ \E f \in Files : /\ dir[d].files[f] # None
                                        /\ dir' = [dir EXCEPT ![d].files[f] = None]
                /\ UNCHANGED <<launch, cut>>
        /\ UNCHANGED <<source, dist, gate, lock, pc, build, mishaps, half, found>>

\* The trees that removals by l, which stop here, leave unfinished.
Unfinished(l) == {d \in Paths : d = launch[l].victim /\ dir[d] # None}

\* removeTree swallows the error of an rmSync and leaves what is left.
RemovalFails(l) ==
    /\ processIsAlive(l) /\ ~ Idle(l)
    /\ cut' = cut \cup Unfinished(l)
    /\ launch' = [launch EXCEPT ![l].victim = None]
    /\ Mishap
    /\ UNCHANGED <<source, dist, gate, lock, dir, pc, build, half, found>>

Swept(l) ==
    /\ pc[l] \in {"sweep", "reap"} /\ Idle(l) /\ launch[l].todo = {}
    /\ Go(l, IF pc[l] = "sweep" THEN "gate" ELSE "unlock")
    /\ UNCHANGED <<source, dist, gate, lock, dir, build, launch, mishaps, ghosts>>

LauncherGate_LooksOnly(l) ==
    /\ pc[l] = "gate"
    /\ Free(gate[RootOf[l]])
    /\ Go(l, "hash")
    /\ UNCHANGED <<source, dist, gate, lock, dir, build, launch, mishaps, ghosts>>

LauncherGate(l) ==
    /\ pc[l] = "gate"
    /\ EnterGate(l)
    /\ Go(l, "hash")
    /\ UNCHANGED <<source, dist, lock, dir, build, launch, mishaps, ghosts>>

\* runtimeKey
HashRuntime(l) ==
    /\ pc[l] = "hash"
    /\ launch' = [launch EXCEPT ![l].key = dist[RootOf[l]]]
    /\ found' = [found EXCEPT ![l].mixed = RootOf[l] \in half]
    /\ Go(l, "lock")
    /\ UNCHANGED <<source, dist, gate, lock, dir, build, mishaps, half, cut>>

AcquireLock(l) ==
    /\ pc[l] = "lock"
    /\ Free(lock) /\ lock' = l
    /\ Go(l, "look")
    /\ UNCHANGED <<source, dist, gate, dir, build, launch, mishaps, ghosts>>

\* A complete copy is leased as it is, the residue of another one removed first.
Look(l) ==
    /\ pc[l] = "look"
    /\ LET d == Shared(l)
       IN  \/ /\ dir[d] # None /\ dir[d].marker
              /\ Go(l, "lease") /\ UNCHANGED launch
           \/ /\ dir[d] # None /\ ~ dir[d].marker
              /\ Go(l, "clear") /\ launch' = [launch EXCEPT ![l].victim = d]
           \/ /\ dir[d] = None
              /\ Go(l, "stage") /\ UNCHANGED launch
    /\ UNCHANGED <<source, dist, gate, lock, dir, build, mishaps, ghosts>>

Cleared(l) ==
    /\ pc[l] \in {"clear", "unstage"} /\ Idle(l)
    /\ Go(l, IF pc[l] = "clear" THEN "stage" ELSE "unlock")
    /\ UNCHANGED <<source, dist, gate, lock, dir, build, launch, mishaps, ghosts>>

\* mkdtemp
MakeStaging(l) ==
    /\ pc[l] = "stage"
    /\ dir' = [dir EXCEPT ![Tmp(l)] = NewTree]
    /\ Go(l, "own")
    /\ UNCHANGED <<source, dist, gate, lock, build, launch, mishaps, ghosts>>

Staged(l) == dir[Tmp(l)] # None

WriteOwner(l) ==
    /\ pc[l] = "own" /\ Staged(l)
    /\ dir' = [dir EXCEPT ![Tmp(l)].owner = TRUE]
    /\ Go(l, "copy")
    /\ UNCHANGED <<source, dist, gate, lock, build, launch, mishaps, ghosts>>

\* copyRuntime, file by file.
CopyFile(l) ==
    /\ pc[l] = "copy" /\ Staged(l)
    /\ \E f \in Files :
          /\ dir[Tmp(l)].files[f] = None
          /\ dir' = [dir EXCEPT ![Tmp(l)].files[f] = dist[RootOf[l]][f]]
    /\ UNCHANGED <<source, dist, gate, lock, pc, build, launch, mishaps, ghosts>>

WriteMarker(l) ==
    /\ pc[l] = "copy" /\ Staged(l)
    /\ \A f \in Files : dir[Tmp(l)].files[f] # None
    /\ dir' = [dir EXCEPT ![Tmp(l)].marker = TRUE]
    /\ Go(l, "disown")
    /\ UNCHANGED <<source, dist, gate, lock, build, launch, mishaps, ghosts>>

RemoveOwner(l) ==
    /\ pc[l] = "disown"
    /\ dir' = IF Staged(l) THEN [dir EXCEPT ![Tmp(l)].owner = FALSE] ELSE dir
    /\ Go(l, "rename")
    /\ UNCHANGED <<source, dist, gate, lock, build, launch, mishaps, ghosts>>

\* A rename onto what is there fails, and so does one of a path that is gone.
Rename(l) ==
    /\ pc[l] = "rename" /\ Staged(l) /\ dir[Shared(l)] = None
    /\ dir' = [dir EXCEPT ![Shared(l)] = dir[Tmp(l)], ![Tmp(l)] = None]
    /\ cut' = IF Tmp(l) \in cut \/ \E m \in Launchers : launch[m].victim = Tmp(l)
              THEN (cut \ {Tmp(l)}) \cup {Shared(l)} ELSE cut
    /\ Go(l, "lease")
    /\ UNCHANGED <<source, dist, gate, lock, build, launch, mishaps, half, found>>

\* The lease, and the touch of the marker; then the other snapshots are looked at.
WriteLease(l) ==
    /\ pc[l] = "lease"
    /\ LET tree == IF dir[Shared(l)] = None THEN NewTree ELSE dir[Shared(l)]
       IN  /\ dir' = [dir EXCEPT ![Shared(l)] = [tree EXCEPT !.leases = @ \cup {l}]]
           /\ found' = [found EXCEPT ![l].complete = tree.marker, ![l].cut = Shared(l) \in cut,
                                     ![l].files = tree.files]
    /\ launch' = [launch EXCEPT ![l].todo = Existing]
    /\ Go(l, "reap")
    /\ UNCHANGED <<source, dist, gate, lock, build, mishaps, half, cut>>

\* What is written to is gone, or the rename finds a directory that is not empty.
Blocked(l) == ~ Staged(l) \/ (pc[l] = "rename" /\ dir[Shared(l)] # None)

\* The catch block of the copy: a failing write, copy or rename.
Throw(l) ==
    /\ pc[l] \in {"own", "copy", "disown", "rename"}
    /\ launch' = [launch EXCEPT ![l].victim = Tmp(l), ![l].failed = TRUE]
    /\ Go(l, "unstage")
    /\ IF Blocked(l) THEN UNCHANGED mishaps ELSE Mishap
    /\ UNCHANGED <<source, dist, gate, lock, dir, build, ghosts>>

\* Outside that block an error only takes the locks back.
ThrowOutside(l) ==
    /\ pc[l] \in {"hash", "stage", "lease"}
    /\ launch' = [launch EXCEPT ![l].failed = TRUE]
    /\ Go(l, IF pc[l] = "hash" THEN "ungate" ELSE "unlock")
    /\ Mishap
    /\ UNCHANGED <<source, dist, gate, lock, dir, build, ghosts>>

\* A lock that is not had in time is fatal; the gate is left on the way out.
GiveUp(l) ==
    /\ pc[l] \in {"gate", "lock"}
    /\ launch' = [launch EXCEPT ![l].failed = TRUE]
    /\ Go(l, IF pc[l] = "gate" THEN "gone" ELSE "ungate")
    /\ Mishap
    /\ UNCHANGED <<source, dist, gate, lock, dir, build, ghosts>>

ReleaseLock(l) ==
    /\ pc[l] = "unlock"
    /\ lock' = IF lock = l THEN None ELSE lock
    /\ Go(l, "ungate")
    /\ UNCHANGED <<source, dist, gate, dir, build, launch, mishaps, ghosts>>

\* Then the runtime is imported from the snapshot, and may read it until it exits.
LauncherLeaves(l) ==
    /\ pc[l] = "ungate"
    /\ LeaveGate(l)
    /\ Go(l, IF launch[l].failed THEN "gone" ELSE "run")
    /\ UNCHANGED <<source, dist, lock, dir, build, launch, mishaps, ghosts>>

\* process.on('exit', dispose)
Exit(l) ==
    /\ pc[l] = "run"
    /\ dir' = IF dir[Shared(l)] = None THEN dir ELSE [dir EXCEPT ![Shared(l)].leases = @ \ {l}]
    /\ Go(l, "gone")
    /\ UNCHANGED <<source, dist, gate, lock, build, launch, mishaps, ghosts>>

\* Killed, its locks, its staging, its lease and what it was removing stay.
Crash(l) ==
    /\ pc[l] \notin {"off", "gone"}
    /\ cut' = cut \cup Unfinished(l)
    /\ launch' = [launch EXCEPT ![l].victim = None]
    /\ Go(l, "gone")
    /\ Mishap
    /\ UNCHANGED <<source, dist, gate, lock, dir, build, half, found>>
-----------------------------------------------------------------------------
\* Earlier launches may have left the complete snapshot of what a root was built from.
Init ==
    /\ source = Before
    /\ dist = [r \in Roots |-> [f \in Files |-> Before[r]]]
    /\ gate = [r \in Roots |-> None] /\ lock = None
    /\ \E kept \in SUBSET {[f \in Files |-> Before[r]] : r \in Roots} :
          dir = [d \in Paths |-> IF d[1] = "build" /\ d[2] \in kept
                                 THEN [NewTree EXCEPT !.files = d[2], !.marker = TRUE] ELSE None]
    /\ pc = [p \in Procs |-> "off"]
    /\ build = [b \in Builders |-> [gen |-> 0, left |-> {}, retried |-> FALSE]]
    /\ launch = [l \in Launchers |-> [key |-> None, todo |-> {}, victim |-> None, failed |-> FALSE]]
    /\ mishaps = 0 /\ half = {} /\ cut = {}
    /\ found = [l \in Launchers |-> [mixed |-> FALSE, complete |-> FALSE, cut |-> FALSE,
                                     files |-> NewTree.files]]

BuilderNext(b) ==
    \/ Capture(b) \/ Compile(b) \/ BuilderGate(b) \/ CheckGeneration(b)
    \/ PublishFile(b) \/ Published(b) \/ BuilderEnds(b)

LauncherNext(l) ==
    \/ Start(l) \/ Examine(l) \/ RemovePart(l) \/ RemovalFails(l) \/ Swept(l) \/ LauncherGate(l)
    \/ HashRuntime(l) \/ AcquireLock(l) \/ Look(l) \/ Cleared(l)
    \/ MakeStaging(l) \/ WriteOwner(l) \/ CopyFile(l) \/ WriteMarker(l) \/ RemoveOwner(l)
    \/ Rename(l) \/ WriteLease(l) \/ Throw(l) \/ ThrowOutside(l) \/ GiveUp(l)
    \/ ReleaseLock(l) \/ LauncherLeaves(l) \/ Exit(l) \/ Crash(l)

Next ==
    \/ \E r \in Roots : SourceChanges(r)
    \/ \E b \in Builders : BuilderNext(b)
    \/ \E l \in Launchers : LauncherNext(l)

Spec == Init /\ [][Next]_vars
-----------------------------------------------------------------------------
Builds == [gen : Gens, left : SUBSET Files, retried : BOOLEAN]
Launches == [key : Keys \cup {None}, todo : SUBSET Paths, victim : Paths \cup {None}, failed : BOOLEAN]
BuilderLabels == {"off", "compile", "again", "gate", "check", "publish", "gone"}
LauncherLabels == {"off", "sweep", "gate", "hash", "lock", "look", "clear", "stage", "own", "copy", "disown",
                   "rename", "lease", "reap", "unlock", "unstage", "ungate", "run", "gone"}

TypeOK ==
    /\ source \in [Roots -> Gens]
    /\ dist \in [Roots -> Keys]
    /\ gate \in [Roots -> Procs \cup {None}] /\ lock \in Launchers \cup {None}
    /\ dir \in [Paths -> Trees \cup {None}]
    /\ pc \in [Procs -> BuilderLabels \cup LauncherLabels]
    /\ build \in [Builders -> Builds]
    /\ launch \in [Launchers -> Launches]
    /\ mishaps \in Nat /\ half \subseteq Roots /\ cut \subseteq Paths
    /\ found \in [Launchers -> [mixed : BOOLEAN, complete : BOOLEAN, cut : BOOLEAN,
                                files : [Files -> Gens \cup {None}]]]

Running == {l \in Launchers : pc[l] \in {"reap", "unlock", "ungate", "run"} /\ ~ launch[l].failed}

\* runtime-snapshot.mjs: "It must outlive every process that imported it": from its
\* lease to its exit a process finds what it leased complete, and that is the whole
\* build, whatever fails, stalls or dies, unless a removal had left that tree unfinished.
LeasedTreeIsWhole ==
    \A l \in Running :
        /\ found[l].complete => dir[Shared(l)] # None /\ dir[Shared(l)].files = found[l].files
        /\ ~ found[l].cut => found[l].complete /\ found[l].files = launch[l].key

\* "sharing it cannot hand a process a half-published build": what a process runs is
\* one generation of the sources, unless the last publication it could see of its
\* root had stopped half way.
OneGeneration ==
    \A l \in Running : ~ found[l].mixed => \A f, g \in Files : launch[l].key[f] = launch[l].key[g]

\* The same two promises as the comments make them, with no exception; both are refuted.
LeasedIsTheBuild == \A l \in Running : dir[Shared(l)] # None /\ dir[Shared(l)].files = launch[l].key
NoHalfPublishedBuild == \A l \in Running, f, g \in Files : launch[l].key[f] = launch[l].key[g]

\* build.mjs: "an older build cannot publish after a newer source generation has
\* become visible": no published file is ever replaced by an older one.
NoRollback == [][\A r \in Roots, f \in Files : dist'[r][f] >= dist[r][f]]_dist
=============================================================================
