----------------------- MODULE RuntimeSnapshots_proofs -----------------------
(***************************************************************************)
(* What holds of RuntimeSnapshots for any number of package roots,         *)
(* builders, launchers, files, generations and mishaps: a published file   *)
(* never goes back; a launch runs one generation unless a publication had  *)
(* stopped half way before its hash; what it leased stays whole, and is    *)
(* the build unless a removal had left a part of it before the lease.      *)
(***************************************************************************)
EXTENDS RuntimeSnapshots, TLAPS

USE DEF ghosts

(* Types: every step leaves every variable in its set. *)

LEMMA EmptyTree == NewTree \in Trees /\ NewTree # None
<1>1. NewTree \in Trees
  BY DEF NewTree, Trees
<1> QED BY <1>1, NoneAssumption

LEMMA GensAreNumbers == Gens \subseteq Nat /\ 0 \in Gens
  BY FileAssumption DEF Gens

LEMMA PathsOf ==
    ASSUME NEW l \in Launchers
    PROVE  /\ Tmp(l) \in Paths
           /\ launch[l].key \in Keys => Shared(l) \in Paths
           /\ Tmp(l) # Shared(l)
  BY DEF Tmp, Shared, Paths

(* A tree stays one when a part of it is written or removed. *)
LEMMA TreeParts ==
    ASSUME NEW t \in Trees
    PROVE  /\ t # None
           /\ \A x \in BOOLEAN : [t EXCEPT !.marker = x] \in Trees /\ [t EXCEPT !.owner = x] \in Trees
           /\ \A m \in SUBSET Launchers : [t EXCEPT !.leases = m] \in Trees
           /\ \A f \in Files, g \in Gens \cup {None} :
                 [t EXCEPT !.files[f] = g] \in Trees
<1>1. t # None
  BY NoneAssumption
<1>2. \A f \in Files, g \in Gens \cup {None} : [t.files EXCEPT ![f] = g] \in [Files -> Gens \cup {None}]
  BY DEF Trees
<1> QED BY <1>1, <1>2 DEF Trees

(* From the hash on, a launch that has not failed has a key. *)
Keyed ==
    \A l \in Launchers :
       /\ pc[l] \in {"lock", "look", "clear", "stage", "own", "copy", "disown", "rename", "unstage",
                     "lease", "reap", "run"}
             => launch[l].key \in Keys
       /\ pc[l] \in {"unlock", "ungate"} /\ ~ launch[l].failed => launch[l].key \in Keys

TypeInv == TypeOK /\ Keyed

LEMMA InitFacts ==
    ASSUME Init
    PROVE  /\ source = Before
           /\ dist = [r \in Roots |-> [f \in Files |-> Before[r]]]
           /\ gate = [r \in Roots |-> None] /\ lock = None
           /\ pc = [p \in Procs |-> "off"]
           /\ build = [b \in Builders |-> [gen |-> 0, left |-> {}, retried |-> FALSE]]
           /\ launch = [l \in Launchers |-> [key |-> None, todo |-> {}, victim |-> None, failed |-> FALSE]]
           /\ mishaps = 0 /\ half = {} /\ cut = {}
           /\ found = [l \in Launchers |-> [mixed |-> FALSE, complete |-> FALSE, cut |-> FALSE,
                                            files |-> NewTree.files]]
  BY Zenon DEF Init

\* Every snapshot that is there at the start is complete and the content of its key.
LEMMA InitTrees ==
    ASSUME Init, NEW d \in Paths
    PROVE  \/ dir[d] = None
           \/ /\ d[1] = "build" /\ d[2] \in Keys
              /\ dir[d] = [NewTree EXCEPT !.files = d[2], !.marker = TRUE]
<1>1. PICK kept \in SUBSET {[f \in Files |-> Before[r]] : r \in Roots} :
        dir = [e \in Paths |-> IF e[1] = "build" /\ e[2] \in kept
                               THEN [NewTree EXCEPT !.files = e[2], !.marker = TRUE] ELSE None]
  BY Zenon DEF Init
<1>2. kept \subseteq Keys
  BY BeforeAssumption DEF Keys
<1> QED BY <1>1, <1>2

LEMMA InitType == Init => TypeInv
<1> SUFFICES ASSUME Init PROVE TypeInv
  OBVIOUS
<1>1. dir \in [Paths -> Trees \cup {None}]
  <2>1. \A d \in Paths : dir[d] \in Trees \cup {None}
    <3> TAKE d \in Paths
    <3>1. ASSUME NEW k \in Keys PROVE [NewTree EXCEPT !.files = k, !.marker = TRUE] \in Trees
      BY DEF Keys, NewTree, Trees
    <3>2. CASE dir[d] = None
      BY <3>2
    <3>3. CASE d[2] \in Keys /\ dir[d] = [NewTree EXCEPT !.files = d[2], !.marker = TRUE]
      BY <3>1, <3>3, Zenon
    <3> QED BY <3>2, <3>3, InitTrees, Zenon
  <2>2. \E g : dir = [d \in Paths |-> g[d]]
    <3>1. \E kept \in SUBSET {[f \in Files |-> Before[r]] : r \in Roots} :
            dir = [e \in Paths |-> IF e[1] = "build" /\ e[2] \in kept
                                   THEN [NewTree EXCEPT !.files = e[2], !.marker = TRUE] ELSE None]
      BY Zenon DEF Init
    <3> QED BY <3>1
  <2> QED BY <2>1, <2>2
<1>2. found \in [Launchers -> [mixed : BOOLEAN, complete : BOOLEAN, cut : BOOLEAN,
                              files : [Files -> Gens \cup {None}]]]
  <2> DEFINE T == [mixed : BOOLEAN, complete : BOOLEAN, cut : BOOLEAN, files : [Files -> Gens \cup {None}]]
             w == [mixed |-> FALSE, complete |-> FALSE, cut |-> FALSE, files |-> NewTree.files]
  <2>1. w \in T
    BY DEF NewTree
  <2>2. found = [l \in Launchers |-> w]
    BY InitFacts
  <2> HIDE DEF w
  <2> QED BY <2>1, <2>2
<1>3. /\ source \in [Roots -> Gens] /\ dist \in [Roots -> Keys]
      /\ build \in [Builders -> Builds] /\ launch \in [Launchers -> Launches]
  <2>1. source = Before /\ dist = [r \in Roots |-> [f \in Files |-> Before[r]]]
    BY InitFacts, Zenon
  <2>2. source \in [Roots -> Gens] /\ dist \in [Roots -> Keys]
    BY <2>1, BeforeAssumption DEF Keys
  <2>3. build = [b \in Builders |-> [gen |-> 0, left |-> {}, retried |-> FALSE]]
    BY InitFacts, Zenon
  <2>4. build \in [Builders -> Builds]
    BY <2>3, GensAreNumbers DEF Builds
  <2>5. launch = [l \in Launchers |-> [key |-> None, todo |-> {}, victim |-> None, failed |-> FALSE]]
    BY InitFacts, Zenon
  <2>6. launch \in [Launchers -> Launches]
    BY <2>5 DEF Launches
  <2> QED BY <2>2, <2>4, <2>6
<1>4. TypeOK
  BY <1>1, <1>2, <1>3, InitFacts DEF TypeOK, BuilderLabels, LauncherLabels
<1>5. Keyed
  BY InitFacts, ProcAssumption DEF Keyed, Procs
<1> QED BY <1>4, <1>5 DEF TypeInv

(* The history: what the steps write to it stays in its type. *)
HistoryOK ==
    /\ mishaps \in Nat /\ half \subseteq Roots /\ cut \subseteq Paths
    /\ found \in [Launchers -> [mixed : BOOLEAN, complete : BOOLEAN, cut : BOOLEAN,
                                files : [Files -> Gens \cup {None}]]]

LEMMA BuilderHistory ==
    ASSUME TypeOK, NEW b \in Builders, BuilderNext(b)
    PROVE  HistoryOK'
<1>1. RootOf[b] \in Roots /\ HistoryOK
  BY ProcAssumption DEF Procs, TypeOK, HistoryOK
<1>2. UNCHANGED <<cut, found>> /\ half' \in {half, half \ {RootOf[b]}, half \cup {RootOf[b]}}
  BY DEF BuilderNext, Capture, Compile, BuilderGate, CheckGeneration, PublishFile, Published, BuilderEnds
<1>3. mishaps' \in {mishaps, mishaps + 1}
  BY DEF BuilderNext, Capture, Compile, BuilderGate, CheckGeneration, PublishFile, Published, BuilderEnds, Mishap
<1> QED BY <1>1, <1>2, <1>3 DEF HistoryOK

LEMMA LauncherHistory ==
    ASSUME TypeInv, NEW l \in Launchers, LauncherNext(l)
    PROVE  HistoryOK'
<1> DEFINE T == [mixed : BOOLEAN, complete : BOOLEAN, cut : BOOLEAN, files : [Files -> Gens \cup {None}]]
<1>1. HistoryOK /\ found[l] \in T
  BY DEF TypeInv, TypeOK, HistoryOK
<1>2. mishaps' \in {mishaps, mishaps + 1} /\ half' = half
  BY DEF LauncherNext, Start, Examine, RemovePart, RemovalFails, Swept, LauncherGate, HashRuntime, AcquireLock,
     Look, Cleared, MakeStaging, WriteOwner, CopyFile, WriteMarker, RemoveOwner, Rename, WriteLease, Throw,
     ThrowOutside, GiveUp, ReleaseLock, LauncherLeaves, Exit, Crash, Mishap
<1>3. Rename(l) => Shared(l) \in Paths
  BY PathsOf DEF Rename, TypeInv, Keyed
<1>4. cut' \subseteq Paths
  <2>1. CASE Rename(l)
    BY <1>1, <1>3, <2>1 DEF Rename, HistoryOK
  <2>2. CASE RemovePart(l) \/ RemovalFails(l) \/ Crash(l)
    BY <1>1, <2>2 DEF RemovePart, RemovalFails, Crash, Unfinished, HistoryOK
  <2>3. CASE cut' = cut
    BY <1>1, <2>3 DEF HistoryOK
  <2> QED BY <2>1, <2>2, <2>3
     DEF LauncherNext, Start, Examine, Swept, LauncherGate, HashRuntime, AcquireLock, Look, Cleared,
     MakeStaging, WriteOwner, CopyFile, WriteMarker, RemoveOwner, WriteLease, Throw, ThrowOutside,
     GiveUp, ReleaseLock, LauncherLeaves, Exit
<1>5. found' \in [Launchers -> T]
  <2>1. CASE HashRuntime(l)
    <3> DEFINE u == [found[l] EXCEPT !.mixed = RootOf[l] \in half]
    <3>1. u \in T
      <4> DEFINE x == RootOf[l] \in half
      <4>1. x \in BOOLEAN
        OBVIOUS
      <4> HIDE DEF x
      <4>2. [found[l] EXCEPT !.mixed = x] \in T
        BY <1>1, <4>1
      <4> QED BY <4>2 DEF x
    <3>2. found' = [found EXCEPT ![l] = u]
      BY <2>1 DEF HashRuntime
    <3> HIDE DEF u
    <3> QED BY <1>1, <3>1, <3>2 DEF HistoryOK
  <2>2. CASE WriteLease(l)
    <3> DEFINE tree == IF dir[Shared(l)] = None THEN NewTree ELSE dir[Shared(l)]
               u == [found[l] EXCEPT !.complete = tree.marker, !.cut = Shared(l) \in cut, !.files = tree.files]
    <3>1. Shared(l) \in Paths
      BY <2>2, PathsOf DEF WriteLease, TypeInv, Keyed
    <3>2. tree \in Trees
      BY <3>1, EmptyTree DEF TypeInv, TypeOK
    <3>3. found' = [found EXCEPT ![l] = u]
      BY <2>2 DEF WriteLease
    <3>4. tree.marker \in BOOLEAN /\ tree.files \in [Files -> Gens \cup {None}]
      BY <3>2 DEF Trees
    <3>5. u \in T
      <4> DEFINE x == tree.marker
                 y == Shared(l) \in cut
                 z == tree.files
      <4>1. x \in BOOLEAN /\ y \in BOOLEAN /\ z \in [Files -> Gens \cup {None}]
        BY <3>4
      <4> HIDE DEF x, y, z, tree
      <4>2. [found[l] EXCEPT !.complete = x, !.cut = y, !.files = z] \in T
        BY <1>1, <4>1
      <4> QED BY <4>2 DEF x, y, z
    <3> HIDE DEF u
    <3> QED BY <1>1, <3>3, <3>5 DEF HistoryOK
  <2>3. CASE found' = found
    BY <1>1, <2>3 DEF HistoryOK
  <2> QED BY <2>1, <2>2, <2>3
     DEF LauncherNext, Start, Examine, RemovePart, RemovalFails, Swept, LauncherGate, AcquireLock, Look, Cleared,
     MakeStaging, WriteOwner, CopyFile, WriteMarker, RemoveOwner, Rename, Throw, ThrowOutside,
     GiveUp, ReleaseLock, LauncherLeaves, Exit, Crash
<1> QED BY <1>1, <1>2, <1>4, <1>5 DEF HistoryOK

LEMMA BuilderType ==
    ASSUME TypeOK, NEW b \in Builders, BuilderNext(b)
    PROVE  TypeOK'
<1>p. b \in Procs /\ RootOf[b] \in Roots
  BY ProcAssumption DEF Procs
<1>h. HistoryOK'
  BY BuilderHistory
<1> USE DEF HistoryOK
<1>1. CASE Capture(b)
  <2>1. build \in [Builders -> Builds] /\ source[RootOf[b]] \in Gens
    BY <1>p DEF TypeOK
  <2> DEFINE u == [build[b] EXCEPT !.gen = source[RootOf[b]]]
  <2>2. u \in Builds
    BY <2>1 DEF Builds
  <2>3. build' = [build EXCEPT ![b] = u]
    BY <1>1 DEF Capture
  <2> HIDE DEF u
  <2>4. build' \in [Builders -> Builds]
    BY <2>1, <2>2, <2>3
  <2> QED BY <1>1, <1>p, <1>h, <2>4 DEF Capture, Go, TypeOK, BuilderLabels, LauncherLabels
<1>r. ASSUME Refuse(b)
      PROVE  /\ pc' \in [Procs -> BuilderLabels \cup LauncherLabels]
             /\ build' \in [Builders -> Builds]
  <2>1. build' \in [Builders -> Builds]
    BY <1>r, <1>h DEF Refuse, TypeOK, Builds
  <2>2. pc' \in [Procs -> BuilderLabels \cup LauncherLabels]
    BY <1>r, <1>h DEF Refuse, Go, TypeOK, BuilderLabels, LauncherLabels
  <2> QED BY <2>1, <2>2
<1>2. CASE Compile(b)
  BY <1>2, <1>p, <1>r, <1>h DEF Compile, Go, TypeOK, BuilderLabels, LauncherLabels
<1>3. CASE BuilderGate(b)
  BY <1>3, <1>p, <1>h DEF BuilderGate, EnterGate, Go, TypeOK, BuilderLabels, LauncherLabels
<1>4. CASE CheckGeneration(b)
  <2>1. CASE Refuse(b) /\ LeaveGate(b) /\ UNCHANGED <<source, dist, lock, dir, launch, mishaps, ghosts>>
    BY <2>1, <1>p, <1>r, <1>h DEF LeaveGate, TypeOK
  <2>2. CASE /\ Go(b, "publish") /\ build' = [build EXCEPT ![b].left = Files]
             /\ UNCHANGED <<source, dist, gate, lock, dir, launch, mishaps, ghosts>>
    <3>1. build' \in [Builders -> Builds]
      BY <2>2, <1>h DEF TypeOK, Builds
    <3> QED BY <2>2, <3>1, <1>p, <1>h DEF Go, TypeOK, BuilderLabels, LauncherLabels
  <2> QED BY <1>4, <2>1, <2>2 DEF CheckGeneration
<1>5. CASE PublishFile(b)
  <2>1. PICK f \in build[b].left :
           /\ dist' = [dist EXCEPT ![RootOf[b]][f] = build[b].gen]
           /\ build' = [build EXCEPT ![b].left = @ \ {f}]
    BY <1>5 DEF PublishFile
  <2>2. build[b] \in Builds /\ build[b].gen \in Gens
    BY DEF TypeOK, Builds
  <2>3. [dist[RootOf[b]] EXCEPT ![f] = build[b].gen] \in Keys
    BY <2>2, <1>p, <1>h DEF TypeOK, Keys
  <2>4. dist' \in [Roots -> Keys]
    BY <2>1, <2>3, <1>p, <1>h DEF TypeOK
  <2>5. build' \in [Builders -> Builds]
    <3>1. build[b].left \ {f} \in SUBSET Files
      BY <2>2 DEF Builds
    <3> DEFINE u == [build[b] EXCEPT !.left = @ \ {f}]
    <3>2. u \in Builds
      BY <2>2, <3>1 DEF Builds
    <3>3. build' = [build EXCEPT ![b] = u]
      BY <2>1
    <3> HIDE DEF u
    <3> QED BY <3>2, <3>3, <1>h DEF TypeOK
  <2> QED BY <1>5, <2>4, <2>5, <1>h DEF PublishFile, TypeOK
<1>6. CASE Published(b)
  BY <1>6, <1>p, <1>h DEF Published, LeaveGate, Go, TypeOK, BuilderLabels, LauncherLabels
<1>7. CASE BuilderEnds(b)
  BY <1>7, <1>p, <1>h DEF BuilderEnds, Go, TypeOK, BuilderLabels, LauncherLabels
<1> QED BY <1>1, <1>2, <1>3, <1>4, <1>5, <1>6, <1>7 DEF BuilderNext

LEMMA LauncherType ==
    ASSUME TypeInv, NEW l \in Launchers, LauncherNext(l)
    PROVE  TypeOK'
<1> USE DEF TypeInv
<1>p. l \in Procs /\ RootOf[l] \in Roots
  BY ProcAssumption DEF Procs
<1>t. Tmp(l) \in Paths
  BY PathsOf
<1>v. launch[l] \in Launches
  BY DEF TypeOK
<1>e. Existing \in SUBSET Paths
  BY DEF Existing
<1>h. HistoryOK'
  BY LauncherHistory
<1> USE DEF HistoryOK
<1>1. CASE Start(l)
  <2> DEFINE u == [launch[l] EXCEPT !.todo = Existing]
  <2>1. u \in Launches
    BY <1>e, <1>v DEF Launches
  <2>2. launch' = [launch EXCEPT ![l] = u]
    BY <1>1 DEF Start
  <2> HIDE DEF u
  <2>3. launch' \in [Launchers -> Launches]
    BY <2>1, <2>2 DEF TypeOK
  <2> QED BY <1>1, <1>p, <1>h, <2>3 DEF Start, Go, TypeOK, BuilderLabels, LauncherLabels
<1>2. CASE Examine(l)
  <2>0. launch[l] \in Launches /\ launch[l].todo \in SUBSET Paths
    BY DEF TypeOK, Launches
  <2>1. PICK d \in launch[l].todo :
           LET reapsShared == d[1] = "build" /\ pc[l] = "reap" /\ d # Shared(l) /\ dir[d] # None
           IN  /\ dir' = IF reapsShared THEN [dir EXCEPT ![d].leases = LiveLeases(d)] ELSE dir
               /\ \E victim \in {None, d} :
                     launch' = [launch EXCEPT ![l].todo = @ \ {d}, ![l].victim = victim]
    BY <1>2 DEF Examine
  <2> d \in Paths
    BY <2>0
  <2>2. launch' \in [Launchers -> Launches]
    <3>1. PICK victim \in {None, d} : launch' = [launch EXCEPT ![l].todo = @ \ {d}, ![l].victim = victim]
      BY <2>1
    <3> DEFINE u == [launch[l] EXCEPT !.todo = @ \ {d}, !.victim = victim]
    <3>2. u \in Launches
      BY <2>0 DEF Launches
    <3>3. launch' = [launch EXCEPT ![l] = u]
      BY <3>1
    <3> HIDE DEF u
    <3> QED BY <3>2, <3>3, <1>h DEF TypeOK
  <2>3. dir' \in [Paths -> Trees \cup {None}]
    <3> DEFINE u == [dir[d] EXCEPT !.leases = LiveLeases(d)]
    <3>1. dir[d] # None => LiveLeases(d) \in SUBSET Launchers /\ dir[d] \in Trees
      BY DEF LiveLeases, TypeOK, Trees
    <3>2. dir[d] # None => u \in Trees
      BY <3>1, TreeParts
    <3>3. dir' = dir \/ (dir[d] # None /\ dir' = [dir EXCEPT ![d] = u])
      BY <2>1
    <3> HIDE DEF u
    <3> QED BY <3>2, <3>3, <1>h DEF TypeOK
  <2> QED BY <1>2, <2>2, <2>3, <1>h DEF Examine, TypeOK
<1>3. CASE RemovePart(l)
  <2> DEFINE d == launch[l].victim
  <2>1. launch[l] \in Launches /\ d \in Paths
    BY <1>3, <1>h DEF RemovePart, TypeOK, Launches
  <2>2. CASE Emptied(d)
    <3>1. /\ dir' = [dir EXCEPT ![d] = None]
          /\ launch' = [launch EXCEPT ![l].victim = None]
      BY <1>3, <2>2 DEF RemovePart
    <3>2. launch' \in [Launchers -> Launches]
      BY <2>1, <3>1, <1>h DEF TypeOK, Launches
    <3> QED BY <1>3, <3>1, <3>2, <1>h DEF RemovePart, TypeOK
  <2>3. CASE ~ Emptied(d)
    <3>1. dir[d] \in Trees
      BY <2>1, <2>3, <1>h DEF Emptied, TypeOK
    <3>2. \/ dir' = [dir EXCEPT ![d].marker = FALSE]
          \/ \E f \in Files : dir' = [dir EXCEPT ![d].files[f] = None]
      BY <1>3, <2>3 DEF RemovePart
    <3>3. \E t \in Trees : dir' = [dir EXCEPT ![d] = t]
      <4>1. [dir[d] EXCEPT !.marker = FALSE] \in Trees
        BY <3>1, TreeParts
      <4>2. CASE dir' = [dir EXCEPT ![d].marker = FALSE]
        BY <4>1, <4>2
      <4>3. ASSUME NEW f \in Files, dir' = [dir EXCEPT ![d].files[f] = None]
            PROVE  \E t \in Trees : dir' = [dir EXCEPT ![d] = t]
        <5>1. [dir[d] EXCEPT !.files[f] = None] \in Trees
          BY <3>1, TreeParts
        <5> QED BY <4>3, <5>1, Zenon
      <4> QED BY <3>2, <4>2, <4>3
    <3>4. dir' \in [Paths -> Trees \cup {None}]
      BY <3>3, <1>h DEF TypeOK
    <3> QED BY <1>3, <2>3, <3>4, <1>h DEF RemovePart, TypeOK
  <2> QED BY <2>2, <2>3
<1>4. CASE Swept(l)
  BY <1>4, <1>p, <1>h DEF Swept, Go, TypeOK, BuilderLabels, LauncherLabels
<1>5. CASE LauncherGate(l)
  BY <1>5, <1>p, <1>h DEF LauncherGate, EnterGate, Go, TypeOK, BuilderLabels, LauncherLabels
<1>6. CASE HashRuntime(l)
  <2>1. launch' \in [Launchers -> Launches]
    <3> DEFINE u == [launch[l] EXCEPT !.key = dist[RootOf[l]]]
    <3>1. dist[RootOf[l]] \in Keys
      BY <1>p DEF TypeOK
    <3>2. u \in Launches
      BY <1>v, <3>1 DEF Launches
    <3>3. launch' = [launch EXCEPT ![l] = u]
      BY <1>6 DEF HashRuntime
    <3> HIDE DEF u
    <3> QED BY <3>2, <3>3 DEF TypeOK
  <2>2. pc' \in [Procs -> BuilderLabels \cup LauncherLabels]
    BY <1>6, <1>p DEF HashRuntime, Go, TypeOK, BuilderLabels, LauncherLabels
  <2> QED BY <1>6, <1>h, <2>1, <2>2 DEF HashRuntime, TypeOK
<1>7. CASE AcquireLock(l)
  BY <1>7, <1>p, <1>h DEF AcquireLock, Go, TypeOK, BuilderLabels, LauncherLabels
<1>8. CASE Look(l)
  <2>1. Shared(l) \in Paths
    BY <1>8, PathsOf DEF Look, Keyed
  <2>2. launch' = launch \/ launch' = [launch EXCEPT ![l].victim = Shared(l)]
    BY <1>8 DEF Look
  <2>3. launch' \in [Launchers -> Launches]
    <3> DEFINE u == [launch[l] EXCEPT !.victim = Shared(l)]
    <3>1. u \in Launches
      BY <1>v, <2>1 DEF Launches
    <3>2. launch' = launch \/ launch' = [launch EXCEPT ![l] = u]
      BY <2>2
    <3> HIDE DEF u
    <3> QED BY <3>1, <3>2 DEF TypeOK
  <2>4. pc' \in [Procs -> BuilderLabels \cup LauncherLabels]
    BY <1>8, <1>p, <1>h DEF Look, Go, TypeOK, BuilderLabels, LauncherLabels
  <2> QED BY <1>8, <2>3, <2>4, <1>h DEF Look, TypeOK
<1>9. CASE Cleared(l)
  BY <1>9, <1>p, <1>h DEF Cleared, Go, TypeOK, BuilderLabels, LauncherLabels
<1>10. CASE MakeStaging(l)
  BY <1>10, <1>p, <1>t, EmptyTree, <1>h DEF MakeStaging, Go, TypeOK, BuilderLabels, LauncherLabels
<1>11. CASE WriteOwner(l)
  BY <1>11, <1>p, <1>t, TreeParts, <1>h DEF WriteOwner, Staged, Go, TypeOK, BuilderLabels, LauncherLabels
<1>12. CASE CopyFile(l)
  <2>1. PICK f \in Files :
           dir' = [dir EXCEPT ![Tmp(l)].files[f] = dist[RootOf[l]][f]]
    BY <1>12 DEF CopyFile
  <2>2. dist[RootOf[l]][f] \in Gens /\ dir[Tmp(l)] \in Trees
    <3>1. dist[RootOf[l]] \in [Files -> Gens]
      BY <1>p, <1>h DEF TypeOK, Keys
    <3>2. dir[Tmp(l)] \in Trees
      BY <1>12, <1>t, <1>h DEF CopyFile, Staged, TypeOK
    <3> QED BY <3>1, <3>2
  <2> DEFINE u == [dir[Tmp(l)] EXCEPT !.files[f] = dist[RootOf[l]][f]]
  <2>3. u \in Trees
    BY <2>2, TreeParts
  <2>4. dir' \in [Paths -> Trees \cup {None}]
    <3>1. dir' = [dir EXCEPT ![Tmp(l)] = u]
      BY <2>1
    <3> HIDE DEF u
    <3> QED BY <1>t, <2>3, <3>1, <1>h DEF TypeOK
  <2> QED BY <1>12, <2>4, <1>h DEF CopyFile, TypeOK
<1>13. CASE WriteMarker(l)
  BY <1>13, <1>p, <1>t, TreeParts, <1>h DEF WriteMarker, Staged, Go, TypeOK, BuilderLabels, LauncherLabels
<1>14. CASE RemoveOwner(l)
  BY <1>14, <1>p, <1>t, TreeParts, <1>h DEF RemoveOwner, Staged, Go, TypeOK, BuilderLabels, LauncherLabels
<1>15. CASE Rename(l)
  <2>1. dir' \in [Paths -> Trees \cup {None}]
    BY <1>15, <1>t, <1>h DEF Rename, TypeOK
  <2> QED BY <1>15, <1>p, <2>1, <1>h DEF Rename, Go, TypeOK, BuilderLabels, LauncherLabels
<1>16. CASE WriteLease(l)
  <2> DEFINE tree == IF dir[Shared(l)] = None THEN NewTree ELSE dir[Shared(l)]
             u == [tree EXCEPT !.leases = @ \cup {l}]
  <2>1. Shared(l) \in Paths
    BY <1>16, PathsOf DEF WriteLease, Keyed
  <2>2. tree \in Trees
    BY <2>1, EmptyTree, <1>h DEF TypeOK
  <2>3. u \in Trees
    <3>1. tree.leases \cup {l} \in SUBSET Launchers
      BY <2>2 DEF Trees
    <3> HIDE DEF tree
    <3> QED BY <2>2, <3>1, TreeParts
  <2>4. dir' = [dir EXCEPT ![Shared(l)] = u]
    BY <1>16 DEF WriteLease
  <2>5. dir' \in [Paths -> Trees \cup {None}]
    <3> HIDE DEF u
    <3> QED BY <2>1, <2>3, <2>4, <1>h DEF TypeOK
  <2>6. launch' \in [Launchers -> Launches]
    BY <1>16, <1>e, <1>v DEF WriteLease, TypeOK, Launches
  <2>7. pc' \in [Procs -> BuilderLabels \cup LauncherLabels]
    BY <1>16, <1>p, <1>h DEF WriteLease, Go, TypeOK, BuilderLabels, LauncherLabels
  <2>8. UNCHANGED <<source, dist, gate, lock, build>>
    BY <1>16 DEF WriteLease
  <2> QED BY <2>5, <2>6, <2>7, <2>8, <1>h DEF TypeOK
<1>17. CASE Throw(l)
  <2> DEFINE u == [launch[l] EXCEPT !.victim = Tmp(l), !.failed = TRUE]
  <2>1. u \in Launches
    BY <1>t, <1>v DEF Launches
  <2>2. launch' = [launch EXCEPT ![l] = u]
    BY <1>17 DEF Throw
  <2> HIDE DEF u
  <2>3. launch' \in [Launchers -> Launches]
    BY <2>1, <2>2, <1>h DEF TypeOK
  <2>4. pc' \in [Procs -> BuilderLabels \cup LauncherLabels]
    BY <1>17, <1>p, <1>h DEF Throw, Go, TypeOK, BuilderLabels, LauncherLabels
  <2> QED BY <1>17, <2>3, <2>4, <1>h DEF Throw, TypeOK
<1>18. CASE ThrowOutside(l)
  <2> DEFINE u == [launch[l] EXCEPT !.failed = TRUE]
  <2>1. u \in Launches
    BY <1>v DEF Launches
  <2>2. launch' = [launch EXCEPT ![l] = u]
    BY <1>18 DEF ThrowOutside
  <2> HIDE DEF u
  <2>3. launch' \in [Launchers -> Launches]
    BY <2>1, <2>2, <1>h DEF TypeOK
  <2>4. pc' \in [Procs -> BuilderLabels \cup LauncherLabels]
    BY <1>18, <1>p, <1>h DEF ThrowOutside, Go, TypeOK, BuilderLabels, LauncherLabels
  <2> QED BY <1>18, <2>3, <2>4, <1>h DEF ThrowOutside, TypeOK
<1>19. CASE GiveUp(l)
  <2> DEFINE u == [launch[l] EXCEPT !.failed = TRUE]
  <2>1. u \in Launches
    BY <1>v DEF Launches
  <2>2. launch' = [launch EXCEPT ![l] = u]
    BY <1>19 DEF GiveUp
  <2> HIDE DEF u
  <2>3. launch' \in [Launchers -> Launches]
    BY <2>1, <2>2, <1>h DEF TypeOK
  <2>4. pc' \in [Procs -> BuilderLabels \cup LauncherLabels]
    BY <1>19, <1>p, <1>h DEF GiveUp, Go, TypeOK, BuilderLabels, LauncherLabels
  <2> QED BY <1>19, <2>3, <2>4, <1>h DEF GiveUp, TypeOK
<1>20. CASE ReleaseLock(l)
  BY <1>20, <1>p, <1>h DEF ReleaseLock, Go, TypeOK, BuilderLabels, LauncherLabels
<1>21. CASE LauncherLeaves(l)
  BY <1>21, <1>p, <1>h DEF LauncherLeaves, LeaveGate, Go, TypeOK, BuilderLabels, LauncherLabels
<1>22. CASE Exit(l)
  <2>1. Shared(l) \in Paths
    BY <1>22, PathsOf DEF Exit, Keyed
  <2>2. dir[Shared(l)] # None => dir[Shared(l)].leases \ {l} \in SUBSET Launchers /\ dir[Shared(l)] \in Trees
    BY <2>1, <1>h DEF TypeOK, Trees
  <2> DEFINE u == [dir[Shared(l)] EXCEPT !.leases = @ \ {l}]
  <2>3. dir[Shared(l)] # None => u \in Trees
    BY <2>2, TreeParts
  <2>4. dir' = dir \/ (dir[Shared(l)] # None /\ dir' = [dir EXCEPT ![Shared(l)] = u])
    BY <1>22 DEF Exit
  <2>5. dir' \in [Paths -> Trees \cup {None}]
    <3> HIDE DEF u
    <3> QED BY <2>1, <2>3, <2>4, <1>h DEF TypeOK
  <2> QED BY <1>22, <1>p, <2>5, <1>h DEF Exit, Go, TypeOK, BuilderLabels, LauncherLabels
<1>23. CASE Crash(l)
  <2>1. launch' \in [Launchers -> Launches]
    <3> DEFINE u == [launch[l] EXCEPT !.victim = None]
    <3>1. u \in Launches
      BY <1>v DEF Launches
    <3>2. launch' = [launch EXCEPT ![l] = u]
      BY <1>23 DEF Crash
    <3> HIDE DEF u
    <3> QED BY <3>1, <3>2 DEF TypeOK
  <2> QED BY <1>23, <1>p, <1>h, <2>1 DEF Crash, Go, TypeOK, BuilderLabels, LauncherLabels
<1>24. CASE RemovalFails(l)
  <2>1. launch' \in [Launchers -> Launches]
    <3> DEFINE u == [launch[l] EXCEPT !.victim = None]
    <3>1. u \in Launches
      BY <1>v DEF Launches
    <3>2. launch' = [launch EXCEPT ![l] = u]
      BY <1>24 DEF RemovalFails
    <3> HIDE DEF u
    <3> QED BY <3>1, <3>2 DEF TypeOK
  <2> QED BY <1>24, <1>h, <2>1 DEF RemovalFails, TypeOK
<1> QED
  BY <1>1, <1>2, <1>3, <1>4, <1>5, <1>6, <1>7, <1>8, <1>9, <1>10, <1>11, <1>12, <1>13, <1>14,
     <1>15, <1>16, <1>17, <1>18, <1>19, <1>20, <1>21, <1>22, <1>23, <1>24 DEF LauncherNext

(* Keys are set once, by the hash, and kept to the end. *)
LEMMA KeyedStep ==
    ASSUME TypeInv, NEW l \in Launchers, LauncherNext(l)
    PROVE  Keyed'
<1>p. l \in Procs /\ RootOf[l] \in Roots /\ Launchers \subseteq Procs
  BY ProcAssumption DEF Procs
<1>t. /\ pc \in [Procs -> BuilderLabels \cup LauncherLabels]
      /\ launch \in [Launchers -> Launches]
      /\ dist[RootOf[l]] \in Keys
  BY <1>p DEF TypeInv, TypeOK
<1>k. Keyed
  BY DEF TypeInv
<1>1. CASE Start(l)
  BY <1>1, <1>p, <1>t, <1>k DEF Start, Go, Launches, Keyed
<1>2. CASE Examine(l)
  BY <1>2, <1>p, <1>t, <1>k DEF Examine, Launches, Keyed
<1>3. CASE RemovePart(l)
  BY <1>3, <1>p, <1>t, <1>k DEF RemovePart, Launches, Keyed
<1>4. CASE Swept(l)
  BY <1>4, <1>p, <1>t, <1>k DEF Swept, Go, Keyed
<1>5. CASE LauncherGate(l)
  BY <1>5, <1>p, <1>t, <1>k DEF LauncherGate, Go, Keyed
<1>6. CASE HashRuntime(l)
  BY <1>6, <1>p, <1>t, <1>k DEF HashRuntime, Go, Launches, Keyed
<1>7. CASE AcquireLock(l)
  BY <1>7, <1>p, <1>t, <1>k DEF AcquireLock, Go, Keyed
<1>8. CASE Look(l)
  <2>1. \A m \in Launchers : launch'[m].key = launch[m].key /\ launch'[m].failed = launch[m].failed
    BY <1>8, <1>t DEF Look, Launches
  <2>2. pc[l] = "look" /\ \E s \in {"lease", "clear", "stage"} : pc' = [pc EXCEPT ![l] = s]
    BY <1>8 DEF Look, Go
  <2>3. launch[l].key \in Keys
    BY <2>2, <1>k DEF Keyed
  <2> QED BY <2>1, <2>2, <2>3, <1>p, <1>t, <1>k DEF Keyed
<1>9. CASE Cleared(l)
  <2>1. \/ pc[l] = "clear" /\ pc' = [pc EXCEPT ![l] = "stage"]
        \/ pc[l] = "unstage" /\ pc' = [pc EXCEPT ![l] = "unlock"]
    BY <1>9 DEF Cleared, Go
  <2>2. launch' = launch
    BY <1>9 DEF Cleared
  <2> QED BY <2>1, <2>2, <1>p, <1>t, <1>k DEF Keyed
<1>10. CASE MakeStaging(l)
  BY <1>10, <1>p, <1>t, <1>k DEF MakeStaging, Go, Keyed
<1>11. CASE WriteOwner(l)
  BY <1>11, <1>p, <1>t, <1>k DEF WriteOwner, Go, Keyed
<1>12. CASE CopyFile(l)
  BY <1>12, <1>p, <1>t, <1>k DEF CopyFile, Keyed
<1>13. CASE WriteMarker(l)
  BY <1>13, <1>p, <1>t, <1>k DEF WriteMarker, Go, Keyed
<1>14. CASE RemoveOwner(l)
  BY <1>14, <1>p, <1>t, <1>k DEF RemoveOwner, Go, Keyed
<1>15. CASE Rename(l)
  BY <1>15, <1>p, <1>t, <1>k DEF Rename, Go, Keyed
<1>16. CASE WriteLease(l)
  BY <1>16, <1>p, <1>t, <1>k DEF WriteLease, Go, Launches, Keyed
<1>17. CASE Throw(l)
  BY <1>17, <1>p, <1>t, <1>k DEF Throw, Go, Launches, Keyed
<1>18. CASE ThrowOutside(l)
  BY <1>18, <1>p, <1>t, <1>k DEF ThrowOutside, Go, Launches, Keyed
<1>19. CASE GiveUp(l)
  BY <1>19, <1>p, <1>t, <1>k DEF GiveUp, Go, Launches, Keyed
<1>20. CASE ReleaseLock(l)
  BY <1>20, <1>p, <1>t, <1>k DEF ReleaseLock, Go, Keyed
<1>21. CASE LauncherLeaves(l)
  BY <1>21, <1>p, <1>t, <1>k DEF LauncherLeaves, Go, Keyed
<1>22. CASE Exit(l)
  BY <1>22, <1>p, <1>t, <1>k DEF Exit, Go, Keyed
<1>23. CASE Crash(l)
  BY <1>23, <1>p, <1>t, <1>k DEF Crash, Go, Launches, Keyed
<1>24. CASE RemovalFails(l)
  BY <1>24, <1>p, <1>t, <1>k DEF RemovalFails, Launches, Keyed
<1> QED
  BY <1>1, <1>2, <1>3, <1>4, <1>5, <1>6, <1>7, <1>8, <1>9, <1>10, <1>11, <1>12, <1>13, <1>14,
     <1>15, <1>16, <1>17, <1>18, <1>19, <1>20, <1>21, <1>22, <1>23, <1>24 DEF LauncherNext

LEMMA StepType == ASSUME TypeInv, [Next]_vars PROVE TypeInv'
<1>1. ASSUME NEW r \in Roots, SourceChanges(r) PROVE TypeInv'
  BY <1>1, FileAssumption DEF SourceChanges, TypeInv, Keyed, TypeOK, Gens
<1>2. CASE UNCHANGED vars
  BY <1>2 DEF vars, TypeInv, TypeOK, Keyed
<1>3. ASSUME NEW b \in Builders, BuilderNext(b) PROVE TypeInv'
  <2>1. TypeOK'
    BY <1>3, BuilderType DEF TypeInv
  <2>2. launch' = launch /\ \A l \in Launchers : pc'[l] = pc[l]
    BY <1>3, ProcAssumption
       DEF BuilderNext, Capture, Compile, Refuse, BuilderGate, CheckGeneration, PublishFile, Published,
           BuilderEnds, Go, Procs, TypeInv, TypeOK
  <2>3. Keyed'
    BY <2>2 DEF Keyed, TypeInv
  <2> QED BY <2>1, <2>3 DEF TypeInv
<1>4. ASSUME NEW l \in Launchers, LauncherNext(l) PROVE TypeInv'
  BY <1>4, LauncherType, KeyedStep DEF TypeInv
<1> QED BY <1>1, <1>2, <1>3, <1>4 DEF Next

(* Every state of builds and launches is well typed, and a launch at work has a key. *)
THEOREM TypeCorrect == Spec => [](TypeOK /\ Keyed)
<1>1. Init => TypeInv
  BY InitType
<1>2. TypeInv /\ [Next]_vars => TypeInv'
  BY StepType
<1>3. Spec => []TypeInv
  BY <1>1, <1>2, PTL DEF Spec
<1> QED BY <1>3, PTL DEF TypeInv
-----------------------------------------------------------------------------
(* What one process does leaves alone. *)

LEMMA BuilderFrame ==
    ASSUME TypeInv, NEW b \in Builders, BuilderNext(b)
    PROVE  /\ UNCHANGED <<source, lock, dir, launch, cut, found>>
           /\ \A p \in Procs \ {b} : pc'[p] = pc[p]
           /\ \A c \in Builders \ {b} : build'[c] = build[c]
           /\ b \in Procs /\ Launchers \subseteq Procs \ {b} /\ RootOf[b] \in Roots
<1>p. b \in Procs /\ RootOf[b] \in Roots /\ Launchers \subseteq Procs \ {b}
  BY ProcAssumption DEF Procs
<1>1. UNCHANGED <<source, lock, dir, launch, cut, found>>
  BY DEF BuilderNext, Capture, Compile, BuilderGate, CheckGeneration, PublishFile, Published, BuilderEnds
<1>2. \A p \in Procs \ {b} : pc'[p] = pc[p]
  BY DEF BuilderNext, Capture, Compile, Refuse, BuilderGate, CheckGeneration, PublishFile, Published,
     BuilderEnds, Go, TypeInv, TypeOK
<1>3. \A c \in Builders \ {b} : build'[c] = build[c]
  BY DEF BuilderNext, Capture, Compile, Refuse, BuilderGate, CheckGeneration, PublishFile, Published,
     BuilderEnds, TypeInv, TypeOK
<1> QED BY <1>p, <1>1, <1>2, <1>3

LEMMA LauncherFrame ==
    ASSUME TypeInv, NEW l \in Launchers, LauncherNext(l)
    PROVE  /\ UNCHANGED <<source, dist, build, half>>
           /\ \A p \in Procs \ {l} : pc'[p] = pc[p]
           /\ \A m \in Launchers \ {l} : launch'[m] = launch[m] /\ found'[m] = found[m]
           /\ l \in Procs /\ Builders \subseteq Procs \ {l} /\ RootOf[l] \in Roots
<1>p. l \in Procs /\ RootOf[l] \in Roots /\ Builders \subseteq Procs \ {l}
  BY ProcAssumption DEF Procs
<1>1. UNCHANGED <<source, dist, build, half>>
  BY DEF LauncherNext, Start, Examine, RemovePart, RemovalFails, Swept, LauncherGate, HashRuntime, AcquireLock, Look, Cleared,
     MakeStaging, WriteOwner, CopyFile, WriteMarker, RemoveOwner, Rename, WriteLease, Throw, ThrowOutside,
     GiveUp, ReleaseLock, LauncherLeaves, Exit, Crash
<1>2. pc' = pc \/ \E s \in LauncherLabels : pc' = [pc EXCEPT ![l] = s]
  BY DEF LauncherNext, Start, Examine, RemovePart, RemovalFails, Swept, LauncherGate, HashRuntime, AcquireLock, Look, Cleared,
     MakeStaging, WriteOwner, CopyFile, WriteMarker, RemoveOwner, Rename, WriteLease, Throw, ThrowOutside,
     GiveUp, ReleaseLock, LauncherLeaves, Exit, Crash, Go, LauncherLabels
<1>3. launch' = launch \/ \E u : launch' = [launch EXCEPT ![l] = u]
  BY DEF LauncherNext, Start, Examine, RemovePart, RemovalFails, Swept, LauncherGate, HashRuntime, AcquireLock, Look, Cleared,
     MakeStaging, WriteOwner, CopyFile, WriteMarker, RemoveOwner, Rename, WriteLease, Throw, ThrowOutside,
     GiveUp, ReleaseLock, LauncherLeaves, Exit, Crash
<1>4. found' = found \/ \E u : found' = [found EXCEPT ![l] = u]
  BY DEF LauncherNext, Start, Examine, RemovePart, RemovalFails, Swept, LauncherGate, HashRuntime, AcquireLock, Look, Cleared,
     MakeStaging, WriteOwner, CopyFile, WriteMarker, RemoveOwner, Rename, WriteLease, Throw, ThrowOutside,
     GiveUp, ReleaseLock, LauncherLeaves, Exit, Crash
<1> QED BY <1>p, <1>1, <1>2, <1>3, <1>4 DEF TypeInv, TypeOK

-----------------------------------------------------------------------------
(* Locks: whoever is between taking and leaving one is its holder. *)

Locked == {"look", "clear", "stage", "own", "copy", "disown", "rename", "unstage", "lease", "reap", "unlock"}
Gated == Locked \cup {"check", "publish", "hash", "lock", "ungate"}

GateInv == \A p \in Procs : pc[p] \in Gated => gate[RootOf[p]] = p
LockInv == \A l \in Launchers : pc[l] \in Locked => lock = l

(* A step that enters, keeps or leaves the gate of its process keeps GateInv. *)
LEMMA GateKept ==
    ASSUME TypeInv, GateInv, NEW p \in Procs, \A q \in Procs \ {p} : pc'[q] = pc[q],
           \/ gate' = gate /\ (pc'[p] \in Gated => pc[p] \in Gated)
           \/ EnterGate(p)
           \/ LeaveGate(p) /\ pc'[p] \notin Gated
    PROVE  GateInv'
<1> SUFFICES ASSUME NEW q \in Procs, pc'[q] \in Gated PROVE gate'[RootOf[q]] = q
  BY DEF GateInv
<1>t. gate \in [Roots -> Procs \cup {None}] /\ RootOf[p] \in Roots /\ RootOf[q] \in Roots /\ q # None
  BY ProcAssumption DEF TypeInv, TypeOK
<1>1. CASE q = p
  BY <1>1, <1>t DEF GateInv, EnterGate
<1>2. CASE q # p
  <2>1. gate[RootOf[q]] = q /\ pc[q] # "gone"
    BY <1>2 DEF GateInv, Gated, Locked
  <2>2. EnterGate(p) => RootOf[q] # RootOf[p]
    BY <2>1, <1>t DEF EnterGate, Free, processIsAlive
  <2> QED BY <1>2, <1>t, <2>1, <2>2 DEF EnterGate, LeaveGate
<1> QED BY <1>1, <1>2

LEMMA BuilderGates ==
    ASSUME TypeInv, GateInv, LockInv, NEW b \in Builders, BuilderNext(b)
    PROVE  GateInv' /\ LockInv'
<1>f. /\ b \in Procs /\ \A p \in Procs \ {b} : pc'[p] = pc[p]
      /\ lock' = lock /\ Launchers \subseteq Procs \ {b}
  BY BuilderFrame
<1>t. pc \in [Procs -> BuilderLabels \cup LauncherLabels]
  BY DEF TypeInv, TypeOK
<1>1. LockInv'
  BY <1>f DEF LockInv
<1>2. \/ gate' = gate /\ (pc'[b] \in Gated => pc[b] \in Gated)
      \/ EnterGate(b)
      \/ LeaveGate(b) /\ pc'[b] \notin Gated
  BY <1>f, <1>t DEF BuilderNext, Capture, Compile, Refuse, BuilderGate, CheckGeneration, PublishFile, Published,
     BuilderEnds, Go, Gated, Locked
<1>3. GateInv'
  BY <1>f, <1>2, GateKept
<1> QED BY <1>1, <1>3

LEMMA LauncherGates ==
    ASSUME TypeInv, GateInv, LockInv, NEW l \in Launchers, LauncherNext(l)
    PROVE  GateInv' /\ LockInv'
<1>f. l \in Procs /\ \A p \in Procs \ {l} : pc'[p] = pc[p]
  BY LauncherFrame
<1>t. pc \in [Procs -> BuilderLabels \cup LauncherLabels] /\ l \notin {None}
  BY <1>f, ProcAssumption DEF TypeInv, TypeOK
<1>1. \/ gate' = gate /\ (pc'[l] \in Gated => pc[l] \in Gated)
      \/ EnterGate(l)
      \/ LeaveGate(l) /\ pc'[l] \notin Gated
  BY <1>f, <1>t DEF LauncherNext, Start, Examine, RemovePart, RemovalFails, Swept, LauncherGate, HashRuntime, AcquireLock, Look,
     Cleared, MakeStaging, WriteOwner, CopyFile, WriteMarker, RemoveOwner, Rename, WriteLease, Throw, ThrowOutside,
     GiveUp, ReleaseLock, LauncherLeaves, Exit, Crash, Go, Gated, Locked
<1>2. GateInv'
  BY <1>f, <1>1, GateKept
<1>3. \/ lock' = lock /\ (pc'[l] \in Locked => pc[l] \in Locked)
      \/ Free(lock) /\ lock' = l
      \/ lock' = (IF lock = l THEN None ELSE lock) /\ pc'[l] \notin Locked
  BY <1>f, <1>t DEF LauncherNext, Start, Examine, RemovePart, RemovalFails, Swept, LauncherGate, HashRuntime, AcquireLock, Look,
     Cleared, MakeStaging, WriteOwner, CopyFile, WriteMarker, RemoveOwner, Rename, WriteLease, Throw, ThrowOutside,
     GiveUp, ReleaseLock, LauncherLeaves, Exit, Crash, Go, Locked
<1>4. LockInv'
  <2> SUFFICES ASSUME NEW m \in Launchers, pc'[m] \in Locked PROVE lock' = m
    BY DEF LockInv
  <2>1. CASE m = l
    BY <2>1, <1>3 DEF LockInv
  <2>2. CASE m # l
    <3>1. lock = m /\ pc[m] # "gone" /\ m # None
      BY <2>2, <1>f, ProcAssumption DEF LockInv, Locked, Procs
    <3> QED BY <2>2, <3>1, <1>3 DEF Free, processIsAlive
  <2> QED BY <2>1, <2>2
<1> QED BY <1>2, <1>4

LEMMA StepGates == ASSUME TypeInv, GateInv, LockInv, [Next]_vars PROVE GateInv' /\ LockInv'
<1>1. ASSUME NEW r \in Roots, SourceChanges(r) PROVE GateInv' /\ LockInv'
  BY <1>1 DEF SourceChanges, GateInv, LockInv
<1>2. CASE UNCHANGED vars
  BY <1>2 DEF vars, GateInv, LockInv
<1> QED BY <1>1, <1>2, BuilderGates, LauncherGates DEF Next

LEMMA InitGates == Init => GateInv /\ LockInv
<1> SUFFICES ASSUME Init PROVE GateInv /\ LockInv
  OBVIOUS
<1> QED BY InitFacts, ProcAssumption DEF GateInv, LockInv, Gated, Locked, Procs
-----------------------------------------------------------------------------
(* Generations: a file never comes from later than the sources, nor, while  *)
(* somebody publishes, from later than what is being published.            *)

OrderInv ==
    /\ \A r \in Roots, f \in Files : dist[r][f] <= source[r]
    /\ \A b \in Builders : /\ build[b].gen <= source[RootOf[b]]
                           /\ pc[b] = "publish" => \A f \in Files : dist[RootOf[b]][f] <= build[b].gen

(* The typing of what a build reads and writes. *)
LEMMA BuildTypes ==
    ASSUME TypeInv, NEW b \in Builders
    PROVE  /\ b \in Procs /\ RootOf[b] \in Roots /\ build[b] \in Builds
           /\ build[b].gen \in Nat /\ build[b].left \in SUBSET Files
           /\ \A r \in Roots : source[r] \in Nat /\ \A f \in Files : dist[r][f] \in Nat
<1>1. b \in Procs /\ RootOf[b] \in Roots
  BY ProcAssumption DEF Procs
<1>2. build[b] \in Builds
  BY DEF TypeInv, TypeOK
<1>3. \A r \in Roots : source[r] \in Gens /\ dist[r] \in Keys
  BY DEF TypeInv, TypeOK
<1> QED BY <1>1, <1>2, <1>3, GensAreNumbers DEF Builds, Keys

(* One file moves to the generation being published; the rest stays. *)
LEMMA PublishEffect ==
    ASSUME TypeInv, NEW b \in Builders, PublishFile(b)
    PROVE  \E f \in build[b].left :
              /\ f = Entry => build[b].left = {Entry}
              /\ \A r \in Roots : r # RootOf[b] => dist'[r] = dist[r]
              /\ \A g \in Files : dist'[RootOf[b]][g] = IF g = f THEN build[b].gen ELSE dist[RootOf[b]][g]
              /\ \A c \in Builders : build'[c].gen = build[c].gen
              /\ build'[b].left = build[b].left \ {f}
              /\ \A c \in Builders \ {b} : build'[c] = build[c]
              /\ UNCHANGED <<source, pc, launch, found>>
              /\ half' = IF build'[b].left = {} THEN half \ {RootOf[b]} ELSE half
<1>t. RootOf[b] \in Roots /\ build[b].left \in SUBSET Files
  BY BuildTypes
<1>1. PICK f \in build[b].left :
         /\ f = Entry => build[b].left = {Entry}
         /\ dist' = [dist EXCEPT ![RootOf[b]][f] = build[b].gen]
         /\ build' = [build EXCEPT ![b].left = @ \ {f}]
         /\ UNCHANGED <<source, pc, launch, found>>
         /\ half' = IF build'[b].left = {} THEN half \ {RootOf[b]} ELSE half
  BY DEF PublishFile
<1>2. dist[RootOf[b]] \in [Files -> Gens] /\ dist \in [Roots -> Keys]
  BY <1>t DEF TypeInv, TypeOK, Keys
<1>3. \A g \in Files : dist'[RootOf[b]][g] = IF g = f THEN build[b].gen ELSE dist[RootOf[b]][g]
  BY <1>1, <1>2, <1>t
<1>4. \A r \in Roots : r # RootOf[b] => dist'[r] = dist[r]
  BY <1>1, <1>2
<1>5. /\ \A c \in Builders : build'[c].gen = build[c].gen
      /\ build'[b].left = build[b].left \ {f}
      /\ \A c \in Builders \ {b} : build'[c] = build[c]
  BY <1>1 DEF TypeInv, TypeOK, Builds
<1> QED BY <1>1, <1>3, <1>4, <1>5

(* What an outcome of the other steps of a build is. *)
LEMMA BuildEffect ==
    ASSUME TypeInv, NEW b \in Builders, BuilderNext(b), ~ PublishFile(b)
    PROVE  /\ UNCHANGED <<dist, source, launch, found>> /\ half \subseteq half'
           /\ \A c \in Builders \ {b} : build'[c] = build[c] /\ pc'[c] = pc[c]
           /\ build'[b].gen \in {build[b].gen, source[RootOf[b]]}
           /\ pc'[b] = "publish" => /\ pc[b] = "check"
                                    /\ build'[b].gen = build[b].gen /\ build[b].gen = source[RootOf[b]]
                                    /\ build'[b].left = Files
           /\ pc[b] = "publish" => /\ pc'[b] = "gone"
                                   /\ build[b].left = {} \/ build[b].left = Files \/ RootOf[b] \in half'
<1>t. /\ b \in Procs /\ build \in [Builders -> Builds] /\ pc \in [Procs -> BuilderLabels \cup LauncherLabels]
      /\ Builders \subseteq Procs
  BY BuildTypes DEF TypeInv, TypeOK, Procs
<1>1. CASE Capture(b)
  BY <1>1, <1>t DEF Capture, Go, Builds
<1>2. CASE Compile(b)
  BY <1>2, <1>t DEF Compile, Refuse, Go, Builds
<1>3. CASE BuilderGate(b)
  BY <1>3, <1>t DEF BuilderGate, Go
<1>4. CASE CheckGeneration(b)
  BY <1>4, <1>t DEF CheckGeneration, Refuse, Go, Builds
<1>5. CASE Published(b)
  BY <1>5, <1>t DEF Published, Go
<1>6. CASE BuilderEnds(b)
  BY <1>6, <1>t DEF BuilderEnds, Go
<1> QED BY <1>1, <1>2, <1>3, <1>4, <1>5, <1>6 DEF BuilderNext

LEMMA StepOrder == ASSUME TypeInv, GateInv, OrderInv, [Next]_vars PROVE OrderInv'
<1>1. ASSUME NEW r \in Roots, SourceChanges(r) PROVE OrderInv'
  <2>1. /\ UNCHANGED <<dist, build, pc>> /\ \A q \in Roots : source'[q] \in {source[q], source[q] + 1}
    BY <1>1 DEF SourceChanges, TypeInv, TypeOK
  <2>2. \A q \in Roots, f \in Files : dist'[q][f] <= source'[q]
    <3> TAKE q \in Roots, f \in Files
    <3>1. source[q] \in Gens /\ dist[q] \in [Files -> Gens] /\ dist[q][f] <= source[q]
      BY DEF TypeInv, TypeOK, Keys, OrderInv
    <3>2. source[q] \in Nat /\ dist[q][f] \in Nat
      BY <3>1, GensAreNumbers
    <3>3. dist'[q][f] = dist[q][f] /\ (source'[q] = source[q] \/ source'[q] = source[q] + 1)
      BY <2>1
    <3> QED BY <3>1, <3>2, <3>3
  <2>3. \A b \in Builders : /\ build'[b].gen <= source'[RootOf[b]]
                            /\ pc'[b] = "publish" => \A f \in Files : dist'[RootOf[b]][f] <= build'[b].gen
    <3> TAKE b \in Builders
    <3>1. build[b].gen \in Nat /\ source[RootOf[b]] \in Nat /\ RootOf[b] \in Roots
      BY BuildTypes
    <3> QED BY <2>1, <3>1 DEF OrderInv
  <2> QED BY <2>2, <2>3 DEF OrderInv
<1>2. CASE UNCHANGED vars
  BY <1>2 DEF vars, OrderInv
<1>3. ASSUME NEW l \in Launchers, LauncherNext(l) PROVE OrderInv'
  <2>1. UNCHANGED <<source, dist, build>> /\ \A b \in Builders : pc'[b] = pc[b]
    BY <1>3, LauncherFrame
  <2> QED BY <2>1 DEF OrderInv
<1>4. ASSUME NEW b \in Builders, PublishFile(b) PROVE OrderInv'
  <2>1. PICK f \in build[b].left :
              /\ \A r \in Roots : r # RootOf[b] => dist'[r] = dist[r]
              /\ \A g \in Files : dist'[RootOf[b]][g] = IF g = f THEN build[b].gen ELSE dist[RootOf[b]][g]
              /\ \A c \in Builders : build'[c].gen = build[c].gen
              /\ UNCHANGED <<source, pc>>
    BY <1>4, PublishEffect
  <2>2. pc[b] = "publish" /\ RootOf[b] \in Roots /\ build[b].gen \in Nat
    BY <1>4, BuildTypes DEF PublishFile
  <2>3. \A r \in Roots, g \in Files : dist'[r][g] <= source'[r]
    BY <2>1, <2>2 DEF OrderInv
  <2>4. ASSUME NEW c \in Builders, pc[c] = "publish", NEW g \in Files
        PROVE  dist'[RootOf[c]][g] <= build[c].gen
    <3>1. gate[RootOf[c]] = c /\ gate[RootOf[b]] = b /\ RootOf[c] \in Roots
      BY <2>2, <2>4, BuildTypes DEF GateInv, Gated
    <3>2. CASE c = b
      BY <3>2, <2>1, <2>2 DEF OrderInv
    <3>3. CASE c # b
      BY <3>1, <3>3, <2>1, <2>4 DEF OrderInv
    <3> QED BY <3>2, <3>3
  <2> QED BY <2>1, <2>3, <2>4 DEF OrderInv
<1>5. ASSUME NEW b \in Builders, BuilderNext(b), ~ PublishFile(b) PROVE OrderInv'
  <2>1. /\ UNCHANGED <<dist, source>>
        /\ \A c \in Builders \ {b} : build'[c] = build[c] /\ pc'[c] = pc[c]
        /\ build'[b].gen \in {build[b].gen, source[RootOf[b]]}
        /\ pc'[b] = "publish" => build'[b].gen = build[b].gen /\ build[b].gen = source[RootOf[b]]
    BY <1>5, BuildEffect
  <2>2. RootOf[b] \in Roots /\ source[RootOf[b]] \in Nat
    BY BuildTypes
  <2> QED BY <2>1, <2>2 DEF OrderInv
<1> QED BY <1>1, <1>2, <1>3, <1>4, <1>5 DEF Next

LEMMA InitOrder == Init => OrderInv
<1> SUFFICES ASSUME Init PROVE OrderInv
  OBVIOUS
<1>1. \A r \in Roots : Before[r] \in Nat
  BY BeforeAssumption, GensAreNumbers
<1>2. \A b \in Builders : RootOf[b] \in Roots /\ pc[b] = "off" /\ build[b].gen = 0
  BY InitFacts, ProcAssumption DEF Procs
<1> QED BY <1>1, <1>2, InitFacts DEF OrderInv

(* build.mjs: no published file is ever replaced by an older one, whatever    *)
(* builds run, whatever the sources do meanwhile, and whoever dies.           *)
THEOREM NeverRolledBack == Spec => NoRollback
<1> DEFINE I == TypeInv /\ GateInv /\ LockInv /\ OrderInv
<1>1. Init => I
  BY InitType, InitGates, InitOrder
<1>2. I /\ [Next]_vars => I'
  BY StepType, StepGates, StepOrder
<1>3. I /\ [Next]_vars => [\A r \in Roots, f \in Files : dist'[r][f] >= dist[r][f]]_dist
  <2> SUFFICES ASSUME I, [Next]_vars, dist' # dist, NEW r \in Roots, NEW f \in Files
               PROVE  dist'[r][f] >= dist[r][f]
    OBVIOUS
  <2>1. PICK b \in Builders : PublishFile(b)
    BY LauncherFrame, BuildEffect DEF Next, SourceChanges, vars
  <2>2. dist[r][f] \in Nat /\ build[b].gen \in Nat /\ RootOf[b] \in Roots
    BY BuildTypes
  <2>3. dist[RootOf[b]][f] <= build[b].gen
    BY <2>1 DEF OrderInv, PublishFile
  <2>4. dist'[r][f] = dist[r][f] \/ (r = RootOf[b] /\ dist'[r][f] = build[b].gen)
    BY <2>1, PublishEffect
  <2> QED BY <2>2, <2>3, <2>4
<1> HIDE DEF I
<1>4. Spec => []I
  BY <1>1, <1>2, PTL DEF Spec
<1> QED BY <1>3, <1>4, PTL DEF Spec, NoRollback
-----------------------------------------------------------------------------
(* One generation: dist/ is a mixture only while somebody publishes.       *)

Uniform(tree) == \A f, g \in Files : tree[f] = tree[g]

WholeInv ==
    /\ \A b \in Builders :
          pc[b] = "publish" =>
             /\ \A f \in Files \ build[b].left : dist[RootOf[b]][f] = build[b].gen
             /\ build[b].left = Files /\ RootOf[b] \notin half => Uniform(dist[RootOf[b]])
    /\ \A r \in Roots \ half : (\A b \in Builders : pc[b] = "publish" => RootOf[b] # r) => Uniform(dist[r])
    /\ \A l \in Launchers : launch[l].key # None /\ ~ found[l].mixed => Uniform(launch[l].key)

LEMMA BuilderWhole ==
    ASSUME TypeInv, GateInv, WholeInv, NEW b \in Builders, BuilderNext(b)
    PROVE  WholeInv'
<1>t. /\ RootOf[b] \in Roots /\ b \in Procs /\ build[b].left \in SUBSET Files
      /\ Builders \subseteq Procs
  BY BuildTypes DEF Procs
<1>p. \A c \in Builders : pc[c] = "publish" => gate[RootOf[c]] = c
  BY <1>t DEF GateInv, Gated
<1>1. CASE PublishFile(b)
  <2>1. PICK f \in build[b].left :
              /\ \A r \in Roots : r # RootOf[b] => dist'[r] = dist[r]
              /\ \A g \in Files : dist'[RootOf[b]][g] = IF g = f THEN build[b].gen ELSE dist[RootOf[b]][g]
              /\ \A c \in Builders : build'[c].gen = build[c].gen
              /\ build'[b].left = build[b].left \ {f}
              /\ \A c \in Builders \ {b} : build'[c] = build[c]
              /\ UNCHANGED <<pc, launch, found>>
              /\ half' = IF build'[b].left = {} THEN half \ {RootOf[b]} ELSE half
    BY <1>1, PublishEffect
  <2>2. pc[b] = "publish"
    BY <1>1 DEF PublishFile
  <2>3. ASSUME NEW c \in Builders, pc[c] = "publish"
        PROVE  /\ \A g \in Files \ build'[c].left : dist'[RootOf[c]][g] = build'[c].gen
               /\ build'[c].left = Files /\ RootOf[c] \notin half' => Uniform(dist'[RootOf[c]])
    <3>1. CASE c = b
      BY <3>1, <2>1, <2>2, <1>t DEF WholeInv
    <3>2. CASE c # b
      <4>1. RootOf[c] # RootOf[b] /\ RootOf[c] \in Roots
        BY <3>2, <2>2, <2>3, <1>p, BuildTypes
      <4> QED BY <3>2, <4>1, <2>1, <2>3 DEF WholeInv
    <3> QED BY <3>1, <3>2
  <2>4. ASSUME NEW r \in Roots \ half', \A c \in Builders : pc[c] = "publish" => RootOf[c] # r
        PROVE  Uniform(dist'[r])
    BY <2>1, <2>2, <2>4 DEF WholeInv
  <2> QED BY <2>1, <2>3, <2>4 DEF WholeInv
<1>2. CASE ~ PublishFile(b)
  <2>1. /\ UNCHANGED <<dist, launch, found>> /\ half \subseteq half'
        /\ \A c \in Builders \ {b} : build'[c] = build[c] /\ pc'[c] = pc[c]
        /\ pc'[b] = "publish" => pc[b] = "check" /\ build'[b].left = Files
        /\ pc[b] = "publish" => pc'[b] = "gone" /\ (build[b].left = {} \/ build[b].left = Files \/ RootOf[b] \in half')
    BY <1>2, BuildEffect
  <2>2. (pc[b] = "publish" \/ pc[b] = "check") /\ RootOf[b] \notin half' => Uniform(dist[RootOf[b]])
    <3> HAVE (pc[b] = "publish" \/ pc[b] = "check") /\ RootOf[b] \notin half'
    <3>0. RootOf[b] \notin half
      BY <2>1
    <3>1. CASE pc[b] = "publish"
      <4>1. CASE build[b].left = Files
        BY <3>1, <4>1, <3>0 DEF WholeInv
      <4>2. CASE build[b].left = {}
        BY <3>1, <4>2 DEF WholeInv, Uniform
      <4> QED BY <3>1, <2>1, <4>1, <4>2
    <3>2. CASE pc[b] = "check"
      <4>1. gate[RootOf[b]] = b
        BY <3>2, <1>t DEF GateInv, Gated
      <4>2. \A c \in Builders : pc[c] = "publish" => RootOf[c] # RootOf[b]
        BY <3>2, <4>1, <1>p
      <4> QED BY <4>2, <3>0, <1>t DEF WholeInv
    <3> QED BY <3>1, <3>2
  <2>3. ASSUME NEW c \in Builders, pc'[c] = "publish"
        PROVE  /\ \A f \in Files \ build'[c].left : dist'[RootOf[c]][f] = build'[c].gen
               /\ build'[c].left = Files /\ RootOf[c] \notin half' => Uniform(dist'[RootOf[c]])
    <3>1. CASE c = b
      BY <3>1, <2>1, <2>2, <2>3
    <3>2. CASE c # b
      BY <3>2, <2>1, <2>3 DEF WholeInv
    <3> QED BY <3>1, <3>2
  <2>4. ASSUME NEW r \in Roots \ half', \A c \in Builders : pc'[c] = "publish" => RootOf[c] # r
        PROVE  Uniform(dist'[r])
    <3>1. CASE pc[b] = "publish" /\ RootOf[b] = r
      BY <3>1, <2>1, <2>2
    <3>2. CASE ~ (pc[b] = "publish" /\ RootOf[b] = r)
      BY <3>2, <2>1, <2>4 DEF WholeInv
    <3> QED BY <3>1, <3>2
  <2> QED BY <2>1, <2>3, <2>4 DEF WholeInv
<1> QED BY <1>1, <1>2

(* Only the hash sets a key, and with it what the key is worth. *)
LEMMA KeyEffect ==
    ASSUME TypeInv, NEW l \in Launchers, LauncherNext(l)
    PROVE  \/ launch'[l].key = launch[l].key /\ found'[l].mixed = found[l].mixed
           \/ /\ pc[l] = "hash" /\ launch'[l].key = dist[RootOf[l]]
              /\ found'[l].mixed = (RootOf[l] \in half)
<1>t. /\ launch \in [Launchers -> Launches]
      /\ found \in [Launchers -> [mixed : BOOLEAN, complete : BOOLEAN, cut : BOOLEAN,
                                  files : [Files -> Gens \cup {None}]]]
  BY DEF TypeInv, TypeOK
<1>1. CASE launch' = launch /\ found' = found
  BY <1>1
<1>2. CASE HashRuntime(l)
  BY <1>2, <1>t DEF HashRuntime, Launches
<1>3. CASE Start(l) \/ WriteLease(l)
  BY <1>3, <1>t DEF Start, WriteLease, Launches
<1>4. CASE Examine(l)
  BY <1>4, <1>t DEF Examine, Launches
<1>5. CASE RemovePart(l) \/ Look(l)
  BY <1>5, <1>t DEF RemovePart, Look, Launches
<1>6. CASE Throw(l) \/ ThrowOutside(l) \/ GiveUp(l)
  BY <1>6, <1>t DEF Throw, ThrowOutside, GiveUp, Launches
<1>7. CASE RemovalFails(l) \/ Crash(l)
  BY <1>7, <1>t DEF RemovalFails, Crash, Launches
<1> QED
  BY <1>1, <1>2, <1>3, <1>4, <1>5, <1>6, <1>7 DEF LauncherNext, Swept, LauncherGate, AcquireLock, Cleared, MakeStaging,
     WriteOwner, CopyFile, WriteMarker, RemoveOwner, Rename, ReleaseLock, LauncherLeaves, Exit

LEMMA LauncherWhole ==
    ASSUME TypeInv, GateInv, WholeInv, NEW l \in Launchers, LauncherNext(l)
    PROVE  WholeInv'
<1>1. /\ UNCHANGED <<dist, build, half>> /\ \A b \in Builders : pc'[b] = pc[b]
      /\ \A m \in Launchers \ {l} : launch'[m] = launch[m] /\ found'[m] = found[m]
      /\ l \in Procs /\ RootOf[l] \in Roots
  BY LauncherFrame
<1>2. pc[l] = "hash" /\ RootOf[l] \notin half => Uniform(dist[RootOf[l]])
  <2> SUFFICES ASSUME pc[l] = "hash", RootOf[l] \notin half PROVE \A b \in Builders : pc[b] = "publish" => RootOf[b] # RootOf[l]
    BY <1>1 DEF WholeInv
  <2>1. gate[RootOf[l]] = l
    BY <1>1 DEF GateInv, Gated
  <2>2. \A b \in Builders : b \in Procs /\ b # l
    BY ProcAssumption DEF Procs
  <2> QED BY <2>1, <2>2 DEF GateInv, Gated
<1>3. launch'[l].key # None /\ ~ found'[l].mixed => Uniform(launch'[l].key)
  BY <1>2, KeyEffect DEF WholeInv
<1> QED BY <1>1, <1>3 DEF WholeInv

LEMMA StepWhole ==
    ASSUME TypeInv, GateInv, WholeInv, [Next]_vars
    PROVE  WholeInv'
<1>1. ASSUME NEW r \in Roots, SourceChanges(r) PROVE WholeInv'
  BY <1>1 DEF SourceChanges, WholeInv
<1>2. CASE UNCHANGED vars
  BY <1>2 DEF vars, WholeInv
<1> QED BY <1>1, <1>2, BuilderWhole, LauncherWhole DEF Next

LEMMA InitWhole == Init => WholeInv
<1> SUFFICES ASSUME Init PROVE WholeInv
  OBVIOUS
<1> QED BY InitFacts, ProcAssumption DEF WholeInv, Uniform, Procs

(* runtime-snapshot.mjs: no process runs a half-published build, whatever     *)
(* builds and launches run, fail or die, unless the last publication that its *)
(* hash could see had stopped half way.                                       *)
THEOREM OneBuildRuns == Spec => []OneGeneration
<1> DEFINE I == TypeInv /\ GateInv /\ LockInv /\ WholeInv
<1>1. Init => I
  BY InitType, InitGates, InitWhole
<1>2. I /\ [Next]_vars => I'
  BY StepType, StepGates, StepWhole
<1>3. I => OneGeneration
  <2> SUFFICES ASSUME I, NEW l \in Running, ~ found[l].mixed PROVE Uniform(launch[l].key)
    BY DEF OneGeneration, Uniform
  <2>1. launch[l].key \in Keys
    BY DEF TypeInv, Keyed, Running
  <2> QED BY <2>1, NoneAssumption DEF WholeInv, Running
<1> HIDE DEF I
<1> QED BY <1>1, <1>2, <1>3, PTL DEF Spec
-----------------------------------------------------------------------------
(* Trees: what is leased complete stays, and is the build unless a removal *)
(* has left a part of it.                                                  *)

Copy(k) == <<"build", k>>

LEMMA PathFacts ==
    /\ \A q \in Launchers : Tmp(q) \in Paths /\ \A m \in Launchers : Tmp(q) = Tmp(m) => q = m
    /\ \A k \in Keys : Copy(k) \in Paths /\ \A j \in Keys : Copy(k) = Copy(j) => k = j
    /\ \A q \in Launchers, k \in Keys : Tmp(q) # Copy(k)
    /\ \A q \in Launchers : Shared(q) = Copy(launch[q].key)
    /\ \A d \in Paths : \/ (d[1] = "tmp" /\ \E q \in Launchers : d[2] = q /\ d = Tmp(q))
                       \/ (d[1] = "build" /\ \E k \in Keys : d = Copy(k))
    /\ \A k \in Keys : Copy(k)[1] = "build" /\ Copy(k)[2] = k
<1>1. \A q \in Launchers : Tmp(q) \in Paths /\ \A m \in Launchers : Tmp(q) = Tmp(m) => q = m
  BY DEF Tmp, Paths
<1>2. \A k \in Keys : Copy(k) \in Paths /\ \A j \in Keys : Copy(k) = Copy(j) => k = j
  BY DEF Copy, Paths
<1>3. \A q \in Launchers, k \in Keys : Tmp(q) # Copy(k)
  BY DEF Tmp, Copy
<1>4. \A q \in Launchers : Shared(q) = Copy(launch[q].key)
  BY DEF Shared, Copy
<1>5. ASSUME NEW d \in Paths
      PROVE  \/ (d[1] = "tmp" /\ \E q \in Launchers : d[2] = q /\ d = Tmp(q))
             \/ (d[1] = "build" /\ \E k \in Keys : d = Copy(k))
  <2>1. CASE \E q \in Launchers : d = <<"tmp", q>>
    BY <2>1 DEF Tmp
  <2>2. CASE \E k \in Keys : d = <<"build", k>>
    BY <2>2 DEF Copy
  <2> QED BY <2>1, <2>2 DEF Paths
<1>6. \A k \in Keys : Copy(k)[1] = "build" /\ Copy(k)[2] = k
  BY DEF Copy
<1> QED BY <1>1, <1>2, <1>3, <1>4, <1>5, <1>6

\* From the hash to the copy, the key is what dist/ holds.
CopyInv ==
    \A l \in Launchers :
       pc[l] \in {"lock", "look", "clear", "stage", "own", "copy", "disown", "rename"} => launch[l].key = dist[RootOf[l]]

\* No removal is at work on a tree or has left a part of it.
Clean(d) == d \notin cut /\ \A m \in Launchers : launch[m].victim # d

\* Running from a tree whose marker it found.
Held(l) == l \in Running /\ found[l].complete

StageOK(l) ==
    /\ pc[l] \in {"own", "copy"} /\ Staged(l) => \A f \in Files : dir[Tmp(l)].files[f] \in {None, launch[l].key[f]}
    /\ pc[l] \in {"disown", "rename"} /\ Staged(l) /\ Clean(Tmp(l))
          => dir[Tmp(l)].files = launch[l].key /\ dir[Tmp(l)].marker
    /\ pc[l] = "unstage" => launch[l].failed
StageInv == \A l \in Launchers : StageOK(l)

\* A shared tree is removed under the snapshot lock, and not from under a run.
VictimOK(l) ==
    launch[l].victim # None =>
       /\ pc[l] \in {"sweep", "reap", "clear", "unstage"}
       /\ \A k \in Keys :
             launch[l].victim = Copy(k) => /\ pc[l] \in {"reap", "clear"}
                                           /\ \A m \in Launchers : Held(m) => launch[m].key # k
VictimInv == \A l \in Launchers : VictimOK(l)

TreeInv ==
    \A k \in Keys : dir[Copy(k)] # None /\ Clean(Copy(k)) => dir[Copy(k)].marker /\ dir[Copy(k)].files = k

HoldOK(l) ==
    /\ pc[l] = "lease" => dir[Shared(l)] # None
    /\ Held(l) => /\ dir[Shared(l)] # None /\ dir[Shared(l)].marker
                  /\ dir[Shared(l)].files = found[l].files
                  /\ l \in dir[Shared(l)].leases
    /\ l \in Running /\ ~ found[l].cut => found[l].complete /\ found[l].files = launch[l].key
HoldInv == \A l \in Launchers : HoldOK(l)

SnapInv == StageInv /\ VictimInv /\ TreeInv /\ HoldInv

LEMMA SnapTypes ==
    ASSUME TypeInv, NEW l \in Launchers
    PROVE  /\ l \in Procs /\ launch[l] \in Launches /\ RootOf[l] \in Roots
           /\ pc[l] \in BuilderLabels \cup LauncherLabels
           /\ \A d \in Paths : dir[d] # None => dir[d] \in Trees
           /\ l \in Running \/ pc[l] = "lease" => launch[l].key \in Keys
           /\ pc[l] \in {"own", "copy", "disown", "rename"} => launch[l].key \in Keys
<1>1. l \in Procs /\ RootOf[l] \in Roots
  BY ProcAssumption DEF Procs
<1> QED BY <1>1 DEF TypeInv, TypeOK, Keyed, Running

(* Whoever is at work under the snapshot lock, nobody else removes a shared tree. *)
LEMMA NoBuildVictim ==
    ASSUME TypeInv, LockInv, SnapInv, NEW l \in Launchers, pc[l] \in Locked \ {"reap", "clear"}
    PROVE  \A m \in Launchers, k \in Keys : launch[m].victim # Copy(k)
<1> SUFFICES ASSUME NEW m \in Launchers, NEW k \in Keys, launch[m].victim = Copy(k) PROVE FALSE
  OBVIOUS
<1>1. pc[m] \in {"reap", "clear"}
  BY PathFacts, NoneAssumption DEF SnapInv, VictimInv, VictimOK
<1>2. lock = m /\ lock = l
  BY <1>1 DEF LockInv, Locked
<1> QED BY <1>1, <1>2

(* A step of l that touches its own staging, and of other trees no more than *)
(* leases that are not of the living, and makes no tree clean.               *)
LEMMA TreesKeep ==
    ASSUME TypeInv, SnapInv, NEW l \in Launchers,
           \A m \in Launchers \ {l} : pc'[m] = pc[m] /\ launch'[m] = launch[m] /\ found'[m] = found[m],
           \A d \in Paths \ {Tmp(l)} :
              \/ dir'[d] = dir[d]
              \/ /\ dir[d] # None /\ dir'[d] # None
                 /\ dir'[d].files = dir[d].files /\ dir'[d].marker = dir[d].marker
                 /\ \A m \in Launchers \ {l} : m \in dir[d].leases /\ pc[m] # "gone" => m \in dir'[d].leases,
           \A d \in Paths \ {Tmp(l)} : dir'[d] # None /\ Clean(d)' => Clean(d),
           Held(l)' => /\ launch'[l].key = launch[l].key
                       /\ Held(l) \/ \A m \in Launchers : launch[m].victim # Shared(l),
           StageOK(l)', VictimOK(l)', HoldOK(l)'
    PROVE  SnapInv'
<1>1. StageInv'
  <2> SUFFICES ASSUME NEW m \in Launchers, m # l PROVE StageOK(m)'
    BY DEF StageInv
  <2>1. /\ Tmp(m) \in Paths \ {Tmp(l)} /\ pc'[m] = pc[m] /\ launch'[m] = launch[m] /\ StageOK(m)
        /\ Tmp(m)' = Tmp(m)
    BY PathFacts DEF SnapInv, StageInv, Tmp
  <2>2. /\ dir'[Tmp(m)] # None <=> dir[Tmp(m)] # None
        /\ dir[Tmp(m)] # None => /\ dir'[Tmp(m)].files = dir[Tmp(m)].files
                                 /\ dir'[Tmp(m)].marker = dir[Tmp(m)].marker
    BY <2>1
  <2>3. Clean(Tmp(m))' /\ dir'[Tmp(m)] # None => Clean(Tmp(m))
    BY <2>1
  <2> QED BY <2>1, <2>2, <2>3 DEF StageOK, Staged
<1>2. VictimInv'
  <2> SUFFICES ASSUME NEW m \in Launchers, m # l, launch[m].victim # None PROVE VictimOK(m)'
    BY DEF VictimInv, VictimOK
  <2>1. pc[m] = pc'[m] /\ launch'[m] = launch[m] /\ VictimOK(m)
    BY DEF SnapInv, VictimInv
  <2>2. ASSUME NEW k \in Keys, launch[m].victim = Copy(k), NEW i \in Launchers, Held(i)'
        PROVE  launch'[i].key # k
    <3>1. CASE i = l
      BY <2>1, <2>2, <3>1, PathFacts DEF VictimOK
    <3>2. CASE i # l
      BY <2>1, <2>2, <3>2 DEF Held, Running, VictimOK
    <3> QED BY <3>1, <3>2
  <2> QED BY <2>1, <2>2 DEF VictimOK, Copy
<1>3. TreeInv'
  <2> SUFFICES ASSUME NEW k \in Keys, dir'[Copy(k)] # None, Clean(Copy(k))'
               PROVE  dir'[Copy(k)].marker /\ dir'[Copy(k)].files = k
    BY DEF TreeInv, Copy
  <2>1. Copy(k) \in Paths \ {Tmp(l)}
    BY PathFacts
  <2>2. Clean(Copy(k)) /\ dir[Copy(k)] # None
    BY <2>1
  <2> QED BY <2>1, <2>2 DEF SnapInv, TreeInv
<1>4. HoldInv'
  <2> SUFFICES ASSUME NEW m \in Launchers, m # l PROVE HoldOK(m)'
    BY DEF HoldInv
  <2>1. HoldOK(m) /\ launch'[m] = launch[m] /\ pc'[m] = pc[m] /\ found'[m] = found[m] /\ Shared(m)' = Shared(m)
    BY DEF SnapInv, HoldInv, Shared
  <2>2. (m \in Running)' <=> m \in Running
    BY <2>1 DEF Running
  <2>3. m \in Running \/ pc[m] = "lease" => Shared(m) \in Paths \ {Tmp(l)}
    BY SnapTypes, PathFacts
  <2>4. m \in Running => pc[m] # "gone"
    BY DEF Running
  <2> QED BY <2>1, <2>2, <2>3, <2>4 DEF HoldOK, Held
<1> QED BY <1>1, <1>2, <1>3, <1>4 DEF SnapInv

(* Where l removes nothing, a step that leaves the marks of unfinished        *)
(* removals alone, or drops none, makes no tree clean.                        *)
LEMMA NotCleaned ==
    ASSUME NEW l \in Launchers, \A m \in Launchers \ {l} : launch'[m] = launch[m], cut \subseteq cut',
           \/ launch'[l].victim = launch[l].victim
           \/ launch[l].victim = None
           \/ Unfinished(l) \subseteq cut' /\ dir' = dir
    PROVE  \A d \in Paths : dir'[d] # None /\ Clean(d)' => Clean(d)
<1> SUFFICES ASSUME NEW d \in Paths, dir'[d] # None, Clean(d)' PROVE Clean(d)
  OBVIOUS
<1>1. d \notin cut /\ d # None
  BY NoneAssumption DEF Clean
<1>2. \A m \in Launchers \ {l} : launch[m].victim # d
  BY DEF Clean
<1>3. launch[l].victim # d
  BY <1>1 DEF Clean, Unfinished
<1> QED BY <1>1, <1>2, <1>3 DEF Clean

(* The steps that only move on: sweeps and locks, errors and kills. *)
LEMMA QuietSteps ==
    ASSUME TypeInv, LockInv, SnapInv, NEW l \in Launchers,
           \/ Start(l) \/ Swept(l) \/ LauncherGate(l) \/ HashRuntime(l) \/ AcquireLock(l) \/ Cleared(l)
           \/ ThrowOutside(l) \/ GiveUp(l) \/ ReleaseLock(l) \/ LauncherLeaves(l) \/ Crash(l) \/ RemovalFails(l)
    PROVE  SnapInv'
<1>f. /\ l \in Procs /\ LauncherNext(l)
      /\ \A m \in Launchers \ {l} : pc'[m] = pc[m] /\ launch'[m] = launch[m] /\ found'[m] = found[m]
  BY LauncherFrame, ProcAssumption DEF LauncherNext, Procs
<1>t. pc \in [Procs -> BuilderLabels \cup LauncherLabels] /\ launch \in [Launchers -> Launches]
  BY DEF TypeInv, TypeOK
<1>s. StageOK(l) /\ VictimOK(l) /\ HoldOK(l)
  BY DEF SnapInv, StageInv, VictimInv, HoldInv
<1>1. dir' = dir /\ cut \subseteq cut'
  BY DEF Start, Swept, LauncherGate, HashRuntime, AcquireLock, Cleared, ThrowOutside, GiveUp, ReleaseLock,
     LauncherLeaves, Crash, RemovalFails
<1>2. /\ launch'[l].victim = None
      /\ launch[l].victim = None \/ Unfinished(l) \subseteq cut'
  <2>1. CASE Crash(l) \/ RemovalFails(l)
    BY <2>1, <1>t DEF Crash, RemovalFails, Launches
  <2>2. CASE Swept(l) \/ Cleared(l)
    BY <2>2 DEF Swept, Cleared, Idle
  <2>3. CASE \/ Start(l) \/ LauncherGate(l) \/ HashRuntime(l) \/ AcquireLock(l)
             \/ ThrowOutside(l) \/ GiveUp(l) \/ ReleaseLock(l) \/ LauncherLeaves(l)
    BY <2>3, <1>t, <1>s DEF Start, LauncherGate, HashRuntime, AcquireLock, ThrowOutside, GiveUp, ReleaseLock,
       LauncherLeaves, VictimOK, Launches
  <2> QED BY <2>1, <2>2, <2>3
<1>3. pc'[l] \notin {"own", "copy", "disown", "rename"} /\ (pc'[l] = "unstage" => pc[l] = "unstage" /\ RemovalFails(l))
  <2>1. CASE RemovalFails(l)
    BY <2>1, <1>s DEF RemovalFails, VictimOK, Idle
  <2>2. CASE \/ Start(l) \/ Swept(l) \/ LauncherGate(l) \/ HashRuntime(l) \/ AcquireLock(l) \/ Cleared(l)
             \/ ThrowOutside(l) \/ GiveUp(l) \/ ReleaseLock(l) \/ LauncherLeaves(l) \/ Crash(l)
    BY <2>2, <1>f, <1>t DEF Start, Swept, LauncherGate, HashRuntime, AcquireLock, Cleared, ThrowOutside, GiveUp,
       ReleaseLock, LauncherLeaves, Crash, Go
  <2> QED BY <2>1, <2>2
<1>4. /\ pc'[l] = "lease" => FALSE
      /\ (l \in Running)' => /\ l \in Running /\ launch'[l].key = launch[l].key
                             /\ found'[l] = found[l]
  <2>1. CASE Start(l) \/ LauncherGate(l) \/ HashRuntime(l) \/ AcquireLock(l) \/ Crash(l)
    BY <2>1, <1>f, <1>t DEF Start, LauncherGate, HashRuntime, AcquireLock, Crash, Go, Running
  <2>2. CASE Swept(l) \/ Cleared(l) \/ ReleaseLock(l) \/ LauncherLeaves(l)
    BY <2>2, <1>f, <1>t, <1>s DEF Swept, Cleared, ReleaseLock, LauncherLeaves, Go, StageOK, Running
  <2>3. CASE ThrowOutside(l) \/ GiveUp(l)
    BY <2>3, <1>f, <1>t DEF ThrowOutside, GiveUp, Go, Running, Launches
  <2>4. CASE RemovalFails(l)
    BY <2>4, <1>f, <1>t, <1>s DEF RemovalFails, Idle, VictimOK, Running, Launches
  <2> QED BY <2>1, <2>2, <2>3, <2>4
<1>5. StageOK(l)'
  <2>1. pc'[l] = "unstage" => launch'[l].failed
    BY <1>3, <1>s, <1>t DEF RemovalFails, StageOK, Launches
  <2> QED BY <1>3, <2>1 DEF StageOK
<1>6. VictimOK(l)' /\ HoldOK(l)'
  <2>1. (l \in Running)' => Shared(l)' = Shared(l)
    BY <1>4 DEF Shared
  <2> QED BY <1>1, <1>2, <1>4, <1>s, <2>1 DEF VictimOK, HoldOK, Held
<1>7. Held(l)' => Held(l) /\ launch'[l].key = launch[l].key
  BY <1>4 DEF Held
<1>8. \A d \in Paths : dir'[d] # None /\ Clean(d)' => Clean(d)
  BY <1>f, <1>1, <1>2, NotCleaned
<1> QED BY <1>f, <1>1, <1>5, <1>6, <1>7, <1>8, TreesKeep

(* The steps on a staging directory. *)
LEMMA StagingSteps ==
    ASSUME TypeInv, LockInv, CopyInv, SnapInv, NEW l \in Launchers,
           \/ MakeStaging(l) \/ WriteOwner(l) \/ CopyFile(l) \/ WriteMarker(l) \/ RemoveOwner(l)
    PROVE  SnapInv'
<1>f. /\ l \in Procs /\ LauncherNext(l)
      /\ \A m \in Launchers \ {l} : pc'[m] = pc[m]
  BY LauncherFrame, ProcAssumption DEF LauncherNext, Procs
<1>t. /\ pc \in [Procs -> BuilderLabels \cup LauncherLabels] /\ dir \in [Paths -> Trees \cup {None}]
      /\ Tmp(l) \in Paths
  BY PathFacts DEF TypeInv, TypeOK
<1>1. launch' = launch /\ cut' = cut /\ found' = found /\ \A d \in Paths \ {Tmp(l)} : dir'[d] = dir[d]
  BY <1>t DEF MakeStaging, WriteOwner, CopyFile, WriteMarker, RemoveOwner
<1>2. pc[l] \in {"stage", "own", "copy", "disown"} /\ pc'[l] \in {"own", "copy", "disown", "rename"}
  BY <1>f, <1>t DEF MakeStaging, WriteOwner, CopyFile, WriteMarker, RemoveOwner, Go
<1>s. StageOK(l)
  BY DEF SnapInv, StageInv
<1>c. Clean(Tmp(l))' <=> Clean(Tmp(l))
  BY <1>1 DEF Clean, Tmp
<1>3. StageOK(l)'
  <2>1. CASE MakeStaging(l)
    BY <2>1, <1>f, <1>t DEF MakeStaging, Go, StageOK, NewTree, Tmp
  <2>2. CASE WriteOwner(l)
    <3>1. pc'[l] = "copy" /\ pc[l] = "own" /\ dir[Tmp(l)] \in Trees /\ Staged(l)
      BY <2>2, <1>f, <1>t DEF WriteOwner, Go, Staged
    <3>2. dir'[Tmp(l)].files = dir[Tmp(l)].files
      BY <2>2, <3>1, <1>t DEF WriteOwner, Trees
    <3> QED BY <1>s, <1>1, <3>1, <3>2 DEF StageOK, Tmp
  <2>3. CASE CopyFile(l)
    <3>1. PICK f \in Files : dir' = [dir EXCEPT ![Tmp(l)].files[f] = dist[RootOf[l]][f]]
      BY <2>3 DEF CopyFile
    <3>2. pc'[l] = "copy" /\ pc[l] = "copy" /\ dir[Tmp(l)] \in Trees /\ Staged(l) /\ launch[l].key = dist[RootOf[l]]
      BY <2>3, <1>t DEF CopyFile, Staged, CopyInv
    <3>3. \A g \in Files : dir'[Tmp(l)].files[g] = IF g = f THEN launch[l].key[f] ELSE dir[Tmp(l)].files[g]
      BY <3>1, <3>2, <1>t DEF Trees
    <3> QED BY <1>s, <1>1, <3>2, <3>3 DEF StageOK, Tmp
  <2>4. CASE WriteMarker(l)
    <3>1. /\ pc'[l] = "disown" /\ pc[l] = "copy" /\ dir[Tmp(l)] \in Trees /\ Staged(l)
          /\ \A f \in Files : dir[Tmp(l)].files[f] # None
      BY <2>4, <1>f, <1>t DEF WriteMarker, Go, Staged
    <3>2. dir'[Tmp(l)].files = dir[Tmp(l)].files /\ dir'[Tmp(l)].marker
      BY <2>4, <3>1, <1>t DEF WriteMarker, Trees
    <3>3. dir[Tmp(l)].files = launch[l].key
      <4>1. dir[Tmp(l)].files \in [Files -> Gens \cup {None}] /\ launch[l].key \in [Files -> Gens]
        BY <3>1, SnapTypes DEF Trees, Keys
      <4>2. \A f \in Files : dir[Tmp(l)].files[f] = launch[l].key[f]
        BY <3>1, <1>s DEF StageOK
      <4> QED BY <4>1, <4>2
    <3> QED BY <1>1, <3>1, <3>2, <3>3 DEF StageOK, Tmp
  <2>5. CASE RemoveOwner(l)
    <3>1. pc'[l] = "rename" /\ pc[l] = "disown"
      BY <2>5, <1>f, <1>t DEF RemoveOwner, Go
    <3>2. CASE Staged(l)
      <4>1. /\ dir'[Tmp(l)].files = dir[Tmp(l)].files /\ dir'[Tmp(l)].marker = dir[Tmp(l)].marker
        BY <2>5, <3>2, <1>t DEF RemoveOwner, Staged, Trees
      <4> QED BY <1>s, <1>1, <1>c, <3>1, <3>2, <4>1 DEF StageOK, Tmp
    <3>3. CASE ~ Staged(l)
      BY <2>5, <3>1, <3>3 DEF RemoveOwner, StageOK, Staged, Tmp
    <3> QED BY <3>2, <3>3
  <2> QED BY <2>1, <2>2, <2>3, <2>4, <2>5
<1>4. launch[l].victim = None
  BY <1>2 DEF SnapInv, VictimInv, VictimOK
<1>5. VictimOK(l)' /\ HoldOK(l)' /\ ~ Held(l)'
  BY <1>1, <1>2, <1>4 DEF VictimOK, HoldOK, Held, Running
<1>6. \A d \in Paths : dir'[d] # None /\ Clean(d)' => Clean(d)
  BY <1>1, NotCleaned
<1> QED BY <1>f, <1>1, <1>3, <1>5, <1>6, TreesKeep

LEMMA LookKeeps ==
    ASSUME TypeInv, LockInv, SnapInv, NEW l \in Launchers, Look(l)
    PROVE  SnapInv'
<1>f. /\ l \in Procs
      /\ \A m \in Launchers \ {l} : pc'[m] = pc[m] /\ launch'[m] = launch[m] /\ found'[m] = found[m]
  BY LauncherFrame, ProcAssumption DEF LauncherNext, Procs
<1>t. /\ pc \in [Procs -> BuilderLabels \cup LauncherLabels] /\ launch \in [Launchers -> Launches]
      /\ launch[l].key \in Keys /\ pc[l] = "look" /\ dir' = dir /\ cut' = cut
  BY DEF TypeInv, TypeOK, Keyed, Look
<1>s. Shared(l) = Copy(launch[l].key) /\ launch[l].victim = None
  BY <1>t, PathFacts DEF SnapInv, VictimInv, VictimOK
<1>c. \A d \in Paths : dir'[d] # None /\ Clean(d)' => Clean(d)
  BY <1>f, <1>s, <1>t, NotCleaned
<1>g. \/ pc'[l] = "lease" /\ launch' = launch /\ dir[Shared(l)] # None
      \/ /\ pc'[l] = "clear" /\ launch'[l].victim = Shared(l) /\ launch'[l].key = launch[l].key
         /\ dir[Shared(l)] # None /\ ~ dir[Shared(l)].marker
      \/ pc'[l] = "stage" /\ launch' = launch
  BY <1>f, <1>t DEF Look, Go, Launches
<1>r. ~ Held(l)' /\ ~ (l \in Running)'
  BY <1>g DEF Held, Running
<1>1. StageOK(l)'
  BY <1>g DEF StageOK
<1>2. HoldOK(l)'
  BY <1>g, <1>r, <1>t DEF HoldOK, Shared
<1>3. VictimOK(l)'
  <2>1. CASE launch' = launch
    BY <1>s, <2>1 DEF VictimOK
  <2>2. CASE /\ pc'[l] = "clear" /\ launch'[l].victim = Shared(l)
             /\ dir[Shared(l)] # None /\ ~ dir[Shared(l)].marker
    <3>1. ASSUME NEW m \in Launchers, Held(m)', launch'[m].key = launch[l].key PROVE FALSE
      <4>1. m # l
        BY <3>1, <1>r
      <4>2. Held(m) /\ launch[m].key = launch[l].key
        BY <1>f, <3>1, <4>1 DEF Held, Running
      <4>3. Shared(m) = Shared(l)
        BY <4>2 DEF Shared
      <4> QED BY <2>2, <4>2, <4>3 DEF SnapInv, HoldInv, HoldOK
    <3>2. \A k \in Keys : Copy(k)' = Copy(k) /\ (Shared(l) = Copy(k) => k = launch[l].key)
      BY <1>s, <1>t, PathFacts DEF Copy
    <3> QED BY <2>2, <3>1, <3>2 DEF VictimOK
  <2> QED BY <1>g, <2>1, <2>2
<1> QED BY <1>f, <1>t, <1>c, <1>r, <1>1, <1>2, <1>3, TreesKeep

LEMMA ThrowKeeps ==
    ASSUME TypeInv, LockInv, SnapInv, NEW l \in Launchers, Throw(l)
    PROVE  SnapInv'
<1>f. /\ l \in Procs
      /\ \A m \in Launchers \ {l} : pc'[m] = pc[m] /\ launch'[m] = launch[m] /\ found'[m] = found[m]
  BY LauncherFrame, ProcAssumption DEF LauncherNext, Procs
<1>t. /\ pc \in [Procs -> BuilderLabels \cup LauncherLabels] /\ launch \in [Launchers -> Launches]
      /\ pc[l] \in {"own", "copy", "disown", "rename"} /\ dir' = dir /\ cut' = cut
  BY DEF TypeInv, TypeOK, Throw
<1>v. launch[l].victim = None
  BY <1>t DEF SnapInv, VictimInv, VictimOK
<1>1. pc'[l] = "unstage" /\ launch'[l].victim = Tmp(l) /\ launch'[l].failed
  BY <1>f, <1>t DEF Throw, Go, Launches
<1>2. ~ Held(l)' /\ ~ (l \in Running)'
  BY <1>1 DEF Held, Running
<1>3. StageOK(l)' /\ HoldOK(l)'
  BY <1>1, <1>2 DEF StageOK, HoldOK
<1>4. VictimOK(l)'
  BY <1>1, PathFacts DEF VictimOK, Copy
<1>5. \A d \in Paths : dir'[d] # None /\ Clean(d)' => Clean(d)
  BY <1>f, <1>t, <1>v, NotCleaned
<1> QED BY <1>f, <1>t, <1>2, <1>3, <1>4, <1>5, TreesKeep

(* A lease: the tree is there since the launch decided for it. *)
LEMMA WriteLeaseKeeps ==
    ASSUME TypeInv, LockInv, SnapInv, NEW l \in Launchers, WriteLease(l)
    PROVE  SnapInv'
<1>f. /\ l \in Procs
      /\ \A m \in Launchers \ {l} : pc'[m] = pc[m] /\ launch'[m] = launch[m] /\ found'[m] = found[m]
  BY LauncherFrame, ProcAssumption DEF LauncherNext, Procs
<1>t. /\ pc \in [Procs -> BuilderLabels \cup LauncherLabels] /\ launch \in [Launchers -> Launches]
      /\ dir \in [Paths -> Trees \cup {None}] /\ pc[l] = "lease" /\ cut' = cut
  BY DEF TypeInv, TypeOK, WriteLease
<1>v. launch[l].victim = None
  BY <1>t DEF SnapInv, VictimInv, VictimOK
<1>d. DEFINE d == Shared(l)
<1>k. launch[l].key \in Keys /\ d \in Paths /\ d = Copy(launch[l].key)
  BY <1>t, PathFacts, SnapTypes
<1>h. dir[d] # None /\ dir[d] \in Trees
  BY <1>k, <1>t DEF SnapInv, HoldInv, HoldOK
<1>n. \A m \in Launchers : launch[m].victim # d
  BY <1>k, <1>t, NoBuildVictim DEF Locked
<1>u. DEFINE u == [dir[d] EXCEPT !.leases = @ \cup {l}]
<1>1. u \in Trees /\ u.files = dir[d].files /\ u.marker = dir[d].marker /\ u.leases = dir[d].leases \cup {l}
  BY <1>h DEF Trees
<1>2. dir' = [dir EXCEPT ![d] = u]
  BY <1>h DEF WriteLease
<1>9. found'[l].complete = dir[d].marker /\ found'[l].files = dir[d].files /\ found'[l].cut = (d \in cut)
  <2>1. found' = [found EXCEPT ![l].complete = dir[d].marker, ![l].cut = d \in cut, ![l].files = dir[d].files]
    BY <1>h DEF WriteLease
  <2>2. found \in [Launchers -> [mixed : BOOLEAN, complete : BOOLEAN, cut : BOOLEAN,
                                 files : [Files -> Gens \cup {None}]]]
    BY DEF TypeInv, TypeOK
  <2> DEFINE m == dir[d].marker
             c == d \in cut
             f == dir[d].files
             w == [found[l] EXCEPT !.complete = m, !.cut = c, !.files = f]
  <2>3. found'[l] = w
    BY <2>1, <2>2
  <2> HIDE DEF m, c, f
  <2>4. w.complete = m /\ w.cut = c /\ w.files = f
    BY <2>2
  <2> QED BY <2>3, <2>4 DEF m, c, f
<1> HIDE DEF u
<1>3. /\ pc'[l] = "reap" /\ launch'[l].key = launch[l].key /\ launch'[l].victim = launch[l].victim
      /\ launch'[l].failed = launch[l].failed
  BY <1>f, <1>t DEF WriteLease, Go, Launches
<1>4. dir'[d] = u /\ u # None /\ \A e \in Paths \ {d} : dir'[e] = dir[e]
  BY <1>1, <1>2, <1>k, <1>t, NoneAssumption
<1>5. \A e \in Paths :
         \/ dir'[e] = dir[e]
         \/ /\ dir[e] # None /\ dir'[e] # None
            /\ dir'[e].files = dir[e].files /\ dir'[e].marker = dir[e].marker
            /\ \A m \in Launchers \ {l} : m \in dir[e].leases /\ pc[m] # "gone" => m \in dir'[e].leases
  BY <1>1, <1>4, <1>h
<1>6. StageOK(l)' /\ VictimOK(l)'
  BY <1>3, <1>v DEF StageOK, VictimOK
<1>7. HoldOK(l)'
  <2>1. Shared(l)' = d
    BY <1>3 DEF Shared
  <2>2. d \notin cut => dir[d].marker /\ dir[d].files = launch[l].key
    BY <1>h, <1>k, <1>n DEF SnapInv, TreeInv, Clean
  <2> HIDE DEF d
  <2> QED BY <1>1, <1>3, <1>4, <1>9, <1>h, <2>1, <2>2 DEF HoldOK, Held
<1>8. \A e \in Paths : dir'[e] # None /\ Clean(e)' => Clean(e)
  BY <1>f, <1>t, <1>3, NotCleaned
<1> QED BY <1>f, <1>n, <1>3, <1>5, <1>6, <1>7, <1>8, TreesKeep

(* An exit takes only one's own lease. *)
LEMMA ExitKeeps ==
    ASSUME TypeInv, SnapInv, NEW l \in Launchers, Exit(l)
    PROVE  SnapInv'
<1>f. /\ l \in Procs
      /\ \A m \in Launchers \ {l} : pc'[m] = pc[m] /\ launch'[m] = launch[m] /\ found'[m] = found[m]
  BY LauncherFrame, ProcAssumption DEF LauncherNext, Procs
<1>t. /\ pc \in [Procs -> BuilderLabels \cup LauncherLabels]
      /\ dir \in [Paths -> Trees \cup {None}] /\ pc[l] = "run" /\ launch' = launch /\ cut' = cut
  BY DEF TypeInv, TypeOK, Exit
<1>v. launch[l].victim = None
  BY <1>t DEF SnapInv, VictimInv, VictimOK
<1>1. pc'[l] = "gone"
  BY <1>f, <1>t DEF Exit, Go
<1>2. ~ Held(l)' /\ StageOK(l)' /\ VictimOK(l)' /\ HoldOK(l)'
  BY <1>1, <1>v, <1>t DEF Held, Running, StageOK, VictimOK, HoldOK
<1>3. ASSUME NEW e \in Paths
      PROVE  \/ dir'[e] = dir[e]
             \/ /\ dir[e] # None /\ dir'[e] # None
                /\ dir'[e].files = dir[e].files /\ dir'[e].marker = dir[e].marker
                /\ \A m \in Launchers \ {l} : m \in dir[e].leases /\ pc[m] # "gone" => m \in dir'[e].leases
  <2>1. CASE e = Shared(l) /\ dir[e] # None
    <3> DEFINE u == [dir[e] EXCEPT !.leases = @ \ {l}]
    <3>1. dir[e] \in Trees
      BY <2>1, <1>t
    <3>2. u \in Trees /\ u.files = dir[e].files /\ u.marker = dir[e].marker /\ u.leases = dir[e].leases \ {l}
      BY <3>1 DEF Trees
    <3>3. dir' = [dir EXCEPT ![e] = u]
      BY <2>1 DEF Exit
    <3> HIDE DEF u
    <3>4. dir'[e] = u /\ u # None
      BY <3>2, <3>3, <1>t, NoneAssumption
    <3> QED BY <2>1, <3>2, <3>4
  <2>2. CASE e # Shared(l) \/ dir[e] = None
    BY <2>2, <1>t DEF Exit
  <2> QED BY <2>1, <2>2
<1>4. \A e \in Paths : dir'[e] # None /\ Clean(e)' => Clean(e)
  BY <1>t, NotCleaned
<1> QED BY <1>f, <1>2, <1>3, <1>4, TreesKeep

(* A look at an entry condemns a shared tree only if nobody alive has leased it. *)
LEMMA ExamineKeeps ==
    ASSUME TypeInv, LockInv, SnapInv, NEW l \in Launchers, Examine(l)
    PROVE  SnapInv'
<1>f. /\ l \in Procs
      /\ \A m \in Launchers \ {l} : pc'[m] = pc[m] /\ launch'[m] = launch[m] /\ found'[m] = found[m]
  BY LauncherFrame, ProcAssumption DEF LauncherNext, Procs
<1>t. /\ launch \in [Launchers -> Launches] /\ dir \in [Paths -> Trees \cup {None}] /\ pc' = pc
      /\ pc[l] \in {"sweep", "reap"} /\ launch[l].victim = None /\ launch[l].todo \subseteq Paths
      /\ cut' = cut /\ found' = found
  BY DEF TypeInv, TypeOK, Examine, Idle, Launches
<1> DEFINE R(d) == d[1] = "build" /\ pc[l] = "reap" /\ d # Shared(l) /\ dir[d] # None
           V(d, w) == IF d[1] = "tmp" /\ dir[d] # None
                      THEN dir[d].owner => (w = d <=> Orphaned(d))
                      ELSE w = d => R(d) /\ LiveLeases(d) = {}
<1>1. PICK d \in launch[l].todo :
         /\ dir' = IF R(d) THEN [dir EXCEPT ![d].leases = LiveLeases(d)] ELSE dir
         /\ \E w \in {None, d} :
              /\ launch' = [launch EXCEPT ![l].todo = @ \ {d}, ![l].victim = w]
              /\ V(d, w)
  BY DEF Examine
<1>2. PICK w \in {None, d} :
         /\ launch' = [launch EXCEPT ![l].todo = @ \ {d}, ![l].victim = w]
         /\ V(d, w)
  BY <1>1
<1>3. /\ d \in Paths /\ d # None
      /\ launch'[l].key = launch[l].key /\ launch'[l].failed = launch[l].failed /\ launch'[l].victim = w
  BY <1>1, <1>2, <1>t, NoneAssumption DEF Launches
<1>4. ASSUME NEW e \in Paths
      PROVE  \/ dir'[e] = dir[e]
             \/ /\ dir[e] # None /\ dir'[e] # None /\ R(e)
                /\ dir'[e].files = dir[e].files /\ dir'[e].marker = dir[e].marker
                /\ \A m \in Launchers : m \in dir[e].leases /\ pc[m] # "gone" => m \in dir'[e].leases
  <2>1. CASE e = d /\ R(d)
    <3> DEFINE u == [dir[e] EXCEPT !.leases = LiveLeases(e)]
    <3>1. dir[e] \in Trees
      BY <2>1, <1>t
    <3>2. /\ u \in Trees /\ u.files = dir[e].files /\ u.marker = dir[e].marker
          /\ u.leases = {m \in dir[e].leases : pc[m] # "gone"}
      BY <3>1 DEF Trees, LiveLeases, processIsAlive
    <3>3. dir' = [dir EXCEPT ![e] = u]
      BY <1>1, <2>1
    <3> HIDE DEF u
    <3>4. dir'[e] = u /\ u # None
      BY <3>2, <3>3, <1>t, NoneAssumption
    <3> QED BY <2>1, <3>2, <3>4
  <2>2. CASE e # d \/ ~ R(d)
    BY <2>2, <1>1, <1>t
  <2> QED BY <2>1, <2>2
<1>5. \A m \in Launchers : /\ (m \in Running)' <=> m \in Running
                           /\ Held(m)' <=> Held(m)
                           /\ launch'[m].key = launch[m].key
  BY <1>3, <1>f, <1>t DEF Held, Running
<1>6. VictimOK(l)'
  <2> SUFFICES ASSUME w = d, NEW k \in Keys, d = Copy(k)
               PROVE  pc[l] = "reap" /\ \A m \in Launchers : Held(m)' => launch'[m].key # k
    BY <1>2, <1>3, <1>t DEF VictimOK, Copy
  <2>1. R(d) /\ LiveLeases(d) = {}
    BY <1>2, PathFacts
  <2>2. ASSUME NEW m \in Launchers, Held(m), launch[m].key = k PROVE FALSE
    <3>1. Shared(m) = d /\ m # l
      BY <2>1, <2>2, PathFacts
    <3> QED BY <2>1, <2>2, <3>1 DEF SnapInv, HoldInv, HoldOK, Held, LiveLeases, processIsAlive, Running
  <2> QED BY <1>5, <2>1, <2>2
<1>7. HoldOK(l)'
  <2>1. Shared(l)' = Shared(l) /\ HoldOK(l) /\ pc[l] # "lease"
    BY <1>3, <1>t DEF Shared, SnapInv, HoldInv
  <2>2. l \in Running => dir'[Shared(l)] = dir[Shared(l)]
    BY <1>4, SnapTypes, PathFacts
  <2> QED BY <1>5, <1>t, <2>1, <2>2 DEF HoldOK, Held
<1>8. StageOK(l)'
  BY <1>t DEF StageOK
<1> HIDE DEF R, V
<1>9. \A e \in Paths :
         \/ dir'[e] = dir[e]
         \/ /\ dir[e] # None /\ dir'[e] # None
            /\ dir'[e].files = dir[e].files /\ dir'[e].marker = dir[e].marker
            /\ \A m \in Launchers \ {l} : m \in dir[e].leases /\ pc[m] # "gone" => m \in dir'[e].leases
  BY <1>4
<1>10. \A e \in Paths : dir'[e] # None /\ Clean(e)' => Clean(e)
  BY <1>f, <1>t, NotCleaned
<1> QED BY <1>f, <1>5, <1>6, <1>7, <1>8, <1>9, <1>10, TreesKeep

(* A removal, entry by entry, touches no tree that a run holds. *)
LEMMA RemovePartKeeps ==
    ASSUME TypeInv, LockInv, SnapInv, NEW l \in Launchers, RemovePart(l)
    PROVE  SnapInv'
<1>f. /\ l \in Procs /\ \A m \in Launchers \ {l} : launch'[m] = launch[m]
  BY LauncherFrame, ProcAssumption DEF LauncherNext, Procs
<1> DEFINE d == launch[l].victim
<1>t. /\ launch \in [Launchers -> Launches] /\ dir \in [Paths -> Trees \cup {None}] /\ pc' = pc /\ found' = found
      /\ d # None /\ d \in Paths
  BY DEF TypeInv, TypeOK, RemovePart, Launches
<1>1. \A e \in Paths \ {d} : dir'[e] = dir[e]
  BY <1>t DEF RemovePart
<1>2. /\ \A m \in Launchers : launch'[m].key = launch[m].key /\ launch'[m].failed = launch[m].failed
      /\ \A m \in Launchers : launch'[m].victim = launch[m].victim \/ (m = l /\ launch'[m].victim = None)
      /\ cut \ {d} \subseteq cut'
      /\ dir'[d] = None \/ (launch' = launch /\ cut' = cut)
  BY <1>f, <1>t DEF RemovePart, Launches
<1>3. \A m \in Launchers : /\ (m \in Running)' <=> m \in Running
                           /\ Held(m)' <=> Held(m)
  BY <1>2, <1>t DEF Held, Running
<1>c. ASSUME NEW e \in Paths, dir'[e] # None, Clean(e)' PROVE Clean(e) /\ e # d
  <2>1. CASE e = d
    BY <1>c, <1>2, <2>1 DEF Clean
  <2>2. CASE e # d
    BY <1>c, <1>2, <2>2 DEF Clean
  <2> QED BY <2>1, <2>2
<1>v. VictimOK(l)
  BY DEF SnapInv, VictimInv
<1>e. dir[d] # None /\ dir'[d] # None =>
         \A f \in Files : dir'[d].files[f] \in {None, dir[d].files[f]}
  <2> SUFFICES ASSUME dir[d] # None, dir'[d] # None, NEW f \in Files
               PROVE  dir'[d].files[f] \in {None, dir[d].files[f]}
    OBVIOUS
  <2>1. dir[d] \in Trees
    BY <1>t
  <2>2. \/ dir' = [dir EXCEPT ![d].marker = FALSE]
        \/ \E g \in Files : dir' = [dir EXCEPT ![d].files[g] = None]
    BY <1>t DEF RemovePart
  <2>3. CASE dir' = [dir EXCEPT ![d].marker = FALSE]
    BY <1>t, <2>1, <2>3 DEF Trees
  <2>4. ASSUME NEW g \in Files, dir' = [dir EXCEPT ![d].files[g] = None]
        PROVE  dir'[d].files[f] \in {None, dir[d].files[f]}
    <3>1. dir'[d].files = [dir[d].files EXCEPT ![g] = None]
      BY <1>t, <2>1, <2>4 DEF Trees
    <3> QED BY <2>1, <3>1 DEF Trees
  <2> QED BY <2>2, <2>3, <2>4
<1>n. dir[d] = None => dir'[d] = None
  BY <1>t DEF RemovePart, Emptied
<1> HIDE DEF d
<1>4. StageInv'
  <2> SUFFICES ASSUME NEW m \in Launchers PROVE StageOK(m)'
    BY DEF StageInv
  <2>1. StageOK(m) /\ Tmp(m) \in Paths /\ Tmp(m)' = Tmp(m)
    BY PathFacts DEF SnapInv, StageInv, Tmp
  <2>2. ASSUME pc[m] \in {"own", "copy"}, dir'[Tmp(m)] # None, NEW f \in Files
        PROVE  dir'[Tmp(m)].files[f] \in {None, launch[m].key[f]}
    <3>1. dir[Tmp(m)] # None /\ dir'[Tmp(m)].files[f] \in {None, dir[Tmp(m)].files[f]}
      BY <1>1, <1>e, <1>n, <2>1, <2>2
    <3> QED BY <2>1, <2>2, <3>1 DEF StageOK, Staged
  <2>3. ASSUME pc[m] \in {"disown", "rename"}, dir'[Tmp(m)] # None, Clean(Tmp(m))'
        PROVE  dir'[Tmp(m)].files = launch[m].key /\ dir'[Tmp(m)].marker
    <3>1. Clean(Tmp(m)) /\ Tmp(m) # d
      BY <1>c, <2>1, <2>3
    <3> QED BY <1>1, <2>1, <2>3, <3>1 DEF StageOK, Staged
  <2> QED BY <1>2, <1>t, <2>1, <2>2, <2>3 DEF StageOK, Staged
<1>5. VictimInv'
  <2> SUFFICES ASSUME NEW m \in Launchers, launch'[m].victim # None PROVE VictimOK(m)'
    BY DEF VictimInv, VictimOK
  <2>1. launch'[m].victim = launch[m].victim /\ VictimOK(m)
    BY <1>2 DEF SnapInv, VictimInv
  <2> QED BY <1>2, <1>3, <1>t, <2>1 DEF VictimOK, Copy
<1>6. TreeInv'
  <2> SUFFICES ASSUME NEW k \in Keys, dir'[Copy(k)] # None, Clean(Copy(k))'
               PROVE  dir'[Copy(k)].marker /\ dir'[Copy(k)].files = k
    BY DEF TreeInv, Copy
  <2>1. Copy(k) \in Paths
    BY PathFacts
  <2>2. Clean(Copy(k)) /\ Copy(k) # d
    BY <1>c, <2>1
  <2> QED BY <1>1, <2>1, <2>2 DEF SnapInv, TreeInv
<1>7. HoldInv'
  <2> SUFFICES ASSUME NEW m \in Launchers PROVE HoldOK(m)'
    BY DEF HoldInv
  <2>1. HoldOK(m) /\ Shared(m)' = Shared(m)
    BY <1>2 DEF Shared, SnapInv, HoldInv
  <2>2. pc[m] = "lease" \/ Held(m) => dir'[Shared(m)] = dir[Shared(m)]
    <3> SUFFICES ASSUME pc[m] = "lease" \/ Held(m) PROVE dir'[Shared(m)] = dir[Shared(m)]
      OBVIOUS
    <3>1. Shared(m) = Copy(launch[m].key) /\ launch[m].key \in Keys /\ Shared(m) \in Paths
      BY PathFacts, SnapTypes DEF Held
    <3>2. CASE pc[m] = "lease"
      BY <1>1, <3>1, <3>2, NoBuildVictim DEF d, Locked
    <3>3. CASE Held(m)
      BY <1>1, <1>t, <1>v, <3>1, <3>3 DEF VictimOK, d
    <3> QED BY <3>2, <3>3
  <2> QED BY <1>2, <1>3, <1>t, <2>1, <2>2 DEF HoldOK
<1> QED BY <1>4, <1>5, <1>6, <1>7 DEF SnapInv

(* A rename moves a staging tree to where nothing was, and with it what a     *)
(* removal does to it.                                                        *)
LEMMA RenameKeeps ==
    ASSUME TypeInv, LockInv, SnapInv, NEW l \in Launchers, Rename(l)
    PROVE  SnapInv'
<1>f. /\ l \in Procs /\ \A m \in Launchers \ {l} : pc'[m] = pc[m]
  BY LauncherFrame, ProcAssumption DEF LauncherNext, Procs
<1>t. /\ pc \in [Procs -> BuilderLabels \cup LauncherLabels] /\ dir \in [Paths -> Trees \cup {None}]
      /\ pc[l] = "rename" /\ launch' = launch /\ found' = found /\ launch[l].key \in Keys
      /\ dir[Tmp(l)] # None /\ dir[Shared(l)] = None
  BY SnapTypes DEF TypeInv, TypeOK, Rename, Staged
<1>k. /\ Tmp(l) \in Paths /\ Shared(l) \in Paths /\ Tmp(l) # Shared(l) /\ Shared(l) = Copy(launch[l].key)
  BY <1>t, PathFacts
<1>1. /\ pc'[l] = "lease" /\ dir'[Shared(l)] = dir[Tmp(l)] /\ dir'[Tmp(l)] = None
      /\ \A e \in Paths \ {Tmp(l), Shared(l)} : dir'[e] = dir[e]
  BY <1>f, <1>t, <1>k DEF Rename, Go
<1>2. Clean(Shared(l))' => Clean(Tmp(l))
  <2> SUFFICES ASSUME Shared(l) \notin cut', \A m \in Launchers : launch[m].victim # Shared(l)
               PROVE  Clean(Tmp(l))
    BY <1>t DEF Clean, Shared
  <2> QED BY DEF Rename, Clean
<1>3. ASSUME NEW e \in Paths \ {Tmp(l), Shared(l)}, Clean(e)' PROVE Clean(e)
  BY <1>3, <1>t DEF Rename, Clean
<1>r. \A m \in Launchers : /\ (m \in Running)' => m \in Running
                           /\ Held(m)' => Held(m)
  BY <1>f, <1>1, <1>t DEF Held, Running
<1>4. StageInv'
  <2> SUFFICES ASSUME NEW m \in Launchers, m # l PROVE StageOK(m)'
    BY <1>1 DEF StageInv, StageOK
  <2>1. Tmp(m) \in Paths \ {Tmp(l), Shared(l)} /\ Tmp(m)' = Tmp(m)
    BY <1>k, <1>t, PathFacts DEF Tmp
  <2>2. dir'[Tmp(m)] = dir[Tmp(m)] /\ (Clean(Tmp(m))' => Clean(Tmp(m)))
    BY <1>1, <1>3, <2>1
  <2> QED BY <1>f, <1>t, <2>1, <2>2 DEF SnapInv, StageInv, StageOK, Staged
<1>5. VictimInv'
  <2> SUFFICES ASSUME NEW m \in Launchers, launch[m].victim # None PROVE VictimOK(m)'
    BY <1>t DEF VictimInv, VictimOK
  <2>1. VictimOK(m) /\ m # l
    BY <1>t DEF SnapInv, VictimInv, VictimOK
  <2> QED BY <1>f, <1>r, <1>t, <2>1 DEF VictimOK, Copy
<1>6. TreeInv'
  <2> SUFFICES ASSUME NEW k \in Keys, dir'[Copy(k)] # None, Clean(Copy(k))'
               PROVE  dir'[Copy(k)].marker /\ dir'[Copy(k)].files = k
    BY DEF TreeInv, Copy
  <2>1. CASE k = launch[l].key
    <3>1. Copy(k) = Shared(l) /\ Shared(l)' = Shared(l)
      BY <1>k, <1>t, <2>1 DEF Shared
    <3>2. Clean(Tmp(l))
      BY <1>2, <3>1
    <3>3. dir[Tmp(l)].files = launch[l].key /\ dir[Tmp(l)].marker
      BY <1>t, <3>2 DEF SnapInv, StageInv, StageOK, Staged
    <3> QED BY <1>1, <2>1, <3>1, <3>3
  <2>2. CASE k # launch[l].key
    <3>1. Copy(k) \in Paths \ {Tmp(l), Shared(l)}
      BY <1>k, <1>t, <2>2, PathFacts
    <3> QED BY <1>1, <1>3, <3>1 DEF SnapInv, TreeInv
  <2> QED BY <2>1, <2>2
<1>7. HoldInv'
  <2> SUFFICES ASSUME NEW m \in Launchers PROVE HoldOK(m)'
    BY DEF HoldInv
  <2>s. Shared(m)' = Shared(m) /\ HoldOK(m)
    BY <1>t DEF Shared, SnapInv, HoldInv
  <2>1. CASE m = l
    <3>1. ~ (l \in Running)'
      BY <1>1 DEF Running
    <3> QED BY <1>1, <1>t, <2>1, <2>s, <3>1 DEF HoldOK, Held
  <2>2. CASE m # l
    <3>1. pc[m] = "lease" \/ Held(m) => dir'[Shared(m)] = dir[Shared(m)]
      <4> SUFFICES ASSUME pc[m] = "lease" \/ Held(m) PROVE dir'[Shared(m)] = dir[Shared(m)]
        OBVIOUS
      <4>1. Shared(m) = Copy(launch[m].key) /\ launch[m].key \in Keys /\ Shared(m) \in Paths
        BY PathFacts, SnapTypes DEF Held
      <4>2. Shared(m) # Tmp(l) /\ dir[Shared(m)] # None
        BY <2>s, <4>1, PathFacts DEF HoldOK
      <4> QED BY <1>1, <1>t, <4>1, <4>2
    <3> QED BY <1>f, <1>r, <1>t, <2>2, <2>s, <3>1 DEF HoldOK
  <2> QED BY <2>1, <2>2
<1> QED BY <1>4, <1>5, <1>6, <1>7 DEF SnapInv

(* While a launch copies, nobody publishes to its package root. *)
LEMMA StepCopy == ASSUME TypeInv, GateInv, CopyInv, [Next]_vars PROVE CopyInv'
<1> DEFINE L == {"lock", "look", "clear", "stage", "own", "copy", "disown", "rename"}
<1>1. ASSUME NEW r \in Roots, SourceChanges(r) PROVE CopyInv'
  BY <1>1 DEF SourceChanges, CopyInv
<1>2. ASSUME NEW b \in Builders, BuilderNext(b) PROVE CopyInv'
  <2>1. launch' = launch /\ \A l \in Launchers : pc'[l] = pc[l]
    BY <1>2, BuilderFrame
  <2>2. CASE PublishFile(b)
    <3> SUFFICES ASSUME NEW l \in Launchers, pc[l] \in L PROVE launch[l].key = dist'[RootOf[l]]
      BY <2>1 DEF CopyInv
    <3>1. gate[RootOf[l]] = l /\ gate[RootOf[b]] = b /\ b # l /\ RootOf[l] \in Roots
      BY <2>2, ProcAssumption DEF GateInv, Gated, Locked, PublishFile, Procs
    <3>2. dist'[RootOf[l]] = dist[RootOf[l]]
      BY <2>2, <3>1, PublishEffect
    <3> QED BY <3>2 DEF CopyInv
  <2>3. CASE ~ PublishFile(b)
    <3>1. dist' = dist
      BY <1>2, <2>3, BuildEffect
    <3> QED BY <2>1, <3>1 DEF CopyInv
  <2> QED BY <2>2, <2>3
<1>3. ASSUME NEW l \in Launchers, LauncherNext(l) PROVE CopyInv'
  <2>1. /\ dist' = dist /\ l \in Procs
        /\ \A m \in Launchers \ {l} : pc'[m] = pc[m] /\ launch'[m] = launch[m]
    BY <1>3, LauncherFrame, ProcAssumption DEF Procs
  <2>t. /\ pc \in [Procs -> BuilderLabels \cup LauncherLabels] /\ launch \in [Launchers -> Launches]
    BY DEF TypeInv, TypeOK
  <2>2. pc'[l] \in L => \/ pc[l] \in L
                        \/ HashRuntime(l)
    BY <1>3, <2>1, <2>t DEF LauncherNext, Start, Examine, RemovePart, RemovalFails, Swept, LauncherGate, AcquireLock, Look, Cleared,
       MakeStaging, WriteOwner, CopyFile, WriteMarker, RemoveOwner, Rename, WriteLease, Throw, ThrowOutside,
       GiveUp, ReleaseLock, LauncherLeaves, Exit, Crash, Go
  <2>3. HashRuntime(l) => launch'[l].key = dist[RootOf[l]]
    BY <2>t DEF HashRuntime, Launches
  <2>4. pc[l] \in L => launch'[l].key = launch[l].key
    BY <1>3, KeyEffect
  <2> QED BY <2>1, <2>2, <2>3, <2>4 DEF CopyInv
<1>4. CASE UNCHANGED vars
  BY <1>4 DEF vars, CopyInv
<1> QED BY <1>1, <1>2, <1>3, <1>4 DEF Next

LEMMA StepSnap ==
    ASSUME TypeInv, LockInv, CopyInv, SnapInv, [Next]_vars
    PROVE  SnapInv'
<1>q. ASSUME dir' = dir, launch' = launch, cut' = cut, found' = found, \A l \in Launchers : pc'[l] = pc[l]
      PROVE  SnapInv'
  <2>0. \A d \in Paths : Clean(d)' <=> Clean(d)
    BY <1>q DEF Clean
  <2>1. StageInv'
    BY <1>q, <2>0, PathFacts DEF SnapInv, StageInv, StageOK, Staged, Tmp
  <2>2. \A l \in Launchers : (Held(l)' <=> Held(l)) /\ ((l \in Running)' <=> l \in Running)
    BY <1>q DEF Held, Running
  <2>3. VictimInv'
    BY <1>q, <2>2 DEF SnapInv, VictimInv, VictimOK, Copy
  <2>4. TreeInv'
    BY <1>q, <2>0, PathFacts DEF SnapInv, TreeInv, Copy
  <2>5. HoldInv'
    BY <1>q, <2>2 DEF SnapInv, HoldInv, HoldOK, Shared
  <2> QED BY <2>1, <2>3, <2>4, <2>5 DEF SnapInv
<1>1. ASSUME NEW r \in Roots, SourceChanges(r) PROVE SnapInv'
  BY <1>1, <1>q DEF SourceChanges
<1>2. ASSUME NEW b \in Builders, BuilderNext(b) PROVE SnapInv'
  BY <1>2, <1>q, BuilderFrame
<1>3. ASSUME NEW l \in Launchers, LauncherNext(l) PROVE SnapInv'
  BY <1>3, QuietSteps, StagingSteps, LookKeeps, ThrowKeeps, WriteLeaseKeeps, ExitKeeps, ExamineKeeps,
     RemovePartKeeps, RenameKeeps DEF LauncherNext
<1>4. CASE UNCHANGED vars
  BY <1>4, <1>q DEF vars
<1> QED BY <1>1, <1>2, <1>3, <1>4 DEF Next

LEMMA InitSnap == Init => CopyInv /\ SnapInv
<1> SUFFICES ASSUME Init PROVE CopyInv /\ SnapInv
  OBVIOUS
<1>1. \A l \in Launchers : pc[l] = "off" /\ launch[l].victim = None
  BY InitFacts, ProcAssumption DEF Procs
<1>2. CopyInv /\ StageInv /\ VictimInv /\ HoldInv
  BY <1>1 DEF CopyInv, StageInv, StageOK, VictimInv, VictimOK, HoldInv, HoldOK, Held, Running
<1>3. TreeInv
  <2>1. ASSUME NEW k \in Keys, dir[Copy(k)] # None PROVE dir[Copy(k)].marker /\ dir[Copy(k)].files = k
    <3>1. Copy(k) \in Paths /\ Copy(k)[2] = k
      BY PathFacts
    <3>2. dir[Copy(k)] = [NewTree EXCEPT !.files = k, !.marker = TRUE]
      BY <2>1, <3>1, InitTrees
    <3> QED BY <3>2 DEF NewTree
  <2> QED BY <2>1 DEF TreeInv
<1> QED BY <1>2, <1>3 DEF SnapInv

(* runtime-snapshot.mjs: a process that found the snapshot complete finds it  *)
(* unchanged until it exits, and what it found is the build it hashed unless  *)
(* a removal had left that tree unfinished: whatever other launches and       *)
(* builds do, and whoever fails, is held up or dies.                          *)
THEOREM LeasedStaysWhole == Spec => []LeasedTreeIsWhole
<1> DEFINE I == TypeInv /\ GateInv /\ LockInv /\ CopyInv /\ SnapInv
<1>1. Init => I
  BY InitType, InitGates, InitSnap
<1>2. I /\ [Next]_vars => I'
  BY StepType, StepGates, StepCopy, StepSnap
<1>3. I => LeasedTreeIsWhole
  BY DEF SnapInv, HoldInv, HoldOK, Held, Running, LeasedTreeIsWhole
<1> HIDE DEF I
<1> QED BY <1>1, <1>2, <1>3, PTL DEF Spec
=============================================================================
