------------------------- MODULE QemuLifecycleProofs -------------------------
(***************************************************************************)
(* What the loop of the QEMU service knows of a VM while starts, stops,    *)
(* removals and restarts of the service overlap and calls fail.  Proofs    *)
(* for any number of ids, callers, processes and restarts.  A process that *)
(* its directory names is the latest of its id; once it is handed over it  *)
(* is tracked, and no watcher is left to have it forgotten, unless a call  *)
(* on it failed or such a watcher was there when it was handed over.  With *)
(* the same invariant every step is a step of QemuService or none: a Start *)
(* moves the progress of its id alone, because only one holds the guard.   *)
(***************************************************************************)
EXTENDS QemuLifecycle, FiniteSetTheorems, TLAPS

Starter(c) == pc[c] \in StartSteps
Handed(i) == ~Busy(i, {"deliver"})

\* Every Start holds the guard of its id, and it alone.
Guards ==
    /\ \A c \in Callers : Starter(c) => target[c] \in starting
    /\ \A c, d \in Callers : Starter(c) /\ Starter(d) /\ target[c] = target[d] => c = d

Launched ==
    \A c \in Callers : pc[c] = "deliver" => runs[target[c]] \in Runs

\* Until everything is attached to, no request is served and nothing watched.
Unattached ==
    /\ attaching # {} => \A c \in Callers : pc[c] = "idle"
    /\ \A i \in attaching : \A k \in Runs : watch[i][k] = "none"

\* The process that a directory names is the latest of its id.
NamesLatest ==
    \A i \in Ids : /\ live[i] \subseteq 1 .. runs[i]
                   /\ pidfile[i] \in {0, runs[i]}
                   /\ pidfile[i] # 0 => i \in dirs

\* A watcher reports a process that has been there, and once it is dead.
WatchesDead ==
    \A i \in Ids : \A k \in Runs :
        /\ watch[i][k] # "none" => k <= runs[i]
        /\ watch[i][k] = "sending" => k \notin live[i]

\* Once it is handed over, or attached to, a process is tracked; and no watcher
\* of a predecessor is left to have it forgotten.
Tracked ==
    \A i \in Ids :
        Alive(i) /\ Handed(i) /\ i \notin attaching /\ pidfile[i] \notin failed[i] \cup hurried[i]
            => table[i] = pidfile[i] /\ ~Unreported(i, pidfile[i])

\* The inductive invariant.
LifecycleInv ==
    TypeOK /\ Guards /\ Launched /\ Unattached /\ NamesLatest /\ WatchesDead /\ Tracked

-----------------------------------------------------------------------------
LEMMA LifecycleInit ==
    ASSUME Init PROVE LifecycleInv
<1>1. TypeOK
  BY LifecycleAssumption DEF Init, TypeOK
<1> QED
  BY <1>1
  DEF Init, LifecycleInv, Guards, Launched, Unattached, NamesLatest, WatchesDead, Tracked,
      Alive, Starter, StartSteps

\* Only the calls of one handler change in a step of it.
LEMMA OneCaller ==
    ASSUME TypeOK, NEW c \in Callers, NEW to, Goto(c, to)
    PROVE  pc'[c] = to /\ \A d \in Callers : d # c => pc'[d] = pc[d]
BY DEF TypeOK, Goto

\* A process that its directory names is one of its id's, and not 0.
LEMMA AliveFacts ==
    ASSUME LifecycleInv, NEW i \in Ids, Alive(i)
    PROVE  /\ pidfile[i] \in Runs /\ pidfile[i] # 0 /\ pidfile[i] = runs[i]
           /\ i \in dirs
<1>1. pidfile[i] \in live[i] /\ live[i] \subseteq Runs
  BY DEF Alive, LifecycleInv, TypeOK
<1>2. pidfile[i] \in Runs /\ pidfile[i] # 0
  BY <1>1, LifecycleAssumption DEF Runs
<1> QED
  BY <1>2 DEF LifecycleInv, NamesLatest

\* Handlers that neither launch nor hand over leave the loop alone.
LEMMA HandlersOnly ==
    ASSUME LifecycleInv, NEW c \in Callers,
           \A d \in Callers : d # c => pc'[d] = pc[d] /\ target'[d] = target[d],
           pc[c] # "deliver", pc'[c] # "deliver", dirs \subseteq dirs',
           UNCHANGED <<live, runs, pidfile, table, watch, attaching, failed, hurried>>
    PROVE  NamesLatest' /\ WatchesDead' /\ Tracked'
<1>1. \A i \in Ids : Handed(i)' <=> Handed(i)
  BY DEF Handed, Busy
<1> QED
  BY <1>1
  DEF LifecycleInv, NamesLatest, WatchesDead, Tracked, Alive, Unreported

LEMMA RequestStep ==
    ASSUME LifecycleInv, NEW c \in Callers, NEW i \in Ids,
           StartRequest(c, i) \/ RemoveCheck(c, i)
    PROVE  LifecycleInv'
<1> USE DEF LifecycleInv
<1>1. /\ target' = [target EXCEPT ![c] = i] /\ target'[c] = i
      /\ \A d \in Callers : d # c => target'[d] = target[d]
      /\ pc[c] = "idle" /\ \A d \in Callers : d # c => pc'[d] = pc[d]
      /\ pc'[c] \in {"prepare", "delete"} /\ attaching = {}
      /\ UNCHANGED <<live, runs, dirs, pidfile, table, watch, attaching, restarts, failed,
                     hurried>>
  BY OneCaller DEF StartRequest, RemoveCheck, TypeOK, Serving, histories
<1>2. NamesLatest' /\ WatchesDead' /\ Tracked'
  BY <1>1, HandlersOnly
<1>3. TypeOK'
  BY <1>1 DEF StartRequest, RemoveCheck, Goto, TypeOK, StartSteps
<1>4. Launched' /\ Unattached'
  BY <1>1 DEF Launched, Unattached
<1>5. CASE StartRequest(c, i)
  <2>1. pc'[c] = "prepare" /\ starting' = starting \cup {i} /\ i \notin starting
    BY <1>5, OneCaller DEF StartRequest, Guarded
  <2>2. Guards'
    BY <1>1, <2>1 DEF Guards, Starter, StartSteps
  <2> QED
    BY <1>2, <1>3, <1>4, <2>2
<1>6. CASE RemoveCheck(c, i)
  <2>1. pc'[c] = "delete" /\ starting' = starting
    BY <1>6, OneCaller DEF RemoveCheck
  <2>2. Guards'
    BY <1>1, <2>1 DEF Guards, Starter, StartSteps
  <2> QED
    BY <1>2, <1>3, <1>4, <2>2
<1> QED
  BY <1>5, <1>6

LEMMA PrepareStep ==
    ASSUME LifecycleInv, NEW c \in Callers, Prepare(c)
    PROVE  LifecycleInv'
<1> USE DEF LifecycleInv
<1>1. /\ pc[c] = "prepare" /\ pc'[c] = "launch"
      /\ \A d \in Callers : d # c => pc'[d] = pc[d]
      /\ dirs' = dirs \cup {target[c]}
      /\ UNCHANGED <<live, runs, pidfile, starting, table, watch, target, attaching,
                     restarts, failed, hurried>>
  BY OneCaller DEF Prepare, histories
<1>2. NamesLatest' /\ WatchesDead' /\ Tracked'
  BY <1>1, HandlersOnly
<1>3. TypeOK'
  <2>1. pc' \in [Callers -> {"idle", "delete"} \cup StartSteps]
    BY DEF Prepare, Goto, TypeOK, StartSteps
  <2> QED
    BY <1>1, <2>1 DEF TypeOK
<1>4. Guards' /\ Launched' /\ Unattached'
  BY <1>1 DEF Guards, Launched, Unattached, Starter, StartSteps
<1> QED
  BY <1>2, <1>3, <1>4

LEMMA LaunchStep ==
    ASSUME LifecycleInv, NEW c \in Callers, Launch(c) PROVE LifecycleInv'
<1> USE DEF LifecycleInv
<1> DEFINE i == target[c]
           k == runs[i] + 1
<1>1. /\ pc[c] = "launch" /\ pc'[c] = "deliver"
      /\ \A d \in Callers : d # c => pc'[d] = pc[d]
      /\ i \in dirs /\ i \in Ids /\ k \in Runs
      /\ live' = [live EXCEPT ![i] = @ \cup {k}] /\ runs' = [runs EXCEPT ![i] = k]
      /\ pidfile' = [pidfile EXCEPT ![i] = k]
      /\ UNCHANGED <<dirs, starting, table, watch, target, attaching, restarts, failed,
                     hurried>>
  BY OneCaller DEF Launch, TypeOK, histories
<1>2. /\ k \in 0 .. MaxRuns /\ runs[i] \in Nat /\ k \in 1 .. k
      /\ 1 .. runs[i] \subseteq 1 .. k /\ ~(k <= runs[i])
  BY <1>1, LifecycleAssumption DEF Runs, TypeOK
<1>3. /\ live'[i] = live[i] \cup {k} /\ runs'[i] = k /\ pidfile'[i] = k
      /\ \A j \in Ids : j # i =>
            live'[j] = live[j] /\ runs'[j] = runs[j] /\ pidfile'[j] = pidfile[j]
  BY <1>1 DEF TypeOK
<1>4. TypeOK'
  <2>1. pc' \in [Callers -> {"idle", "delete"} \cup StartSteps]
    BY DEF Launch, Goto, TypeOK, StartSteps
  <2>2. live' \in [Ids -> SUBSET Runs]
    <3>1. live[i] \cup {k} \in SUBSET Runs
      BY <1>1 DEF TypeOK
    <3> HIDE DEF k
    <3> QED
      BY <1>1, <3>1 DEF TypeOK
  <2> QED
    BY <1>1, <1>2, <2>1, <2>2 DEF TypeOK
<1>5. Guards' /\ Unattached'
  BY <1>1 DEF Guards, Unattached, Starter, StartSteps
<1>6. Launched'
  BY <1>1, <1>3 DEF Launched, TypeOK
<1>7. NamesLatest'
  <2>1. ASSUME NEW j \in Ids
        PROVE  /\ live'[j] \subseteq 1 .. runs'[j]
               /\ pidfile'[j] \in {0, runs'[j]}
               /\ pidfile'[j] # 0 => j \in dirs'
    <3>1. CASE j = i
      BY <1>1, <1>2, <1>3, <3>1 DEF NamesLatest
    <3>2. CASE j # i
      BY <1>1, <1>3, <3>2 DEF NamesLatest
    <3> QED
      BY <3>1, <3>2
  <2> QED
    BY <2>1 DEF NamesLatest
<1>8. WatchesDead'
  <2>1. ASSUME NEW j \in Ids, NEW n \in Runs
        PROVE  /\ watch'[j][n] # "none" => n <= runs'[j]
               /\ watch'[j][n] = "sending" => n \notin live'[j]
    <3>1. CASE j = i
      <4>1. watch[i][n] # "none" => n <= runs[i] /\ n # k
        BY <1>1, <1>2 DEF WatchesDead
      <4>2. n <= runs[i] => n <= k
        BY <1>2 DEF Runs
      <4> QED
        BY <1>1, <1>3, <3>1, <4>1, <4>2 DEF WatchesDead
    <3>2. CASE j # i
      BY <1>1, <1>3, <3>2 DEF WatchesDead
    <3> QED
      BY <3>1, <3>2
  <2> QED
    BY <2>1 DEF WatchesDead
<1>9. Tracked'
  <2>1. \A j \in Ids : Handed(j)' => Handed(j) /\ j # i
    BY <1>1 DEF Handed, Busy
  <2>2. \A j \in Ids : Handed(j)' => (Alive(j)' <=> Alive(j)) /\ pidfile'[j] = pidfile[j]
    BY <1>3, <2>1 DEF Alive
  <2> QED
    BY <1>1, <2>1, <2>2 DEF Tracked, Unreported
<1> QED
  BY <1>4, <1>5, <1>6, <1>7, <1>8, <1>9

\* The guard is released by the one who holds it.
LEMMA EndStartFacts ==
    ASSUME TypeOK, Guards, NEW c \in Callers, Starter(c), EndStart(c), target' = target
    PROVE  /\ pc'[c] = "idle" /\ \A d \in Callers : d # c => pc'[d] = pc[d]
           /\ pc' \in [Callers -> {"idle", "delete"} \cup StartSteps]
           /\ starting' \subseteq starting
           /\ Guards'
<1>1. /\ pc'[c] = "idle" /\ \A d \in Callers : d # c => pc'[d] = pc[d]
      /\ starting' = starting \ {target[c]}
  BY OneCaller DEF EndStart
<1>2. pc' \in [Callers -> {"idle", "delete"} \cup StartSteps]
  BY DEF EndStart, Goto, TypeOK
<1> QED
  BY <1>1, <1>2 DEF Guards, Starter, StartSteps

LEMMA StartFailsStep ==
    ASSUME LifecycleInv, NEW c \in Callers, StartFails(c) PROVE LifecycleInv'
<1> USE DEF LifecycleInv
<1>1. /\ pc[c] \in {"prepare", "launch"} /\ Starter(c) /\ EndStart(c)
      /\ UNCHANGED <<live, runs, dirs, pidfile, table, watch, target, attaching, restarts,
                     failed, hurried>>
  BY DEF StartFails, Starter, StartSteps, histories
<1>2. /\ pc'[c] = "idle" /\ \A d \in Callers : d # c => pc'[d] = pc[d]
      /\ pc' \in [Callers -> {"idle", "delete"} \cup StartSteps]
      /\ starting' \subseteq starting /\ Guards'
  BY <1>1, EndStartFacts
<1>3. NamesLatest' /\ WatchesDead' /\ Tracked'
  BY <1>1, <1>2, HandlersOnly
<1>4. TypeOK'
  BY <1>1, <1>2 DEF TypeOK
<1>5. Launched' /\ Unattached'
  BY <1>1, <1>2 DEF Launched, Unattached
<1> QED
  BY <1>2, <1>3, <1>4, <1>5

\* Tracking an incarnation.
LEMMA TrackFacts ==
    ASSUME TypeOK, NEW i \in Ids, NEW k \in Runs, Track(i, k)
    PROVE  /\ table' \in [Ids -> 0 .. MaxRuns]
           /\ watch' \in [Ids -> [Runs -> {"none", "watching", "sending", "ended"}]]
           /\ table'[i] = k /\ watch'[i][k] = "watching"
           /\ \A n \in Runs : n # k => watch'[i][n] = watch[i][n]
           /\ \A j \in Ids : j # i => table'[j] = table[j] /\ watch'[j] = watch[j]
<1>1. k \in 0 .. MaxRuns
  BY LifecycleAssumption DEF Runs
<1> QED
  BY <1>1 DEF Track, TypeOK

LEMMA DeliverStep ==
    ASSUME LifecycleInv, NEW c \in Callers, Deliver(c)
    PROVE  LifecycleInv'
<1> USE DEF LifecycleInv
<1> DEFINE i == target[c]
           k == runs[i]
<1>1. /\ pc[c] = "deliver" /\ Starter(c) /\ EndStart(c) /\ Track(i, k) /\ i \in Ids
      /\ k \in Runs
      /\ UNCHANGED <<live, runs, dirs, pidfile, target, attaching, restarts, failed>>
  BY DEF Deliver, Starter, StartSteps, TypeOK, Launched
<1>2. /\ pc'[c] = "idle" /\ \A d \in Callers : d # c => pc'[d] = pc[d]
      /\ pc' \in [Callers -> {"idle", "delete"} \cup StartSteps]
      /\ starting' \subseteq starting /\ Guards'
  BY <1>1, EndStartFacts
<1>3. /\ table' \in [Ids -> 0 .. MaxRuns]
      /\ watch' \in [Ids -> [Runs -> {"none", "watching", "sending", "ended"}]]
      /\ table'[i] = k /\ watch'[i][k] = "watching"
      /\ \A n \in Runs : n # k => watch'[i][n] = watch[i][n]
      /\ \A j \in Ids : j # i => table'[j] = table[j] /\ watch'[j] = watch[j]
  BY <1>1, TrackFacts
<1>4. /\ hurried' \in [Ids -> SUBSET Runs]
      /\ \A j \in Ids : j # i => hurried'[j] = hurried[j]
      /\ Unreported(i, k) => k \in hurried'[i]
  BY <1>1 DEF Deliver, TypeOK
<1>5. TypeOK'
  BY <1>1, <1>2, <1>3, <1>4 DEF TypeOK
<1>6. Launched' /\ Unattached'
  BY <1>1, <1>2 DEF Launched, Unattached
<1>7. NamesLatest'
  BY <1>1 DEF NamesLatest
<1>8. WatchesDead'
  <2>1. ASSUME NEW j \in Ids, NEW n \in Runs
        PROVE  /\ watch'[j][n] # "none" => n <= runs[j]
               /\ watch'[j][n] = "sending" => n \notin live[j]
    <3>1. CASE j = i /\ n = k
      <4>1. n <= runs[j]
        BY <3>1, LifecycleAssumption DEF Runs
      <4> QED
        BY <1>3, <3>1, <4>1
    <3>2. CASE ~(j = i /\ n = k)
      BY <1>3, <3>2 DEF WatchesDead
    <3> QED
      BY <3>1, <3>2
  <2> QED
    BY <1>1, <2>1 DEF WatchesDead
<1>9. Tracked'
  <2>1. \A j \in Ids : j # i => (Handed(j)' <=> Handed(j))
    BY <1>1, <1>2 DEF Handed, Busy
  <2>2. Alive(i)' => pidfile[i] = k
    BY <1>1, AliveFacts DEF Alive
  <2>3. ~Unreported(i, k) => ~Unreported(i, k)'
    BY <1>1, <1>3 DEF Unreported
  <2>4. \A j \in Ids : j # i => (Unreported(j, pidfile[j])' <=> Unreported(j, pidfile[j]))
    BY <1>1, <1>3 DEF Unreported
  <2>5. ASSUME NEW j \in Ids, Alive(j)', Handed(j)', j \notin attaching',
               pidfile'[j] \notin failed'[j] \cup hurried'[j]
        PROVE  table'[j] = pidfile'[j] /\ ~Unreported(j, pidfile[j])'
    <3>1. CASE j = i
      BY <1>1, <1>3, <1>4, <2>2, <2>3, <2>5, <3>1
    <3>2. CASE j # i
      BY <1>1, <1>3, <1>4, <2>1, <2>4, <2>5, <3>2 DEF Tracked, Alive
    <3> QED
      BY <3>1, <3>2
  <2> QED
    BY <2>5 DEF Tracked
<1> QED
  BY <1>2, <1>5, <1>6, <1>7, <1>8, <1>9

\* A directory that goes takes the name of its process along.
LEMMA DeleteStep ==
    ASSUME LifecycleInv, NEW c \in Callers, RemoveDelete(c) PROVE LifecycleInv'
<1> USE DEF LifecycleInv
<1> DEFINE i == target[c]
<1>1. /\ pc[c] = "delete" /\ pc'[c] = "idle" /\ i \in Ids
      /\ \A d \in Callers : d # c => pc'[d] = pc[d]
      /\ \/ dirs' = dirs \ {i} /\ pidfile' = [pidfile EXCEPT ![i] = 0]
         \/ UNCHANGED <<dirs, pidfile>>
      /\ UNCHANGED <<live, runs, starting, table, watch, target, attaching, restarts, failed,
                     hurried>>
  BY OneCaller DEF RemoveDelete, TypeOK, histories
<1>2. TypeOK'
  <2>1. pidfile' \in [Ids -> 0 .. MaxRuns] /\ dirs' \subseteq Ids
    <3>1. 0 \in 0 .. MaxRuns
      BY LifecycleAssumption
    <3>2. pidfile \in [Ids -> 0 .. MaxRuns] /\ dirs \subseteq Ids
      BY DEF TypeOK
    <3> HIDE DEF LifecycleInv
    <3> QED
      BY <1>1, <3>1, <3>2
  <2>2. pc' \in [Callers -> {"idle", "delete"} \cup StartSteps]
    BY DEF RemoveDelete, Goto, TypeOK
  <2> QED
    BY <1>1, <2>1, <2>2 DEF TypeOK
<1>3. Guards' /\ Launched' /\ Unattached' /\ WatchesDead'
  BY <1>1 DEF Guards, Launched, Unattached, WatchesDead, Starter, StartSteps
<1>4. /\ \A j \in Ids : j # i => pidfile'[j] = pidfile[j]
      /\ \/ pidfile'[i] = pidfile[i] /\ dirs' = dirs
         \/ pidfile'[i] = 0 /\ dirs' = dirs \ {i}
  BY <1>1 DEF TypeOK
<1>5. NamesLatest'
  BY <1>1, <1>4 DEF NamesLatest
<1>6. Tracked'
  <2>1. \A j \in Ids : Handed(j)' <=> Handed(j)
    BY <1>1 DEF Handed, Busy
  <2>2. ASSUME NEW j \in Ids, Alive(j)' PROVE Alive(j) /\ pidfile'[j] = pidfile[j]
    <3>1. 0 \notin live[j]
      BY DEF NamesLatest
    <3> QED
      BY <1>1, <1>4, <2>2, <3>1 DEF Alive
  <2> QED
    BY <1>1, <2>1, <2>2 DEF Tracked, Unreported
<1> QED
  BY <1>2, <1>3, <1>5, <1>6

-----------------------------------------------------------------------------
\* Ends of processes, and what the loop hears of them.
LEMMA EndStep ==
    ASSUME LifecycleInv, NEW i \in Ids, ForceStop(i) \/ Exit(i)
    PROVE  LifecycleInv'
<1> USE DEF LifecycleInv
<1>1. /\ live' \in [Ids -> SUBSET Runs] /\ table' \in [Ids -> 0 .. MaxRuns]
      /\ failed' \in [Ids -> SUBSET Runs]
      /\ \A j \in Ids : live'[j] \subseteq live[j] /\ failed[j] \subseteq failed'[j]
      /\ \A j \in Ids : j # i => table'[j] = table[j]
      /\ UNCHANGED <<runs, dirs, pidfile, pc, target, starting, watch, attaching, restarts,
                     hurried>>
  <2>1. CASE ForceStop(i)
    <3>1. /\ table' = [table EXCEPT ![i] = 0]
          /\ \/ /\ live' = [live EXCEPT ![i] = @ \ {table[i]}] /\ failed' = failed
             \/ /\ failed' = [failed EXCEPT ![i] = @ \cup {table[i]}] /\ live' = live
          /\ table[i] # 0
          /\ UNCHANGED <<runs, dirs, pidfile, pc, target, starting, watch, attaching,
                         restarts, hurried>>
      BY <2>1 DEF ForceStop, Kill, handlers
    <3>2. 0 \in 0 .. MaxRuns /\ table[i] \in Runs
      BY <3>1, LifecycleAssumption DEF TypeOK, Runs
    <3> HIDE DEF LifecycleInv
    <3>3. /\ live \in [Ids -> SUBSET Runs] /\ table \in [Ids -> 0 .. MaxRuns]
          /\ failed \in [Ids -> SUBSET Runs]
      BY DEF LifecycleInv, TypeOK
    <3> QED
      BY <3>1, <3>2, <3>3
  <2>2. CASE Exit(i)
    <3>1. PICK k : live' = [live EXCEPT ![i] = @ \ {k}]
      BY <2>2 DEF Exit
    <3> QED
      BY <2>2, <3>1 DEF Exit, handlers, histories, TypeOK
  <2> QED
    BY <2>1, <2>2
<1>2. TypeOK'
  BY <1>1 DEF TypeOK
<1>3. Guards' /\ Launched' /\ Unattached'
  BY <1>1 DEF Guards, Launched, Unattached, Starter
<1>4. NamesLatest' /\ WatchesDead'
  BY <1>1 DEF NamesLatest, WatchesDead
<1>5. \A j \in Ids : Handed(j)' <=> Handed(j)
  BY <1>1 DEF Handed, Busy
<1>6. \A j \in Ids : Alive(j)' => Alive(j)
  BY <1>1 DEF Alive
<1>7. \A j \in Ids : Unreported(j, pidfile[j])' <=> Unreported(j, pidfile[j])
  BY <1>1 DEF Unreported
<1>8. ASSUME ForceStop(i), Alive(i)', Handed(i), i \notin attaching,
             pidfile[i] \notin failed'[i] \cup hurried[i]
      PROVE  FALSE
  <2>1. table[i] = pidfile[i]
    BY <1>1, <1>6, <1>8 DEF Tracked
  <2>2. \/ live' = [live EXCEPT ![i] = @ \ {table[i]}]
        \/ failed' = [failed EXCEPT ![i] = @ \cup {table[i]}]
    BY <1>8 DEF ForceStop, Kill
  <2> QED
    BY <1>1, <1>8, <2>1, <2>2 DEF Alive, TypeOK
<1>9. Tracked'
  <2>1. ASSUME NEW j \in Ids, Alive(j)', Handed(j)', j \notin attaching',
               pidfile'[j] \notin failed'[j] \cup hurried'[j]
        PROVE  table'[j] = pidfile'[j] /\ ~Unreported(j, pidfile[j])'
    <3>1. table[j] = pidfile[j] /\ ~Unreported(j, pidfile[j])
      BY <1>1, <1>5, <1>6, <2>1 DEF Tracked
    <3>2. CASE j # i
      BY <1>1, <1>7, <3>1, <3>2
    <3>3. CASE j = i /\ ForceStop(i)
      BY <1>1, <1>5, <1>8, <2>1, <3>3
    <3>4. CASE j = i /\ Exit(i)
      BY <1>1, <1>7, <3>1, <3>4 DEF Exit
    <3> QED
      BY <3>2, <3>3, <3>4
  <2> QED
    BY <1>1, <2>1 DEF Tracked
<1> QED
  BY <1>2, <1>3, <1>4, <1>9

LEMMA WatchStep ==
    ASSUME LifecycleInv, NEW i \in Ids, NEW k \in Runs, Watch(i, k)
    PROVE  LifecycleInv'
<1> USE DEF LifecycleInv
<1>1. /\ UNCHANGED <<live, runs, dirs, pidfile, pc, target, starting, attaching, restarts,
                     failed, hurried>>
      /\ \/ /\ watch[i][k] = "watching" /\ k \notin live[i] /\ table' = table
            /\ watch' = [watch EXCEPT ![i][k] = "sending"]
         \/ /\ watch[i][k] = "sending" /\ table' = [table EXCEPT ![i] = 0]
            /\ watch' = [watch EXCEPT ![i][k] = "ended"]
  BY DEF Watch, WatcherWakes, Removal, Forget, handlers, histories
<1>2. k \notin live[i]
  BY <1>1 DEF WatchesDead
<1>3. /\ \A j \in Ids : j # i => table'[j] = table[j] /\ watch'[j] = watch[j]
      /\ \A n \in Runs : n # k => watch'[i][n] = watch[i][n]
      /\ watch[i][k] \in {"watching", "sending"}
  BY <1>1 DEF TypeOK
<1>4. TypeOK'
  <2>1. 0 \in 0 .. MaxRuns
    BY LifecycleAssumption
  <2>2. table' \in [Ids -> 0 .. MaxRuns]
    BY <1>1, <2>1 DEF TypeOK
  <2>3. watch' \in [Ids -> [Runs -> {"none", "watching", "sending", "ended"}]]
    <3>1. \A w \in {"sending", "ended"} :
             [watch[i] EXCEPT ![k] = w] \in [Runs -> {"none", "watching", "sending", "ended"}]
      BY DEF TypeOK
    <3>2. watch' = [watch EXCEPT ![i] = [watch[i] EXCEPT ![k] = "sending"]]
          \/ watch' = [watch EXCEPT ![i] = [watch[i] EXCEPT ![k] = "ended"]]
      BY <1>1
    <3>3. watch \in [Ids -> [Runs -> {"none", "watching", "sending", "ended"}]]
      BY DEF TypeOK
    <3> HIDE DEF LifecycleInv
    <3> QED
      BY <3>1, <3>2, <3>3
  <2> QED
    BY <1>1, <2>2, <2>3 DEF TypeOK
<1>5. Guards' /\ Launched'
  BY <1>1 DEF Guards, Launched, Starter
<1>6. Unattached'
  <2>1. i \notin attaching
    BY <1>3 DEF Unattached
  <2>2. \A j \in attaching : j \in Ids
    BY DEF TypeOK
  <2> QED
    BY <1>1, <1>3, <2>1, <2>2 DEF Unattached
<1>7. NamesLatest'
  BY <1>1 DEF NamesLatest
<1>8. WatchesDead'
  BY <1>1, <1>2, <1>3 DEF WatchesDead
<1>9. Tracked'
  <2>1. \A j \in Ids : Handed(j)' <=> Handed(j)
    BY <1>1 DEF Handed, Busy
  <2>2. Alive(i) => i \in attaching \/ ~Handed(i) \/ pidfile[i] \in failed[i] \cup hurried[i]
    <3>1. SUFFICES ASSUME Alive(i), i \notin attaching, Handed(i),
                          pidfile[i] \notin failed[i] \cup hurried[i]
                   PROVE  FALSE
      OBVIOUS
    <3>2. ~Unreported(i, pidfile[i]) /\ k # pidfile[i]
      BY <1>2, <3>1 DEF Tracked, Alive
    <3> QED
      BY <1>3, <3>2 DEF Unreported
  <2> QED
    BY <1>1, <1>3, <2>1, <2>2 DEF Tracked, Alive, Unreported
<1> QED
  BY <1>4, <1>5, <1>6, <1>7, <1>8, <1>9

-----------------------------------------------------------------------------
\* A restarted service has everything to attach to that has a directory.
LEMMA RestartStep ==
    ASSUME LifecycleInv, Restart PROVE LifecycleInv'
<1> USE DEF LifecycleInv
<1>1. TypeOK'
  BY LifecycleAssumption DEF Restart, histories, TypeOK
<1>2. Guards' /\ Launched' /\ NamesLatest'
  BY DEF Restart, Guards, Launched, NamesLatest, Starter, StartSteps
<1>3. Unattached' /\ WatchesDead'
  BY DEF Restart, Unattached, WatchesDead, TypeOK
<1>4. Tracked'
  <2>1. \A j \in Ids : Alive(j)' => j \in attaching'
    BY AliveFacts DEF Restart, Alive
  <2> QED
    BY <2>1 DEF Tracked
<1> QED
  BY <1>1, <1>2, <1>3, <1>4

LEMMA AttachStep ==
    ASSUME LifecycleInv, NEW i \in Ids, Attach(i) PROVE LifecycleInv'
<1> USE DEF LifecycleInv
<1>1. /\ i \in attaching /\ attaching' = attaching \ {i}
      /\ UNCHANGED <<live, runs, dirs, pidfile, pc, target, starting, restarts, hurried>>
  BY DEF Attach, handlers
<1>2. Guards' /\ Launched' /\ NamesLatest'
  BY <1>1 DEF Guards, Launched, NamesLatest, Starter
<1>3. \A j \in Ids : (Handed(j)' <=> Handed(j)) /\ (Alive(j)' <=> Alive(j))
  BY <1>1 DEF Handed, Busy, Alive
<1>4. \A n \in Runs : watch[i][n] = "none"
  BY <1>1 DEF Unattached
<1>5. CASE UNCHANGED <<table, watch>>
  <2>1. /\ failed' \in [Ids -> SUBSET Runs]
        /\ \A j \in Ids : failed[j] \subseteq failed'[j]
        /\ Alive(i) => pidfile[i] \in failed'[i]
    <3>1. CASE failed' = failed /\ ~Alive(i)
      BY <3>1 DEF TypeOK
    <3>2. CASE Alive(i) /\ failed' = [failed EXCEPT ![i] = @ \cup {pidfile[i]}]
      <4>1. pidfile[i] \in Runs
        BY <3>2, AliveFacts
      <4> HIDE DEF LifecycleInv
      <4>2. failed \in [Ids -> SUBSET Runs]
        BY DEF LifecycleInv, TypeOK
      <4> QED
        BY <3>2, <4>1, <4>2
    <3>3. CASE Alive(i) /\ Track(i, pidfile[i])
      <4>1. pidfile[i] \in Runs
        BY <3>3, AliveFacts
      <4>2. watch'[i][pidfile[i]] = "watching"
        BY <3>3, <4>1, TrackFacts
      <4> QED
        BY <1>4, <1>5, <4>1, <4>2
    <3> QED
      BY <3>1, <3>2, <3>3 DEF Attach
  <2>2. TypeOK'
    BY <1>1, <1>5, <2>1 DEF TypeOK
  <2>3. Unattached' /\ WatchesDead'
    BY <1>1, <1>5 DEF Unattached, WatchesDead
  <2>4. Tracked'
    <3>1. ASSUME NEW j \in Ids, Alive(j)', Handed(j)', j \notin attaching',
                 pidfile'[j] \notin failed'[j] \cup hurried'[j]
          PROVE  table'[j] = pidfile'[j] /\ ~Unreported(j, pidfile[j])'
      <4>1. j # i
        BY <1>1, <1>3, <2>1, <3>1
      <4>2. table[j] = pidfile[j] /\ ~Unreported(j, pidfile[j])
        BY <1>1, <1>3, <2>1, <3>1, <4>1 DEF Tracked
      <4> QED
        BY <1>1, <1>5, <4>2 DEF Unreported
    <3> QED
      BY <1>1, <3>1 DEF Tracked
  <2> QED
    BY <1>2, <2>2, <2>3, <2>4
<1>6. CASE ~UNCHANGED <<table, watch>>
  <2>1. Alive(i) /\ Track(i, pidfile[i]) /\ failed' = failed
    BY <1>6 DEF Attach
  <2>2. pidfile[i] \in Runs /\ pidfile[i] = runs[i]
    BY <2>1, AliveFacts
  <2>3. /\ table' \in [Ids -> 0 .. MaxRuns]
        /\ watch' \in [Ids -> [Runs -> {"none", "watching", "sending", "ended"}]]
        /\ table'[i] = pidfile[i] /\ watch'[i][pidfile[i]] = "watching"
        /\ \A n \in Runs : n # pidfile[i] => watch'[i][n] = watch[i][n]
        /\ \A j \in Ids : j # i => table'[j] = table[j] /\ watch'[j] = watch[j]
    BY <2>1, <2>2, TrackFacts
  <2>4. TypeOK'
    BY <1>1, <2>1, <2>3 DEF TypeOK
  <2>5. Unattached'
    <3>1. \A j \in attaching : j \in Ids
      BY DEF TypeOK
    <3> QED
      BY <1>1, <2>3, <3>1 DEF Unattached
  <2>6. WatchesDead'
    <3>1. ASSUME NEW j \in Ids, NEW n \in Runs
          PROVE  /\ watch'[j][n] # "none" => n <= runs[j]
                 /\ watch'[j][n] = "sending" => n \notin live[j]
      <4>1. CASE j = i /\ n = pidfile[i]
        <5>1. n <= runs[j]
          BY <2>2, <4>1, LifecycleAssumption DEF Runs
        <5> QED
          BY <2>3, <4>1, <5>1
      <4>2. CASE ~(j = i /\ n = pidfile[i])
        BY <2>3, <4>2 DEF WatchesDead
      <4> QED
        BY <4>1, <4>2
    <3> QED
      BY <1>1, <3>1 DEF WatchesDead
  <2>7. Tracked'
    <3>1. ASSUME NEW j \in Ids, Alive(j)', Handed(j)', j \notin attaching',
                 pidfile'[j] \notin failed'[j] \cup hurried'[j]
          PROVE  table'[j] = pidfile'[j] /\ ~Unreported(j, pidfile[j])'
      <4>1. CASE j = i
        BY <1>1, <1>4, <2>3, <4>1 DEF Unreported
      <4>2. CASE j # i
        <5>1. table[j] = pidfile[j] /\ ~Unreported(j, pidfile[j])
          BY <1>1, <1>3, <2>1, <3>1, <4>2 DEF Tracked
        <5> QED
          BY <1>1, <2>3, <4>2, <5>1 DEF Unreported
      <4> QED
        BY <4>1, <4>2
    <3> QED
      BY <1>1, <3>1 DEF Tracked
  <2> QED
    BY <1>2, <2>4, <2>5, <2>6, <2>7
<1> QED
  BY <1>5, <1>6

LEMMA AttachUnreadStep ==
    ASSUME LifecycleInv, AttachUnread PROVE LifecycleInv'
<1> USE DEF LifecycleInv
<1>1. /\ attaching' = {}
      /\ UNCHANGED <<live, runs, dirs, pidfile, pc, target, starting, table, watch, restarts,
                     hurried>>
      /\ failed' = [i \in Ids |-> failed[i] \cup ({pidfile[i]} \cap live[i])]
  BY DEF AttachUnread, handlers
<1>2. failed' \in [Ids -> SUBSET Runs]
  BY <1>1 DEF TypeOK
<1>3. TypeOK'
  BY <1>1, <1>2 DEF TypeOK
<1>4. Guards' /\ Launched' /\ Unattached' /\ NamesLatest' /\ WatchesDead'
  BY <1>1 DEF Guards, Launched, Unattached, NamesLatest, WatchesDead, Starter
<1>5. \A j \in Ids : Alive(j)' => pidfile'[j] \in failed'[j]
  BY <1>1 DEF Alive
<1> QED
  BY <1>3, <1>4, <1>5 DEF Tracked

-----------------------------------------------------------------------------
\* Every step preserves the invariant.
LEMMA LifecycleNext ==
    ASSUME LifecycleInv, [Next]_vars PROVE LifecycleInv'
<1>1. ASSUME NEW c \in Callers, Handle(c) PROVE LifecycleInv'
  BY <1>1, PrepareStep, LaunchStep, StartFailsStep, DeliverStep, DeleteStep DEF Handle
<1>2. ASSUME NEW c \in Callers, NEW i \in Ids, StartRequest(c, i) \/ RemoveCheck(c, i)
      PROVE  LifecycleInv'
  BY <1>2, RequestStep
<1>3. ASSUME NEW i \in Ids, ForceStop(i) \/ Exit(i) \/ Attach(i) PROVE LifecycleInv'
  BY <1>3, EndStep, AttachStep
<1>4. ASSUME NEW i \in Ids, NEW k \in Runs, Watch(i, k) PROVE LifecycleInv'
  BY <1>4, WatchStep
<1>5. CASE Restart \/ AttachUnread
  BY <1>5, RestartStep, AttachUnreadStep
<1>6. CASE UNCHANGED vars
  BY <1>6
  DEF vars, histories, LifecycleInv, TypeOK, Guards, Launched, Unattached, NamesLatest,
      WatchesDead, Tracked, Alive, Unreported, Starter, Handed, Busy
<1> QED
  BY <1>1, <1>2, <1>3, <1>4, <1>5, <1>6 DEF Next

\* One Start works on an id at a time, what a directory names is the latest
\* process of its id, and what was handed over is tracked.
THEOREM LifecycleInvariant == Spec => []LifecycleInv
BY LifecycleInit, LifecycleNext, PTL DEF Spec

\* The variables of the QEMU service keep their types.
THEOREM LifecycleTypeCorrect == Spec => []TypeOK
BY LifecycleInvariant, PTL DEF LifecycleInv

\* A VM that runs is out of the reach of Stop only if a call on that very
\* process failed or it was handed over before the end of an earlier one had
\* been reported (process.go), whatever starts, removals, late watchers and
\* restarts of the service came before.
THEOREM LifecycleLiveIsTracked == Spec => []LiveIsTracked
<1>1. LifecycleInv => LiveIsTracked
  BY DEF LifecycleInv, Tracked, Handed, LiveIsTracked, OutOfReach, Serving
<1> QED
  BY <1>1, LifecycleInvariant, PTL

-----------------------------------------------------------------------------
(* The loop, its handlers and watchers implement QemuService *)

\* The Remove handlers of each id that are about to delete.
Counts == [i \in Ids |-> Cardinality(Removers(i))]

\* What the controller sees.
seen == <<Processes, Strays, dirs, Progress, Counts>>

\* At most one Start of an id is in progress, and Progress says how far it is.
LEMMA ProgressOfStarter ==
    ASSUME Guards, NEW i \in Ids, NEW c \in Callers, target[c] = i, Starter(c)
    PROVE  Progress[i] = CASE pc[c] = "prepare" -> "accepted"
                           [] pc[c] = "launch" -> "preparing"
                           [] pc[c] = "deliver" -> "launched"
<1>1. \A steps \in SUBSET StartSteps : Busy(i, steps) <=> pc[c] \in steps
  BY DEF Guards, Busy, Starter
<1>2. /\ Busy(i, {"prepare"}) <=> pc[c] = "prepare"
      /\ Busy(i, {"launch"}) <=> pc[c] = "launch"
      /\ Busy(i, {"deliver"}) <=> pc[c] = "deliver"
  BY <1>1 DEF StartSteps
<1> QED
  BY <1>2 DEF Progress, Starter, StartSteps

LEMMA ProgressWithout ==
    ASSUME NEW i \in Ids, \A c \in Callers : target[c] = i => ~Starter(c)
    PROVE  Progress[i] = "idle"
BY DEF Progress, Busy, Starter, StartSteps

\* The progress of an id depends on the handlers that work on it.
LEMMA ProgressStays ==
    ASSUME NEW i \in Ids,
           \A c \in Callers : \A s \in StartSteps :
              target'[c] = i /\ pc'[c] = s <=> target[c] = i /\ pc[c] = s
    PROVE  Progress'[i] = Progress[i]
<1>1. /\ Busy(i, {"prepare"})' <=> Busy(i, {"prepare"})
      /\ Busy(i, {"launch"})' <=> Busy(i, {"launch"})
      /\ Busy(i, {"deliver"})' <=> Busy(i, {"deliver"})
  BY DEF Busy, StartSteps
<1> QED
  BY <1>1 DEF Progress

\* A step of one Start moves the progress of its id and no other.
LEMMA ProgressMoves ==
    ASSUME LifecycleInv, LifecycleInv', NEW c \in Callers, NEW to,
           Starter(c), Goto(c, to), target' = target, to \in StartSteps \cup {"idle"}
    PROVE  LET next == CASE to = "prepare" -> "accepted"
                         [] to = "launch" -> "preparing"
                         [] to = "deliver" -> "launched"
                         [] OTHER -> "idle"
           IN  Progress' = [Progress EXCEPT ![target[c]] = next]
<1> DEFINE i == target[c]
           next == CASE to = "prepare" -> "accepted"
                     [] to = "launch" -> "preparing"
                     [] to = "deliver" -> "launched"
                     [] OTHER -> "idle"
<1>1. TypeOK /\ i \in Ids /\ Guards /\ Guards'
  BY DEF LifecycleInv, TypeOK
<1>2. pc'[c] = to /\ \A d \in Callers : d # c => pc'[d] = pc[d]
  BY <1>1, OneCaller
<1>3. \A j \in Ids : j # i => Progress'[j] = Progress[j]
  BY <1>1, <1>2, ProgressStays
<1>4. Progress'[i] = next
  <2>1. CASE to \in StartSteps
    <3>1. Starter(c)' /\ target'[c] = i
      BY <1>2, <2>1 DEF Starter
    <3>2. \A d \in Callers : target'[d] = i /\ pc'[d] \in StartSteps => d = c
      BY <1>1, <3>1 DEF Guards, Starter
    <3>3. /\ Busy(i, {"prepare"})' <=> to = "prepare"
          /\ Busy(i, {"launch"})' <=> to = "launch"
          /\ Busy(i, {"deliver"})' <=> to = "deliver"
      BY <1>2, <2>1, <3>1, <3>2 DEF Busy, StartSteps
    <3> QED
      BY <1>1, <2>1, <3>3 DEF Progress, StartSteps
  <2>2. CASE to = "idle"
    <3>1. \A d \in Callers : target'[d] = i => pc'[d] \notin StartSteps
      BY <1>1, <1>2, <2>2 DEF Guards, Starter, StartSteps
    <3>2. ~Busy(i, {"prepare"})' /\ ~Busy(i, {"launch"})' /\ ~Busy(i, {"deliver"})'
      BY <3>1 DEF Busy, StartSteps
    <3> QED
      BY <1>1, <2>2, <3>2 DEF Progress
  <2> QED
    BY <2>1, <2>2
<1>5. /\ Progress \in [Ids -> {"idle", "accepted", "preparing", "launched"}]
      /\ Progress' \in [Ids -> {"idle", "accepted", "preparing", "launched"}]
  BY DEF Progress
<1> QED
  BY <1>1, <1>3, <1>4, <1>5

\* Who is not about to delete does not count.
LEMMA CountsStay ==
    ASSUME \A d \in Callers : pc'[d] = "delete" <=> pc[d] = "delete",
           \A d \in Callers : pc[d] = "delete" => target'[d] = target[d]
    PROVE  Counts' = Counts
<1>1. \A i \in Ids : Removers(i)' = Removers(i)
  BY DEF Removers
<1> QED
  BY <1>1 DEF Counts

\* StartRequest lets a Start in.
LEMMA RequestMaps ==
    ASSUME LifecycleInv, LifecycleInv', NEW c \in Callers, NEW i \in Ids, StartRequest(c, i)
    PROVE  Service!Accept(i)
<1>1. /\ TypeOK /\ Guards /\ Guards' /\ pc[c] = "idle" /\ i \notin starting
      /\ pc'[c] = "prepare" /\ target'[c] = i
      /\ \A d \in Callers : d # c => pc'[d] = pc[d] /\ target'[d] = target[d]
      /\ UNCHANGED <<live, dirs, pidfile>>
  BY OneCaller DEF LifecycleInv, StartRequest, Guarded, TypeOK
<1>2. Progress[i] = "idle"
  <2>1. \A d \in Callers : target[d] = i => ~Starter(d)
    BY <1>1 DEF Guards
  <2> QED
    BY <2>1, ProgressWithout
<1>3. Progress'[i] = "accepted"
  <2>1. \A d \in Callers : target'[d] = i /\ pc'[d] \in StartSteps => d = c
    BY <1>1 DEF Guards, Starter, StartSteps
  <2>2. Busy(i, {"prepare"})' /\ ~Busy(i, {"launch"})' /\ ~Busy(i, {"deliver"})'
    BY <1>1, <2>1 DEF Busy, StartSteps
  <2> QED
    BY <2>2 DEF Progress
<1>4. ASSUME NEW j \in Ids, j # i PROVE Progress'[j] = Progress[j]
  <2>1. \A d \in Callers : \A s \in StartSteps :
           target'[d] = j /\ pc'[d] = s <=> target[d] = j /\ pc[d] = s
    BY <1>1, <1>4 DEF StartSteps
  <2> QED
    BY <2>1, ProgressStays
<1>5. Progress' = [Progress EXCEPT ![i] = "accepted"]
  BY <1>3, <1>4 DEF Progress
<1>6. Processes' = Processes /\ Strays' = Strays /\ Counts' = Counts
  BY <1>1, CountsStay DEF Processes, Strays, Alive
<1> QED
  BY <1>1, <1>2, <1>5, <1>6 DEF Service!Accept, Service!Move, Counts

\* Prepare, Launch, Deliver and a failure each move the Start on.
LEMMA StartMaps ==
    ASSUME LifecycleInv, LifecycleInv', NEW c \in Callers,
           Prepare(c) \/ Launch(c) \/ StartFails(c) \/ Deliver(c)
    PROVE  LET i == target[c]
           IN  Service!MakeDir(i) \/ Service!Launch(i) \/ Service!Fail(i) \/ Service!Reply(i)
<1> DEFINE i == target[c]
<1>1. TypeOK /\ Guards /\ i \in Ids
  BY DEF LifecycleInv, TypeOK
<1>2. Starter(c) /\ target' = target
  BY DEF Prepare, Launch, StartFails, Deliver, Starter, StartSteps
<1>3. Progress[i] = CASE pc[c] = "prepare" -> "accepted"
                      [] pc[c] = "launch" -> "preparing"
                      [] pc[c] = "deliver" -> "launched"
  BY <1>1, <1>2, ProgressOfStarter
<1>4. Counts' = Counts
  <2>1. pc[c] # "delete" /\ pc'[c] # "delete" /\ \A d \in Callers : d # c => pc'[d] = pc[d]
    BY <1>1, OneCaller
    DEF Prepare, Launch, StartFails, Deliver, EndStart
  <2> QED
    BY <1>2, <2>1, CountsStay
<1>5. UNCHANGED <<live, pidfile>> => Processes' = Processes /\ Strays' = Strays
  BY DEF Processes, Strays, Alive
<1>6. CASE Prepare(c)
  <2>1. /\ pc[c] = "prepare" /\ Goto(c, "launch") /\ dirs' = dirs \cup {i}
        /\ UNCHANGED <<live, pidfile>>
    BY <1>6 DEF Prepare
  <2>2. Progress' = [Progress EXCEPT ![i] = "preparing"]
    BY <1>2, <2>1, ProgressMoves DEF StartSteps
  <2>3. Progress[i] = "accepted"
    BY <1>3, <2>1
  <2> QED
    BY <1>4, <1>5, <2>1, <2>2, <2>3 DEF Service!MakeDir, Service!Move, Counts
<1>7. CASE Launch(c)
  <2>1. /\ pc[c] = "launch" /\ Goto(c, "deliver") /\ dirs' = dirs /\ i \in dirs
        /\ ~Alive(i)
        /\ live' = [live EXCEPT ![i] = @ \cup {runs[i] + 1}]
        /\ pidfile' = [pidfile EXCEPT ![i] = runs[i] + 1]
    BY <1>7 DEF Launch
  <2>2. Progress' = [Progress EXCEPT ![i] = "launched"]
    BY <1>2, <2>1, ProgressMoves DEF StartSteps
  <2>3. Progress[i] = "preparing"
    BY <1>3, <2>1
  <2>4. /\ \A j \in Ids : j # i => live'[j] = live[j] /\ pidfile'[j] = pidfile[j]
        /\ live'[i] = live[i] \cup {runs[i] + 1} /\ pidfile'[i] = runs[i] + 1
    BY <1>1, <2>1 DEF TypeOK
  <2>5. Processes' = Processes \cup {i} /\ i \notin Processes
    BY <1>1, <2>1, <2>4 DEF Processes, Alive
  <2>6. Strays' = Strays
    <3>1. runs[i] + 1 \notin live[i]
      BY <1>1 DEF LifecycleInv, NamesLatest, TypeOK
    <3>2. live'[i] \ {pidfile'[i]} = live[i] \ {pidfile[i]}
      BY <2>1, <2>4, <3>1 DEF Alive
    <3>3. \A j \in Ids : live'[j] \ {pidfile'[j]} = live[j] \ {pidfile[j]}
      BY <2>4, <3>2
    <3> QED
      BY <3>3 DEF Strays
  <2> QED
    BY <1>4, <2>1, <2>2, <2>3, <2>5, <2>6 DEF Service!Launch, Service!Move, Counts
<1>8. CASE StartFails(c)
  <2>1. /\ pc[c] \in {"prepare", "launch"} /\ Goto(c, "idle")
        /\ UNCHANGED <<live, dirs, pidfile>>
    BY <1>8 DEF StartFails, EndStart
  <2>2. Progress' = [Progress EXCEPT ![i] = "idle"]
    BY <1>2, <2>1, ProgressMoves
  <2>3. Progress[i] \in {"accepted", "preparing"}
    BY <1>3, <2>1
  <2> QED
    BY <1>4, <1>5, <2>1, <2>2, <2>3 DEF Service!Fail, Service!Move, Counts
<1>9. CASE Deliver(c)
  <2>1. pc[c] = "deliver" /\ Goto(c, "idle") /\ UNCHANGED <<live, dirs, pidfile>>
    BY <1>9 DEF Deliver, EndStart
  <2>2. Progress' = [Progress EXCEPT ![i] = "idle"]
    BY <1>2, <2>1, ProgressMoves
  <2>3. Progress[i] = "launched"
    BY <1>3, <2>1
  <2> QED
    BY <1>4, <1>5, <2>1, <2>2, <2>3 DEF Service!Reply, Service!Move, Counts
<1> QED
  BY <1>6, <1>7, <1>8, <1>9

\* A Remove that has checked is one more that is about to delete.
LEMMA CheckMaps ==
    ASSUME LifecycleInv, NEW c \in Callers, NEW i \in Ids, RemoveCheck(c, i)
    PROVE  Service!RemoveCheck(i)
<1>1. /\ TypeOK /\ pc[c] = "idle" /\ pc'[c] = "delete" /\ target'[c] = i /\ ~Alive(i)
      /\ \A d \in Callers : d # c => pc'[d] = pc[d] /\ target'[d] = target[d]
      /\ UNCHANGED <<live, dirs, pidfile>>
  BY OneCaller DEF LifecycleInv, RemoveCheck, MayRemove, TypeOK
<1>2. Progress' = Progress
  <2>1. \A j \in Ids : Progress'[j] = Progress[j]
    BY <1>1, ProgressStays DEF StartSteps
  <2> QED
    BY <2>1 DEF Progress
<1>3. Processes' = Processes /\ Strays' = Strays /\ i \notin Processes
  BY <1>1 DEF Processes, Strays, Alive
<1>4. Removers(i)' = Removers(i) \cup {c} /\ c \notin Removers(i)
  BY <1>1 DEF Removers
<1>5. Cardinality(Removers(i)') = Cardinality(Removers(i)) + 1
  <2>1. IsFiniteSet(Removers(i))
    BY LifecycleAssumption, FS_Subset DEF Removers
  <2> QED
    BY <1>4, <2>1, FS_AddElement
<1>6. \A j \in Ids : j # i => Removers(j)' = Removers(j)
  BY <1>1 DEF Removers
<1>7. Counts' = [Counts EXCEPT ![i] = @ + 1]
  BY <1>5, <1>6 DEF Counts
<1> QED
  BY <1>1, <1>2, <1>3, <1>7 DEF Service!RemoveCheck, Counts

\* The directory goes, and the process that it names is named by nothing.
LEMMA DeleteMaps ==
    ASSUME LifecycleInv, NEW c \in Callers, RemoveDelete(c)
    PROVE  Service!RemoveDelete(target[c]) \/ Service!RemoveFail(target[c])
<1> DEFINE i == target[c]
<1>1. /\ TypeOK /\ i \in Ids /\ pc[c] = "delete" /\ pc'[c] = "idle"
      /\ \A d \in Callers : d # c => pc'[d] = pc[d]
      /\ UNCHANGED <<live, target>>
      /\ \/ dirs' = dirs \ {i} /\ pidfile' = [pidfile EXCEPT ![i] = 0]
         \/ UNCHANGED <<dirs, pidfile>>
  BY OneCaller DEF LifecycleInv, RemoveDelete, TypeOK
<1>2. Progress' = Progress
  <2>1. \A j \in Ids : Progress'[j] = Progress[j]
    BY <1>1, ProgressStays DEF StartSteps
  <2> QED
    BY <2>1 DEF Progress
<1>3. Removers(i)' = Removers(i) \ {c} /\ c \in Removers(i)
  BY <1>1 DEF Removers
<1>4. /\ Cardinality(Removers(i)') = Cardinality(Removers(i)) - 1
      /\ Cardinality(Removers(i)) > 0
  <2>1. IsFiniteSet(Removers(i))
    BY LifecycleAssumption, FS_Subset DEF Removers
  <2>2. Cardinality(Removers(i)') = Cardinality(Removers(i)) - 1
    BY <1>3, <2>1, FS_RemoveElement
  <2>3. Cardinality(Removers(i)) \in Nat /\ Cardinality(Removers(i)) # 0
    BY <1>3, <2>1, FS_EmptySet, FS_CardinalityType
  <2> QED
    BY <2>2, <2>3
<1>5. \A j \in Ids : j # i => Removers(j)' = Removers(j)
  BY <1>1 DEF Removers
<1>6. Counts[i] > 0 /\ Counts' = [Counts EXCEPT ![i] = @ - 1]
  BY <1>1, <1>4, <1>5 DEF Counts
<1>7. CASE UNCHANGED <<dirs, pidfile>>
  <2>1. Processes' = Processes /\ Strays' = Strays
    BY <1>1, <1>7 DEF Processes, Strays, Alive
  <2> QED
    BY <1>2, <1>6, <1>7, <2>1 DEF Service!RemoveFail, Counts
<1>8. CASE dirs' = dirs \ {i} /\ pidfile' = [pidfile EXCEPT ![i] = 0]
  <2>1. /\ pidfile'[i] = 0 /\ 0 \notin live[i]
        /\ \A j \in Ids : j # i => pidfile'[j] = pidfile[j]
    BY <1>1, <1>8 DEF LifecycleInv, NamesLatest, TypeOK
  <2>2. Processes' = Processes \ {i}
    BY <1>1, <2>1 DEF Processes, Alive
  <2>3. live'[i] \ {pidfile'[i]} # {} <=> live[i] \ {pidfile[i]} # {} \/ Alive(i)
    BY <1>1, <2>1 DEF Alive
  <2>4. Strays' = Strays \cup (Processes \cap {i})
    BY <1>1, <2>1, <2>3 DEF Strays, Processes
  <2> QED
    BY <1>2, <1>6, <1>8, <2>2, <2>4 DEF Service!RemoveDelete, Counts
<1> QED
  BY <1>1, <1>7, <1>8

\* Everything else is the end of a process, or nothing that the controller
\* can tell.
LEMMA OthersMap ==
    ASSUME LifecycleInv,
           \/ \E i \in Ids : \/ ForceStop(i) \/ Exit(i) \/ Attach(i)
                             \/ \E k \in Runs : Watch(i, k)
           \/ AttachUnread \/ UNCHANGED vars
    PROVE  \/ \E i \in Ids : Service!Exit(i)
           \/ UNCHANGED seen
<1>0. TypeOK
  BY DEF LifecycleInv
<1>1. UNCHANGED <<dirs, pidfile, pc, target>>
  BY DEF ForceStop, Exit, Attach, Watch, WatcherWakes, Removal, AttachUnread, handlers, vars
<1>2. Progress' = Progress /\ Counts' = Counts
  BY <1>1, CountsStay DEF Progress, Busy
<1>3. ASSUME NEW i \in Ids, NEW k, live' = [live EXCEPT ![i] = @ \ {k}]
      PROVE  Service!Exit(i) \/ UNCHANGED seen
  <2>1. live'[i] = live[i] \ {k} /\ \A j \in Ids : j # i => live'[j] = live[j]
    BY <1>0, <1>3 DEF TypeOK
  <2>2. CASE k = pidfile[i]
    <3>1. Strays' = Strays
      BY <1>1, <2>1, <2>2 DEF Strays
    <3>2. Processes' = Processes \ {i}
      BY <1>1, <2>1, <2>2 DEF Processes, Alive
    <3>3. i \notin Processes => Processes' = Processes
      BY <3>2
    <3> QED
      BY <1>1, <1>2, <3>1, <3>2, <3>3 DEF Service!Exit, seen, Counts
  <2>3. CASE k # pidfile[i]
    <3>1. Processes' = Processes
      BY <1>1, <2>1, <2>3 DEF Processes, Alive
    <3>2. (i \in Strays /\ Strays' = Strays \ {i}) \/ Strays' = Strays
      BY <1>1, <2>1 DEF Strays
    <3> QED
      BY <1>1, <1>2, <3>1, <3>2 DEF Service!Exit, seen, Counts
  <2> QED
    BY <2>2, <2>3
<1>4. CASE live' = live
  BY <1>1, <1>2, <1>4 DEF seen, Processes, Strays, Alive
<1>5. CASE \E i \in Ids : ForceStop(i) \/ Exit(i)
  BY <1>3, <1>4, <1>5 DEF ForceStop, Kill, Exit
<1> QED
  BY <1>4, <1>5 DEF Attach, Watch, WatcherWakes, Removal, AttachUnread, vars

\* Every step is a step of the service or none.
LEMMA StepImplementsService ==
    ASSUME LifecycleInv, LifecycleInv', [Next]_vars
    PROVE  [Service!Next]_seen
<1>0. TypeOK
  BY DEF LifecycleInv
<1>1. ASSUME NEW c \in Callers, NEW i \in Ids, StartRequest(c, i) \/ RemoveCheck(c, i)
      PROVE  Service!Next
  BY <1>1, RequestMaps, CheckMaps DEF Service!Next
<1>2. ASSUME NEW c \in Callers, Handle(c) PROVE Service!Next
  <2>1. target[c] \in Ids
    BY <1>0 DEF TypeOK
  <2> QED
    BY <1>2, <2>1, StartMaps, DeleteMaps DEF Handle, Service!Next
<1>3. CASE Restart
  <2>1. /\ \A c \in Callers : pc'[c] = "idle"
        /\ UNCHANGED <<live, dirs, pidfile>>
    BY <1>3 DEF Restart
  <2>2. Progress' = [i \in Ids |-> "idle"]
    BY <2>1 DEF Progress, Busy
  <2>3. Processes' = Processes /\ Strays' = Strays
    BY <2>1 DEF Processes, Strays, Alive
  <2>4. Counts' = [i \in Ids |-> 0]
    <3>1. \A i \in Ids : Removers(i)' = {}
      BY <2>1 DEF Removers
    <3> QED
      BY <3>1, FS_EmptySet DEF Counts
  <2> QED
    BY <2>1, <2>2, <2>3, <2>4 DEF Service!Next, Service!Restart, Counts
<1>4. ASSUME \/ \E i \in Ids : \/ ForceStop(i) \/ Exit(i) \/ Attach(i)
                               \/ \E k \in Runs : Watch(i, k)
             \/ AttachUnread \/ UNCHANGED vars
      PROVE  [Service!Next]_seen
  BY <1>4, OthersMap DEF Service!Next
<1> QED
  BY <1>1, <1>2, <1>3, <1>4 DEF Next

\* The loop, its handlers and its watchers, with failing calls, restarts and
\* Removes that overlap Starts, implement the service that the controller is
\* written on (ImplementsService), for any ids, callers, processes and restarts.
THEOREM LifecycleImplementsService == Spec => ImplementsService
<1>1. Init => Service!Init
  <2> SUFFICES ASSUME Init PROVE Service!Init
    OBVIOUS
  <2>1. Processes = {} /\ Strays = {} /\ Progress = [i \in Ids |-> "idle"] /\ dirs = {}
    BY DEF Init, Processes, Strays, Alive, Progress, Busy
  <2>2. Counts = [i \in Ids |-> 0]
    <3>1. \A i \in Ids : Removers(i) = {}
      BY DEF Init, Removers
    <3> QED
      BY <3>1, FS_EmptySet DEF Counts
  <2> QED
    BY <2>1, <2>2 DEF Service!Init, Counts
<1>2. LifecycleInv /\ LifecycleInv' /\ [Next]_vars => [Service!Next]_seen
  BY StepImplementsService
<1> QED
  BY <1>1, <1>2, LifecycleInvariant, PTL
  DEF Spec, ImplementsService, Service!Spec, seen, Counts

-----------------------------------------------------------------------------
(* What the ends of Starts and of processes rest on *)

\* The Starts in progress and the guards that are taken stay the same when no
\* Start begins or ends.
LEMMA HoldersStay ==
    ASSUME TypeOK, GuardHasHolder, starting' = starting,
           \A c \in Callers : Starter(c) => pc'[c] \in StartSteps /\ target'[c] = target[c]
    PROVE  GuardHasHolder'
BY DEF GuardHasHolder, Busy, Starter

LEMMA GuardStep ==
    ASSUME LifecycleInv, GuardHasHolder, [Next]_vars
    PROVE  GuardHasHolder'
<1>0. TypeOK /\ Guards
  BY DEF LifecycleInv
<1>1. ASSUME NEW c \in Callers, NEW i \in Ids, StartRequest(c, i) PROVE GuardHasHolder'
  <2>1. /\ pc[c] = "idle" /\ pc'[c] = "prepare" /\ target'[c] = i
        /\ \A d \in Callers : d # c => pc'[d] = pc[d] /\ target'[d] = target[d]
        /\ starting' = starting \cup {i}
    BY <1>0, <1>1, OneCaller DEF StartRequest, TypeOK
  <2>2. Busy(i, StartSteps)'
    BY <2>1 DEF Busy, StartSteps
  <2>3. \A j \in starting : Busy(j, StartSteps)'
    BY <2>1 DEF GuardHasHolder, Busy, StartSteps
  <2> QED
    BY <2>1, <2>2, <2>3 DEF GuardHasHolder
<1>2. ASSUME NEW c \in Callers, NEW i \in Ids, RemoveCheck(c, i) PROVE GuardHasHolder'
  <2>1. /\ pc[c] = "idle" /\ starting' = starting
        /\ \A d \in Callers : d # c => pc'[d] = pc[d] /\ target'[d] = target[d]
    BY <1>0, <1>2, OneCaller DEF RemoveCheck, TypeOK
  <2> QED
    BY <1>0, <2>1, HoldersStay DEF Starter, StartSteps
<1>3. ASSUME NEW c \in Callers, StartFails(c) \/ Deliver(c) PROVE GuardHasHolder'
  <2>1. /\ Starter(c) /\ starting' = starting \ {target[c]} /\ target' = target
        /\ \A d \in Callers : d # c => pc'[d] = pc[d]
    BY <1>0, <1>3, OneCaller DEF StartFails, Deliver, EndStart, Starter, StartSteps
  <2>2. ASSUME NEW j \in starting, j # target[c] PROVE Busy(j, StartSteps)'
    <3>1. PICK d \in Callers : target[d] = j /\ pc[d] \in StartSteps
      BY DEF GuardHasHolder, Busy
    <3>2. d # c
      BY <2>2, <3>1
    <3> QED
      BY <2>1, <3>1, <3>2 DEF Busy
  <2> QED
    BY <2>1, <2>2 DEF GuardHasHolder
<1>4. ASSUME NEW c \in Callers, Prepare(c) \/ Launch(c) \/ RemoveDelete(c)
      PROVE  GuardHasHolder'
  <2>1. /\ starting' = starting /\ target' = target
        /\ pc[c] \in StartSteps => pc'[c] \in StartSteps
        /\ \A d \in Callers : d # c => pc'[d] = pc[d]
    BY <1>0, <1>4, OneCaller DEF Prepare, Launch, RemoveDelete, StartSteps
  <2> QED
    BY <1>0, <2>1, HoldersStay DEF Starter
<1>5. ASSUME \/ \E i \in Ids : \/ ForceStop(i) \/ Exit(i) \/ Attach(i)
                               \/ \E k \in Runs : Watch(i, k)
             \/ AttachUnread \/ UNCHANGED vars
      PROVE  GuardHasHolder'
  <2>1. UNCHANGED handlers
    BY <1>5
    DEF ForceStop, Exit, Attach, Watch, WatcherWakes, Removal, AttachUnread, vars, handlers
  <2> QED
    BY <1>0, <2>1, HoldersStay DEF handlers, Starter
<1>6. CASE Restart
  BY <1>6 DEF Restart, GuardHasHolder
<1> QED
  BY <1>1, <1>2, <1>3, <1>4, <1>5, <1>6 DEF Next, Handle

LEMMA WatchedStep ==
    ASSUME LifecycleInv, TrackedIsWatched, [Next]_vars
    PROVE  TrackedIsWatched'
<1>0. TypeOK /\ 0 \notin Runs
  BY LifecycleAssumption DEF LifecycleInv, Runs
<1>1. ASSUME NEW i \in Ids, NEW k \in Runs, Track(i, k) PROVE TrackedIsWatched'
  BY <1>0, <1>1, TrackFacts DEF TrackedIsWatched
<1>2. ASSUME UNCHANGED <<table, watch>> PROVE TrackedIsWatched'
  BY <1>2 DEF TrackedIsWatched
<1>3. ASSUME NEW c \in Callers, Deliver(c) PROVE TrackedIsWatched'
  <2>1. target[c] \in Ids /\ runs[target[c]] \in Runs
    BY <1>0, <1>3 DEF LifecycleInv, Launched, Deliver, TypeOK
  <2> QED
    BY <1>1, <1>3, <2>1 DEF Deliver
<1>4. ASSUME NEW i \in Ids, Attach(i) PROVE TrackedIsWatched'
  BY <1>1, <1>2, <1>4, AliveFacts DEF Attach
<1>5. ASSUME NEW i \in Ids, ForceStop(i) PROVE TrackedIsWatched'
  <2>1. table' = [table EXCEPT ![i] = 0] /\ watch' = watch
    BY <1>5 DEF ForceStop
  <2> QED
    BY <1>0, <2>1 DEF TrackedIsWatched, TypeOK
<1>6. ASSUME NEW i \in Ids, NEW k \in Runs, Watch(i, k) PROVE TrackedIsWatched'
  <2>1. \/ /\ table' = table
           /\ watch' = [watch EXCEPT ![i][k] = "sending"]
        \/ /\ table' = [table EXCEPT ![i] = 0]
           /\ watch' = [watch EXCEPT ![i][k] = "ended"]
    BY <1>6 DEF Watch, WatcherWakes, Removal, Forget
  <2>2. /\ watch \in [Ids -> [Runs -> {"none", "watching", "sending", "ended"}]]
        /\ table \in [Ids -> 0 .. MaxRuns]
    BY <1>0 DEF TypeOK
  <2>3. CASE table' = table /\ watch' = [watch EXCEPT ![i][k] = "sending"]
    BY <2>2, <2>3 DEF TrackedIsWatched
  <2>4. CASE table' = [table EXCEPT ![i] = 0] /\ watch' = [watch EXCEPT ![i][k] = "ended"]
    <3>1. \A j \in Ids : j # i => watch'[j] = watch[j] /\ table'[j] = table[j]
      BY <2>2, <2>4
    <3>2. table'[i] = 0
      BY <2>2, <2>4
    <3> QED
      BY <1>0, <3>1, <3>2 DEF TrackedIsWatched
  <2> QED
    BY <2>1, <2>3, <2>4
<1>7. CASE Restart
  <2>1. \A i \in Ids : table'[i] = 0
    BY <1>7 DEF Restart
  <2> QED
    BY <1>0, <2>1 DEF TrackedIsWatched
<1>8. ASSUME NEW c \in Callers,
             \/ Prepare(c) \/ Launch(c) \/ StartFails(c) \/ RemoveDelete(c)
             \/ \E i \in Ids : StartRequest(c, i) \/ RemoveCheck(c, i)
      PROVE  UNCHANGED <<table, watch>>
  BY <1>8 DEF Prepare, Launch, StartFails, RemoveDelete, StartRequest, RemoveCheck
<1>9. UNCHANGED vars \/ AttachUnread \/ (\E i \in Ids : Exit(i)) => UNCHANGED <<table, watch>>
  BY DEF vars, Exit, AttachUnread
<1> QED
  BY <1>2, <1>3, <1>4, <1>5, <1>6, <1>7, <1>8, <1>9 DEF Next, Handle

\* The guard of Start always has a Start that will release it (GuardHasHolder).
THEOREM LifecycleGuardHasHolder == Spec => []GuardHasHolder
<1>1. Init => GuardHasHolder
  BY DEF Init, GuardHasHolder
<1>2. LifecycleInv /\ GuardHasHolder /\ [Next]_vars => GuardHasHolder'
  BY GuardStep
<1> QED
  BY <1>1, <1>2, LifecycleInvariant, PTL DEF Spec

\* Whatever the loop tracks has a watcher that will report its end
\* (TrackedIsWatched).
THEOREM LifecycleTrackedIsWatched == Spec => []TrackedIsWatched
<1>1. Init => TrackedIsWatched
  BY LifecycleAssumption DEF Init, TrackedIsWatched, Runs
<1>2. LifecycleInv /\ TrackedIsWatched /\ [Next]_vars => TrackedIsWatched'
  BY WatchedStep
<1> QED
  BY <1>1, <1>2, LifecycleInvariant, PTL DEF Spec
=============================================================================
