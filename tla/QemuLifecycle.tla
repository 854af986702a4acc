---------------------------- MODULE QemuLifecycle ----------------------------
(***************************************************************************)
(* The QEMU service of a node (pkg/protos/process.go): the handlers of     *)
(* Start, Stop and Remove, and instanceLifecycleLoop, the goroutine that   *)
(* owns the map of tracked instances.  Handlers and watchers meet the loop *)
(* on unbuffered channels, so a send and its receive are one step.  QEMU   *)
(* processes outlive the service; a restarted service attaches to them.    *)
(* The n-th process of an id is its incarnation n; an id has more than one *)
(* when a directory was deleted under a process.  Any request may be made  *)
(* at any time.  The module implements QemuService, on which               *)
(* NodeController is written.                                              *)
(***************************************************************************)
EXTENDS Naturals, FiniteSets

CONSTANTS
    Ids,          \* instance ids
    Callers,      \* goroutines serving requests
    MaxRuns,      \* bound: processes of one id in a behaviour
    MaxRestarts   \* bound: service restarts in a behaviour

VARIABLES
    live,      \* id -> its live processes
    runs,      \* id -> incarnations so far
    dirs,      \* ids with an instance directory
    pidfile,   \* id -> the process its directory names, or 0
    starting,  \* the guard of Start
    table,     \* the loop's map: id -> tracked incarnation, or 0
    watch,     \* the watcher goroutine of an incarnation
    pc,        \* what each handler does next
    target,    \* the id it works on
    attaching, \* ids a restarted service has yet to attach to
    restarts,
    failed,    \* history: processes that could not be attached to or stopped
    hurried    \* history: processes handed over to the loop while a watcher
               \* of another process of that id had yet to report

histories == <<failed, hurried>>
vars == <<live, runs, dirs, pidfile, starting, table, watch, pc, target, attaching,
          restarts, failed, hurried>>
handlers == <<pc, target, starting>>

Runs == 1 .. MaxRuns

ASSUME LifecycleAssumption ==
    /\ MaxRuns \in Nat /\ MaxRestarts \in Nat
    /\ IsFiniteSet(Callers)

Init ==
    /\ live = [i \in Ids |-> {}]
    /\ runs = [i \in Ids |-> 0]
    /\ dirs = {}
    /\ pidfile = [i \in Ids |-> 0]
    /\ starting = {}
    /\ table = [i \in Ids |-> 0]
    /\ watch = [i \in Ids |-> [k \in Runs |-> "none"]]
    /\ pc = [c \in Callers |-> "idle"]
    /\ target \in [Callers -> Ids]
    /\ attaching = {}
    /\ restarts = 0
    /\ failed = [i \in Ids |-> {}]
    /\ hurried = [i \in Ids |-> {}]

\* Requests are served once every surviving process is attached to.
Serving == attaching = {}

Goto(c, step) == pc' = [pc EXCEPT ![c] = step]

Busy(i, steps) == \E c \in Callers : target[c] = i /\ pc[c] \in steps

StartSteps == {"prepare", "launch", "deliver"}

-----------------------------------------------------------------------------
(* Start *)

\* Faulty variant: overlapping Starts of one id are let through.
Unguarded(i) == TRUE

\* One Start of an id at a time; another is refused with AlreadyExists.
Guarded(i) == i \notin starting

StartRequest(c, i) ==
    /\ Serving
    /\ pc[c] = "idle"
    /\ runs[i] < MaxRuns
    /\ Guarded(i)
    /\ starting' = starting \cup {i}
    /\ target' = [target EXCEPT ![c] = i]
    /\ Goto(c, "prepare")
    /\ UNCHANGED <<live, runs, dirs, pidfile, table, watch, attaching, restarts,
                   histories>>

\* Faulty variant: the guard stays taken.
EndStartGuarded(c) ==
    /\ Goto(c, "idle")
    /\ UNCHANGED starting

\* The deferred release of the guard.
EndStart(c) ==
    /\ Goto(c, "idle")
    /\ starting' = starting \ {target[c]}

\* Directory, image and network interface.
Prepare(c) ==
    /\ pc[c] = "prepare"
    /\ dirs' = dirs \cup {target[c]}
    /\ Goto(c, "launch")
    /\ UNCHANGED <<live, runs, pidfile, starting, table, watch, target, attaching,
                   restarts, histories>>

\* The directory names a live process: its pidfile.
Alive(i) == pidfile[i] \in live[i]

\* QEMU needs the image in the directory and an exclusive lock on it.
Launch(c) ==
    /\ pc[c] = "launch"
    /\ LET i == target[c]
           k == runs[i] + 1
       IN  /\ ~Alive(i)
           /\ i \in dirs
           /\ k \in Runs
           /\ live' = [live EXCEPT ![i] = @ \cup {k}]
           /\ runs' = [runs EXCEPT ![i] = k]
           /\ pidfile' = [pidfile EXCEPT ![i] = k]
    /\ Goto(c, "deliver")
    /\ UNCHANGED <<dirs, starting, table, watch, target, attaching, restarts,
                   histories>>

\* Any step before the process exists may fail.
StartFails(c) ==
    /\ pc[c] \in {"prepare", "launch"}
    /\ EndStart(c)
    /\ UNCHANGED <<live, runs, dirs, pidfile, table, watch, target, attaching,
                   restarts, histories>>

\* A watcher of another process of the id than k has yet to report its end.
Unreported(i, k) == \E j \in Runs \ {k} : watch[i][j] \in {"watching", "sending"}

\* Faulty variant: no watcher is started.
TrackUnwatched(i, k) ==
    /\ table' = [table EXCEPT ![i] = k]
    /\ UNCHANGED watch

\* The loop takes the new instance into its map, over whatever is there,
\* and starts a watcher for it.
Track(i, k) ==
    /\ table' = [table EXCEPT ![i] = k]
    /\ watch' = [watch EXCEPT ![i][k] = "watching"]

Deliver(c) ==
    /\ pc[c] = "deliver"
    /\ LET i == target[c]
           k == runs[i]
       IN  /\ Track(i, k)
           /\ hurried' = IF Unreported(i, k) THEN [hurried EXCEPT ![i] = @ \cup {k}]
                                             ELSE hurried
    /\ EndStart(c)
    /\ UNCHANGED <<live, runs, dirs, pidfile, target, attaching, restarts, failed>>

-----------------------------------------------------------------------------
(* Stop and the end of a process *)

\* The loop has already forgotten the instance when it kills the process: a
\* kill that fails is only logged.
Kill(i, k) ==
    \/ live' = [live EXCEPT ![i] = @ \ {k}] /\ UNCHANGED failed
    \/ failed' = [failed EXCEPT ![i] = @ \cup {k}] /\ UNCHANGED live

\* An id that is not tracked is ignored.  A graceful stop only asks the
\* guest, see Exit.
ForceStop(i) ==
    /\ Serving
    /\ table[i] # 0
    /\ table' = [table EXCEPT ![i] = 0]
    /\ Kill(i, table[i])
    /\ UNCHANGED <<runs, dirs, pidfile, handlers, watch, attaching, restarts, hurried>>

\* A process ends by itself or because the guest was asked to power down.
Exit(i) ==
    /\ \E k \in live[i] : live' = [live EXCEPT ![i] = @ \ {k}]
    /\ UNCHANGED <<runs, dirs, pidfile, handlers, table, watch, attaching, restarts,
                   histories>>

\* Done is closed: the watcher turns to report it, whether or not its
\* context was cancelled or timed out before.
WatcherWakes(i, k) ==
    /\ watch[i][k] = "watching"
    /\ k \notin live[i]
    /\ watch' = [watch EXCEPT ![i][k] = "sending"]
    /\ UNCHANGED <<live, runs, dirs, pidfile, handlers, table, attaching, restarts,
                   histories>>

\* The loop receives the id, no more, and forgets what it tracks under it.
Forget(i, k) == table' = [table EXCEPT ![i] = 0]

Removal(i, k) ==
    /\ watch[i][k] = "sending"
    /\ Forget(i, k)
    /\ watch' = [watch EXCEPT ![i][k] = "ended"]
    /\ UNCHANGED <<live, runs, dirs, pidfile, handlers, attaching, restarts, histories>>

-----------------------------------------------------------------------------
(* Remove: check that the process is dead, then delete the directory *)

\* A live process is not removed.
MayRemove(i) == ~Alive(i)

RemoveCheck(c, i) ==
    /\ Serving
    /\ pc[c] = "idle"
    /\ MayRemove(i)
    /\ target' = [target EXCEPT ![c] = i]
    /\ Goto(c, "delete")
    /\ UNCHANGED <<live, runs, dirs, pidfile, starting, table, watch, attaching,
                   restarts, histories>>

\* No guard keeps a Start away from the directory in between.
RemoveDelete(c) ==
    /\ pc[c] = "delete"
    /\ \/ /\ dirs' = dirs \ {target[c]}
          /\ pidfile' = [pidfile EXCEPT ![target[c]] = 0]
       \/ UNCHANGED <<dirs, pidfile>>   \* it cannot be deleted
    /\ Goto(c, "idle")
    /\ UNCHANGED <<live, runs, starting, table, watch, target, attaching, restarts,
                   histories>>

-----------------------------------------------------------------------------
(* Restart of the service *)

Restart ==
    /\ restarts < MaxRestarts
    /\ restarts' = restarts + 1
    /\ starting' = {}
    /\ table' = [i \in Ids |-> 0]
    /\ watch' = [i \in Ids |-> [k \in Runs |-> "none"]]
    /\ pc' = [c \in Callers |-> "idle"]
    /\ attaching' = dirs
    /\ UNCHANGED <<live, runs, dirs, pidfile, target, histories>>

\* Faulty variant: survivors are not attached to.
AttachNothing(i) ==
    /\ i \in attaching
    /\ attaching' = attaching \ {i}
    /\ UNCHANGED <<live, runs, dirs, pidfile, handlers, table, watch, restarts, histories>>

\* Directories without a live process are skipped, and so is one whose
\* process cannot be attached to.
Attach(i) ==
    /\ i \in attaching
    /\ attaching' = attaching \ {i}
    /\ \/ Alive(i) /\ Track(i, pidfile[i]) /\ UNCHANGED failed
       \/ /\ Alive(i)
          /\ failed' = [failed EXCEPT ![i] = @ \cup {pidfile[i]}]
          /\ UNCHANGED <<table, watch>>
       \/ ~Alive(i) /\ UNCHANGED <<table, watch, failed>>
    /\ UNCHANGED <<live, runs, dirs, pidfile, handlers, restarts, hurried>>

\* The directories cannot be read: nothing is attached to.
AttachUnread ==
    /\ attaching # {}
    /\ attaching = dirs
    /\ attaching' = {}
    /\ failed' = [i \in Ids |-> failed[i] \cup ({pidfile[i]} \cap live[i])]
    /\ UNCHANGED <<live, runs, dirs, pidfile, handlers, table, watch, restarts, hurried>>

-----------------------------------------------------------------------------
Handle(c) ==
    \/ Prepare(c) \/ Launch(c) \/ StartFails(c) \/ Deliver(c)
    \/ RemoveDelete(c)

Watch(i, k) == WatcherWakes(i, k) \/ Removal(i, k)

Next ==
    \/ \E c \in Callers :
          \/ \E i \in Ids : StartRequest(c, i) \/ RemoveCheck(c, i)
          \/ Handle(c)
    \/ \E i \in Ids :
          \/ ForceStop(i) \/ Exit(i) \/ Attach(i)
          \/ \E k \in Runs : Watch(i, k)
    \/ Restart
    \/ AttachUnread

Spec == Init /\ [][Next]_vars

\* Handlers and watchers run, and the loop's select serves every sender.
Fairness ==
    /\ \A c \in Callers : WF_vars(Handle(c))
    /\ \A i \in Ids : WF_vars(Attach(i)) /\ \A k \in Runs : WF_vars(Watch(i, k))

FairSpec == Spec /\ Fairness

-----------------------------------------------------------------------------
(* What a node's controller sees of it *)

\* What List answers.
Processes == {i \in Ids : Alive(i)}

Strays == {i \in Ids : live[i] \ {pidfile[i]} # {}}

\* How far the Start of each id is.
Progress ==
    [i \in Ids |-> CASE Busy(i, {"prepare"}) -> "accepted"
                     [] Busy(i, {"launch"}) -> "preparing"
                     [] Busy(i, {"deliver"}) -> "launched"
                     [] OTHER -> "idle"]

Removers(i) == {c \in Callers : target[c] = i /\ pc[c] = "delete"}

Service == INSTANCE QemuService
              WITH vm <- Processes, stray <- Strays, handler <- Progress,
                   removing <- [i \in Ids |-> Cardinality(Removers(i))]

-----------------------------------------------------------------------------
(* Properties *)

\* Type invariant.
TypeOK ==
    /\ live \in [Ids -> SUBSET Runs]
    /\ runs \in [Ids -> 0 .. MaxRuns]
    /\ dirs \subseteq Ids
    /\ pidfile \in [Ids -> 0 .. MaxRuns]
    /\ starting \subseteq Ids
    /\ table \in [Ids -> 0 .. MaxRuns]
    /\ watch \in [Ids -> [Runs -> {"none", "watching", "sending", "ended"}]]
    /\ pc \in [Callers -> {"idle", "delete"} \cup StartSteps]
    /\ target \in [Callers -> Ids]
    /\ attaching \subseteq Ids
    /\ restarts \in 0 .. MaxRestarts
    /\ failed \in [Ids -> SUBSET Runs]
    /\ hurried \in [Ids -> SUBSET Runs]

\* The process that the directory of an instance names and that no Start is
\* about to hand over is lost to Stop: the loop does not track it.
OutOfReach(i) == Alive(i) /\ ~Busy(i, {"deliver"}) /\ table[i] # pidfile[i]

\* Through overlapping requests and restarts of the service and of the
\* instance, a VM that runs is out of the reach of Stop only if a call on that
\* very process failed or it was handed over before the end of an earlier one
\* had been reported.
LiveIsTracked ==
    Serving => \A i \in Ids :
        OutOfReach(i) => pidfile[i] \in failed[i] \cup hurried[i]

\* "Gracefully or forcefully stop a running VM": a VM that runs is within the
\* reach of Stop unless a call on that very process failed.  TLC refutes it: the
\* end of a predecessor is reported by id alone, and forgets the successor.
StopReachesRunning ==
    Serving => \A i \in Ids : OutOfReach(i) => pidfile[i] \in failed[i]

\* The guard of Start is never taken by nobody: whoever ended a Start has
\* released it, and an id that is refused with AlreadyExists has a Start under
\* way.
GuardHasHolder == \A i \in starting : Busy(i, StartSteps)

\* Whatever the loop tracks has a watcher that will report its end, after a
\* restart of the service and after an instance was started anew as well.
TrackedIsWatched ==
    \A i \in Ids : \A k \in Runs :
        table[i] = k => watch[i][k] \in {"watching", "sending"}

\* The handlers, the loop and its watchers, with all their interleavings,
\* failing calls and restarts, are the service that the controller is written
\* on: one Start of an id at a time, one process per directory, and no
\* directory deleted under a process but by a Remove that had checked before
\* the process was launched.
ImplementsService == Service!Spec

\* The loop forgets every process that has died.
DeadIsForgotten ==
    \A i \in Ids : \A k \in Runs :
        (table[i] = k /\ k \notin live[i]) ~> (table[i] # k)

\* Every Start ends and releases its guard, so that the id can be started
\* again, unless the service restarts, which releases it as well.
GuardIsReleased == \A i \in Ids : i \in starting ~> i \notin starting
=============================================================================
