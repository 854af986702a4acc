---------------------------- MODULE NodeController ----------------------------
(***************************************************************************)
(* The controller of one node: pkg/controller/vm (manager.go,              *)
(* local_manager.go) behind the gRPC server pkg/protos/controller.go.      *)
(* Create and Remove run in the goroutine of their request.  Start answers *)
(* its client at once and works in a goroutine of its own, beside whatever *)
(* that client asks for next.  A poller, and every Info("") request,       *)
(* reconciles the database with the QEMU processes.  Database calls are    *)
(* atomic steps of InstanceTable, which InstanceStore implements; what a   *)
(* goroutine read in one step may be stale in the next.  The QEMU service  *)
(* is that of QemuService, which QemuLifecycle implements: the progress of *)
(* its handlers, the directories and the processes.                        *)
(***************************************************************************)
EXTENDS Naturals, FiniteSets

CONSTANTS
    Ids,         \* instance names
    Macs,        \* addresses GenerateRandomMAC may return
    Threads,     \* goroutines of Create and Remove requests and of Starts
    Readers,     \* goroutines serving Info("")
    Poller,      \* the polling goroutine of the manager
    None,        \* absent
    MaxRequests, \* bound: requests in a behaviour
    MaxCrashes,  \* bound: controller and QEMU service restarts in a behaviour
    MaxDbErrors, \* bound: failed reads and transactions of the database
    MaxRpcErrors \* bound: calls to the QEMU service that fail or are cancelled

Reconcilers == Readers \cup {Poller}
Procs == Threads \cup Reconcilers

VARIABLES
    db,        \* id -> record or None
    vm,        \* ids whose directory names a live QEMU process
    stray,     \* ids with a live QEMU process that no directory names
    dirs,      \* ids with an instance directory
    handler,   \* progress of the QEMU service's Start handler for an id
    removing,  \* id -> Remove handlers of the QEMU service about to delete
    cache,     \* the event publisher's cache: id -> state or None
    pc,        \* what each goroutine does next
    vmId,      \* the instance it works on
    rec,       \* the record setInstanceState has read
    goal,      \* the state setInstanceState is to write
    snap,      \* the records a reconciler has listed
    listed,    \* the ids the QEMU service reported to it
    unclean,   \* history: ids whose last removal met a process or a Start under
               \* way, or whose clean-up failed or was cut short
    requests, crashes, dbErrors, rpcErrors

qemuVars == <<vm, stray, dirs, handler, removing>>
procVars == <<pc, vmId, rec, goal>>
listVars == <<snap, listed>>
bounds == <<requests, crashes, dbErrors, rpcErrors>>
vars == <<db, vm, stray, dirs, handler, removing, cache, pc, vmId, rec, goal, snap,
          listed, unclean, requests, crashes, dbErrors, rpcErrors>>

Table == INSTANCE InstanceTable WITH table <- db
Service == INSTANCE QemuService

States == Table!States
Records == Table!Records
ThreadSteps == {"create_put", "create_pub", "start_get", "call", "waiting",
                "remove_del", "remove_rpc", "removing", "remove_pub"}
ReconcilerSteps == {"qemu_list", "reconcile", "publish"}
Steps == {"idle", "set_get", "set_put"} \cup ThreadSteps \cup ReconcilerSteps

ASSUME ControllerAssumption ==
    /\ None \notin Ids /\ None \notin Records /\ None \notin States
    /\ Threads \cap Reconcilers = {}
    /\ MaxRequests \in Nat /\ MaxCrashes \in Nat
    /\ MaxDbErrors \in Nat /\ MaxRpcErrors \in Nat

\* The database as an earlier controller left it: nothing, or stopped instances
\* of which the QEMU service has no directory yet.
Found ==
    /\ db \in [Ids -> {None} \cup [mac : Macs, state : {"STOPPED"}]]
    /\ \A i \in Ids : \A j \in Ids \ {i} :
          db[i] # None /\ db[j] # None => db[i].mac # db[j].mac

Init ==
    /\ Found
    /\ Service!Init
    /\ cache = [i \in Ids |-> None]
    /\ pc = [p \in Procs |-> "idle"]
    /\ vmId = [p \in Procs |-> None]
    /\ rec = [p \in Procs |-> None]
    /\ goal = [p \in Procs |-> None]
    /\ snap = [p \in Reconcilers |-> [i \in Ids |-> None]]
    /\ listed = [p \in Reconcilers |-> {}]
    /\ unclean = {}
    /\ requests = 0
    /\ crashes = 0
    /\ dbErrors = 0
    /\ rpcErrors = 0

Goto(p, step) == pc' = [pc EXCEPT ![p] = step]

\* A goroutine that has finished forgets its locals.
Finish(p) ==
    /\ Goto(p, "idle")
    /\ vmId' = [vmId EXCEPT ![p] = None]
    /\ rec' = [rec EXCEPT ![p] = None]
    /\ goal' = [goal EXCEPT ![p] = None]

Accept(t, i, step) ==
    /\ pc[t] = "idle"
    /\ requests < MaxRequests
    /\ requests' = requests + 1
    /\ vmId' = [vmId EXCEPT ![t] = i]
    /\ Goto(t, step)

StateIn(records, i) == IF records[i] = None THEN None ELSE records[i].state

Stopped(i) == db[i] # None /\ db[i].state = "STOPPED"

\* A read or a transaction of the database fails and changes nothing.
DbFails ==
    /\ dbErrors < MaxDbErrors
    /\ dbErrors' = dbErrors + 1
    /\ UNCHANGED db

\* A call to the QEMU service does not reach it, or is given up.
RpcFails ==
    /\ rpcErrors < MaxRpcErrors
    /\ rpcErrors' = rpcErrors + 1

-----------------------------------------------------------------------------
(* setInstanceState: Get, compare, Update with the record that was read *)

SetState(p, s) ==
    /\ Goto(p, "set_get")
    /\ goal' = [goal EXCEPT ![p] = s]

\* Where setInstanceState returns to: Start goes on to call the QEMU service
\* after STARTING and is done after RUNNING or STOPPED; reconcileInstances
\* goes on with its loop.
AfterSet(p) ==
    /\ IF p \in Reconcilers THEN Goto(p, "reconcile")
       ELSE IF goal[p] = "STARTING" THEN Goto(p, "call")
       ELSE Goto(p, "idle")
    /\ rec' = [rec EXCEPT ![p] = None]
    /\ goal' = [goal EXCEPT ![p] = None]
    /\ vmId' = [vmId EXCEPT ![p] = IF p \in Threads /\ goal[p] = "STARTING"
                                      THEN @ ELSE None]

\* A failed read ends it like an absent record.
SetGet(p) ==
    /\ pc[p] = "set_get"
    /\ \/ /\ StateIn(db, vmId[p]) \in {None, goal[p]}
          /\ AfterSet(p)
          /\ UNCHANGED <<db, dbErrors>>
       \/ /\ StateIn(db, vmId[p]) \notin {None, goal[p]}
          /\ rec' = [rec EXCEPT ![p] = db[vmId[p]]]
          /\ Goto(p, "set_put")
          /\ UNCHANGED <<db, vmId, goal, dbErrors>>
       \/ DbFails /\ AfterSet(p)
    /\ UNCHANGED <<qemuVars, cache, listVars, unclean, requests, crashes, rpcErrors>>

\* A database update stores the record or fails: always when its address is
\* taken.
Store(i, r) == Table!Put(i, r) /\ UNCHANGED dbErrors
StoreFails(i, r) ==
    \/ ~Table!MacFree(r.mac, i) /\ UNCHANGED <<db, dbErrors>>
    \/ DbFails

\* A failed update is only logged.
SetPut(p) ==
    /\ pc[p] = "set_put"
    /\ LET r == [rec[p] EXCEPT !.state = goal[p]]
       IN  Store(vmId[p], r) \/ StoreFails(vmId[p], r)
    /\ AfterSet(p)
    /\ UNCHANGED <<qemuVars, cache, listVars, unclean, requests, crashes, rpcErrors>>

-----------------------------------------------------------------------------
(* Create, with or without the request to start the new instance *)

\* An id that exists already is refused, which changes nothing; a read that
\* fails counts as an id that does not exist.
CreateGet(t, i) ==
    /\ \/ db[i] = None /\ UNCHANGED <<db, dbErrors>>
       \/ DbFails
    /\ Accept(t, i, "create_put")
    /\ UNCHANGED <<qemuVars, cache, rec, goal, listVars, unclean, crashes, rpcErrors>>

CreatePut(t) ==
    /\ pc[t] = "create_put"
    /\ \E m \in Macs :
          LET r == [mac |-> m, state |-> "STOPPED"]
          IN  \/ /\ Store(vmId[t], r)
                 /\ Goto(t, "create_pub")
                 /\ UNCHANGED <<vmId, rec, goal>>
              \/ StoreFails(vmId[t], r) /\ Finish(t)
    /\ UNCHANGED <<qemuVars, cache, listVars, unclean, requests, crashes, rpcErrors>>

\* A request to create and start goes on to Manager.Start.
CreatePublish(t) ==
    /\ pc[t] = "create_pub"
    /\ cache' = [cache EXCEPT ![vmId[t]] = "STOPPED"]
    /\ \/ Goto(t, "start_get") /\ UNCHANGED <<vmId, rec, goal>>
       \/ Finish(t)
    /\ UNCHANGED <<db, qemuVars, listVars, unclean, bounds>>

-----------------------------------------------------------------------------
(* Start *)

\* Only an instance that is stopped is started; a refusal is published.
MayStart(i) == Stopped(i)

\* The client has its answer; t is the goroutine that is left working.
StartRequest(t, i) ==
    /\ Accept(t, i, "start_get")
    /\ UNCHANGED <<db, qemuVars, cache, rec, goal, listVars, unclean, crashes, dbErrors,
                   rpcErrors>>

StartGet(t) ==
    /\ pc[t] = "start_get"
    /\ \/ /\ MayStart(vmId[t])
          /\ SetState(t, "STARTING")
          /\ UNCHANGED <<db, vmId, rec, dbErrors>>
       \/ ~MayStart(vmId[t]) /\ Finish(t) /\ UNCHANGED <<db, dbErrors>>
       \/ DbFails /\ Finish(t)
    /\ UNCHANGED <<qemuVars, cache, listVars, unclean, requests, crashes, rpcErrors>>

\* Faulty variant: a failed call leaves the record as it is.
StartCallForgetful(t) ==
    /\ pc[t] = "call"
    /\ \/ /\ Service!Accept(vmId[t])
          /\ Goto(t, "waiting")
          /\ UNCHANGED <<vmId, rec, goal, rpcErrors>>
       \/ /\ RpcFails \/ (handler[vmId[t]] # "idle" /\ UNCHANGED rpcErrors)
          /\ Finish(t)
          /\ UNCHANGED qemuVars
    /\ UNCHANGED <<db, cache, listVars, unclean, requests, crashes, dbErrors>>

\* The call reaches the handler, which serves one Start of an id at a time;
\* every failure sets STOPPED again.
StartCall(t) ==
    /\ pc[t] = "call"
    /\ \/ /\ Service!Accept(vmId[t])
          /\ Goto(t, "waiting")
          /\ UNCHANGED <<goal, rpcErrors>>
       \/ /\ RpcFails \/ (handler[vmId[t]] # "idle" /\ UNCHANGED rpcErrors)
          /\ SetState(t, "STOPPED")
          /\ UNCHANGED qemuVars
    /\ UNCHANGED <<db, cache, vmId, rec, listVars, unclean, requests, crashes, dbErrors>>

\* Faulty variant: a start that fails does not set STOPPED again.
AnswerSuccessOnly(i, s) ==
    LET waiters == {t \in Threads : pc[t] = "waiting" /\ vmId[t] = i}
        next == IF s = "RUNNING" THEN "set_get" ELSE "idle"
    IN  /\ pc' = [p \in Procs |-> IF p \in waiters THEN next ELSE pc[p]]
        /\ goal' = [p \in Procs |-> IF p \in waiters THEN s ELSE goal[p]]

\* The Start call on instance i returns and setInstanceState(s) follows.
Answer(i, s) ==
    LET waiters == {t \in Threads : pc[t] = "waiting" /\ vmId[t] = i}
    IN  /\ pc' = [p \in Procs |-> IF p \in waiters THEN "set_get" ELSE pc[p]]
        /\ goal' = [p \in Procs |-> IF p \in waiters THEN s ELSE goal[p]]

\* The handler makes the instance directory, with the image in it, and
\* launches QEMU.
Launch(i) ==
    /\ Service!MakeDir(i) \/ Service!Launch(i)
    /\ UNCHANGED <<db, cache, procVars, listVars, unclean, bounds>>

LaunchReply(i) ==
    /\ Service!Reply(i)
    /\ Answer(i, "RUNNING")
    /\ UNCHANGED <<db, cache, vmId, rec, listVars, unclean, bounds>>

LaunchFail(i) ==
    /\ Service!Fail(i)
    /\ Answer(i, "STOPPED")
    /\ UNCHANGED <<db, cache, vmId, rec, listVars, unclean, bounds>>

\* The call fails although its handler goes on.
GiveUp(t) ==
    /\ pc[t] = "waiting"
    /\ RpcFails
    /\ SetState(t, "STOPPED")
    /\ UNCHANGED <<db, qemuVars, cache, vmId, rec, listVars, unclean, requests, crashes,
                   dbErrors>>

-----------------------------------------------------------------------------
(* Remove *)

Erase(i) == Table!Delete(i)

\* Any error of the read counts as "already gone".
RemoveGet(t, i) ==
    /\ \/ db[i] = None /\ Accept(t, i, "remove_pub") /\ UNCHANGED <<db, dbErrors>>
       \/ DbFails /\ Accept(t, i, "remove_pub")
       \/ Stopped(i) /\ Accept(t, i, "remove_del") /\ UNCHANGED <<db, dbErrors>>
    /\ UNCHANGED <<qemuVars, cache, rec, goal, listVars, unclean, crashes, rpcErrors>>

\* A goroutine has read that instance i is stopped and works on its start.
Launching(i) ==
    \E t \in Threads : /\ vmId[t] = i
                       /\ pc[t] \in {"set_get", "set_put", "call", "waiting"}

AtRest(i) == i \notin vm \cup stray /\ handler[i] = "idle" /\ ~Launching(i)

\* Faulty variant: the instance is forgotten, its directory is not.
RemoveDeleteOnly(t) ==
    /\ pc[t] = "remove_del"
    /\ \/ /\ Erase(vmId[t])
          /\ unclean' = IF AtRest(vmId[t]) THEN unclean ELSE unclean \cup {vmId[t]}
          /\ Goto(t, "remove_pub")
          /\ UNCHANGED <<vmId, rec, goal, dbErrors>>
       \/ /\ ~Stopped(vmId[t])
          /\ Goto(t, "remove_pub")
          /\ UNCHANGED <<db, vmId, rec, goal, dbErrors, unclean>>
       \/ DbFails /\ Finish(t) /\ UNCHANGED unclean
    /\ UNCHANGED <<qemuVars, cache, listVars, requests, crashes, rpcErrors>>

\* ErrNoInstanceRemoved, absent or no longer stopped, counts as success.
RemoveDelete(t) ==
    /\ pc[t] = "remove_del"
    /\ \/ /\ Erase(vmId[t])
          /\ Goto(t, "remove_rpc")
          /\ unclean' = IF AtRest(vmId[t]) THEN unclean ELSE unclean \cup {vmId[t]}
          /\ UNCHANGED <<vmId, rec, goal, dbErrors>>
       \/ /\ ~Stopped(vmId[t])
          /\ Goto(t, "remove_pub")
          /\ UNCHANGED <<db, vmId, rec, goal, dbErrors, unclean>>
       \/ DbFails /\ Finish(t) /\ UNCHANGED unclean
    /\ UNCHANGED <<qemuVars, cache, listVars, requests, crashes, rpcErrors>>

\* The QEMU service refuses while the process is alive; that refusal, like
\* an unreachable service, is only logged.
RemoveCall(t) ==
    /\ pc[t] = "remove_rpc"
    /\ \/ /\ Service!RemoveCheck(vmId[t])
          /\ Goto(t, "removing")
          /\ UNCHANGED <<unclean, rpcErrors>>
       \/ /\ RpcFails \/ (vmId[t] \in vm /\ UNCHANGED rpcErrors)
          /\ Goto(t, "remove_pub")
          /\ unclean' = unclean \cup {vmId[t]}
          /\ UNCHANGED qemuVars
    /\ UNCHANGED <<db, cache, vmId, rec, goal, listVars, requests, crashes, dbErrors>>

\* The handler of the QEMU service deletes the directory, or fails to, and
\* answers the goroutine that is still waiting for it, if one is.
RemoveReply(i) ==
    LET waiters == {t \in Threads : pc[t] = "removing" /\ vmId[t] = i}
    IN  /\ \/ /\ Service!RemoveDelete(i)
              /\ unclean' = IF AtRest(i) THEN unclean \ {i} ELSE unclean
              /\ UNCHANGED rpcErrors
           \/ Service!RemoveFail(i) /\ RpcFails /\ unclean' = unclean \cup {i}
        /\ \/ \E t \in waiters : Goto(t, "remove_pub")
           \/ removing[i] > Cardinality(waiters) /\ UNCHANGED pc
        /\ UNCHANGED <<db, cache, vmId, rec, goal, listVars, requests, crashes, dbErrors>>

\* The call fails although its handler goes on.
RemoveGiveUp(t) ==
    /\ pc[t] = "removing"
    /\ RpcFails
    /\ Goto(t, "remove_pub")
    /\ UNCHANGED <<db, qemuVars, cache, vmId, rec, goal, listVars, unclean, requests,
                   crashes, dbErrors>>

RemovePublish(t) ==
    /\ pc[t] = "remove_pub"
    /\ cache' = [cache EXCEPT ![vmId[t]] = None]
    /\ Finish(t)
    /\ UNCHANGED <<db, qemuVars, listVars, unclean, bounds>>

-----------------------------------------------------------------------------
(* poll and Info(""): list, reconcile, publish *)

\* A listing that fails ends the request or the poll.
List(p) ==
    /\ pc[p] = "idle"
    /\ \/ /\ snap' = [snap EXCEPT ![p] = db]
          /\ Goto(p, "qemu_list")
          /\ UNCHANGED <<db, dbErrors>>
       \/ DbFails /\ UNCHANGED <<pc, snap>>
    /\ UNCHANGED <<qemuVars, cache, vmId, rec, goal, listed, unclean, requests, crashes,
                   rpcErrors>>

\* Directories whose pidfile names a live process.
QemuList(p) ==
    /\ pc[p] = "qemu_list"
    /\ \/ /\ listed' = [listed EXCEPT ![p] = vm]
          /\ Goto(p, "reconcile")
          /\ UNCHANGED rpcErrors
       \/ /\ RpcFails
          /\ Goto(p, "publish")
          /\ UNCHANGED listed
    /\ UNCHANGED <<db, qemuVars, cache, vmId, rec, goal, snap, unclean, requests, crashes,
                   dbErrors>>

\* Faulty variant: a record that is STOPPED is not corrected when its VM runs.
OnlyStartingRuns(p, i) == i \in listed[p] /\ snap[p][i].state = "STARTING"

NeedsRunning(p, i) == i \in listed[p] /\ snap[p][i].state # "RUNNING"
NeedsStopped(p, i) == i \notin listed[p] /\ snap[p][i].state = "RUNNING"

Mismatched(p) ==
    {i \in Ids : snap[p][i] # None /\ (NeedsRunning(p, i) \/ NeedsStopped(p, i))}

\* One iteration of the loop: the listed copy is corrected, then the stored
\* record through setInstanceState.
Correct(p, i) ==
    LET s == IF NeedsRunning(p, i) THEN "RUNNING" ELSE "STOPPED"
    IN  /\ snap' = [snap EXCEPT ![p][i].state = s]
        /\ vmId' = [vmId EXCEPT ![p] = i]
        /\ SetState(p, s)

Reconcile(p) ==
    /\ pc[p] = "reconcile"
    /\ \/ \E i \in Mismatched(p) : Correct(p, i)
       \/ /\ Mismatched(p) = {}
          /\ Goto(p, "publish")
          /\ UNCHANGED <<snap, vmId, goal>>
    /\ UNCHANGED <<db, qemuVars, cache, rec, listed, unclean, bounds>>

\* Faulty variant: instances that disappeared are not published.
PublishedUpdates(p) ==
    [i \in Ids |-> IF snap[p][i] = None THEN cache[i] ELSE snap[p][i].state]

\* The cache after VMRemoved for every cached instance that was not listed
\* and VMUpdated for every one that was.
Published(p) == [i \in Ids |-> StateIn(snap[p], i)]

\* The poller publishes; a reader only answers its caller.
Publish(p) ==
    /\ pc[p] = "publish"
    /\ cache' = IF p = Poller THEN Published(p) ELSE cache
    /\ snap' = [snap EXCEPT ![p] = [i \in Ids |-> None]]
    /\ listed' = [listed EXCEPT ![p] = {}]
    /\ Goto(p, "idle")
    /\ UNCHANGED <<db, qemuVars, vmId, rec, goal, unclean, bounds>>

-----------------------------------------------------------------------------
(* The environment *)

\* The process ends: Stop was forced, the guest obeyed a power-down request,
\* or it went down by itself.  Stop changes nothing in the controller.
VmExit(i) ==
    /\ Service!Exit(i)
    /\ UNCHANGED <<db, cache, procVars, listVars, unclean, bounds>>

\* The instances whose clean-up goroutines at these steps have yet to see done.
Pending(steps) == {i \in Ids : \E t \in Threads : vmId[t] = i /\ pc[t] \in steps}

\* The controller process restarts: goroutines and cache are lost; the
\* handlers, processes and directories of the QEMU service are not.
ControllerRestart ==
    /\ crashes < MaxCrashes
    /\ crashes' = crashes + 1
    /\ cache' = [i \in Ids |-> None]
    /\ pc' = [p \in Procs |-> "idle"]
    /\ vmId' = [p \in Procs |-> None]
    /\ rec' = [p \in Procs |-> None]
    /\ goal' = [p \in Procs |-> None]
    /\ snap' = [p \in Reconcilers |-> [i \in Ids |-> None]]
    /\ listed' = [p \in Reconcilers |-> {}]
    /\ unclean' = unclean \cup Pending({"remove_rpc"})
    /\ UNCHANGED <<db, qemuVars, requests, dbErrors, rpcErrors>>

\* The QEMU service restarts: its handlers die, their callers get an error,
\* the QEMU processes live on.
QemuRestart ==
    /\ crashes < MaxCrashes
    /\ crashes' = crashes + 1
    /\ Service!Restart
    /\ LET starters == {t \in Threads : pc[t] = "waiting"}
           removers == {t \in Threads : pc[t] = "removing"}
       IN  /\ pc' = [p \in Procs |-> IF p \in starters THEN "set_get"
                                    ELSE IF p \in removers THEN "remove_pub" ELSE pc[p]]
           /\ goal' = [p \in Procs |-> IF p \in starters THEN "STOPPED" ELSE goal[p]]
    /\ unclean' = unclean \cup {i \in Ids : removing[i] > 0}
    /\ UNCHANGED <<db, cache, vmId, rec, listVars, requests, dbErrors, rpcErrors>>

-----------------------------------------------------------------------------
Request(t) ==
    \E i \in Ids : CreateGet(t, i) \/ StartRequest(t, i) \/ RemoveGet(t, i)

Serve(t) ==
    \/ CreatePut(t) \/ CreatePublish(t)
    \/ StartGet(t) \/ StartCall(t) \/ GiveUp(t)
    \/ RemoveDelete(t) \/ RemoveCall(t) \/ RemoveGiveUp(t) \/ RemovePublish(t)
    \/ SetGet(t) \/ SetPut(t)

Poll(p) ==
    \/ List(p) \/ QemuList(p) \/ Reconcile(p) \/ Publish(p)
    \/ SetGet(p) \/ SetPut(p)

Handle(i) == Launch(i) \/ LaunchReply(i) \/ LaunchFail(i) \/ RemoveReply(i)

Next ==
    \/ \E t \in Threads : Request(t) \/ Serve(t)
    \/ \E p \in Reconcilers : Poll(p)
    \/ \E i \in Ids : Handle(i) \/ VmExit(i)
    \/ ControllerRestart
    \/ QemuRestart

Spec == Init /\ [][Next]_vars

\* Goroutines run, the poller's ticker fires, and the handlers of the QEMU
\* service return.
Fairness ==
    /\ \A t \in Threads : WF_vars(Serve(t))
    /\ \A p \in Reconcilers : WF_vars(Poll(p))
    /\ \A i \in Ids : WF_vars(Handle(i))

FairSpec == Spec /\ Fairness

-----------------------------------------------------------------------------
(* Properties *)

\* Type invariant.
TypeOK ==
    /\ db \in [Ids -> Records \cup {None}]
    /\ vm \subseteq Ids
    /\ stray \subseteq Ids
    /\ dirs \subseteq Ids
    /\ handler \in [Ids -> {"idle", "accepted", "preparing", "launched"}]
    /\ removing \in [Ids -> Nat]
    /\ cache \in [Ids -> States \cup {None}]
    /\ pc \in [Procs -> Steps]
    /\ vmId \in [Procs -> Ids \cup {None}]
    /\ rec \in [Procs -> Records \cup {None}]
    /\ goal \in [Procs -> States \cup {None}]
    /\ snap \in [Reconcilers -> [Ids -> Records \cup {None}]]
    /\ listed \in [Reconcilers -> SUBSET Ids]
    /\ unclean \subseteq Ids
    /\ requests \in 0 .. MaxRequests
    /\ crashes \in 0 .. MaxCrashes
    /\ dbErrors \in 0 .. MaxDbErrors
    /\ rpcErrors \in 0 .. MaxRpcErrors

\* The goroutine t has marked instance i STARTING and has yet to write the
\* outcome of its start.
OwnsStart(t, i) ==
    /\ vmId[t] = i
    /\ \/ pc[t] \in {"call", "waiting"}
       \/ pc[t] \in {"set_get", "set_put"} /\ goal[t] # "STARTING"

\* As long as nothing crashes and no write fails, a record that says STARTING
\* has a goroutine that will still write how the start ended, although
\* starts, removals and reconcilers overlap: nothing else can move it on.
StartingIsOwned ==
    crashes = 0 /\ dbErrors = 0 =>
        \A i \in Ids : db[i] # None /\ db[i].state = "STARTING"
                          => \E t \in Threads : OwnsStart(t, i)

Quiet ==
    /\ \A p \in Procs : pc[p] = "idle"
    /\ \A i \in Ids : handler[i] = "idle" /\ removing[i] = 0

\* Whatever a removal leaves behind has a cause that was there when it was
\* made: a process, a Start under way or a clean-up that failed or was cut
\* short.  No overlap of starts, re-creations, late handlers and reconcilers
\* with a clean removal leaves a process or a directory without a record.
LeftoversHaveACause ==
    Quiet => \A i \in vm \cup stray \cup dirs : db[i] = None => i \in unclean

\* "Delete a VM and clean up its resources": at rest no QEMU process and no
\* instance directory is left without a record.
NoLeftovers == Quiet => \A i \in vm \cup stray \cup dirs : db[i] # None

\* "Refuse to remove if process is still alive": no process ever loses its
\* directory.  TLC refutes it: Remove looks and then deletes, and a Start comes
\* in between.
NoStrays == stray = {}

\* "instance is not stopped": the QEMU service is asked for a Start only of an
\* instance without a process.  TLC refutes it: two overlapping Starts both
\* find the record STOPPED.
AsksInOrder == \A t \in Threads : pc[t] = "call" => vmId[t] \notin vm

\* "already gone": a Remove that reports success without having deleted the
\* record finds none.  TLC refutes it: any failing read is taken for "gone",
\* and so is the refusal to delete an instance that is not stopped.
RemoveReportsTruth ==
    [][\A t \in Threads :
           pc[t] \in {"idle", "remove_del"} /\ pc'[t] = "remove_pub"
               => db[vmId'[t]] = None]_vars

\* Only Create makes a record appear: a removed instance stays removed.  TLC
\* refutes it: setInstanceState writes back the record it has read, and a
\* Remove has deleted it meanwhile.
RecordsComeFromCreate ==
    [][\A i \in Ids : db[i] = None /\ db'[i] # None
           => \E t \in Threads : pc[t] = "create_put" /\ vmId[t] = i]_vars

\* "instance already exists": as long as its record exists an instance keeps
\* its hardware address.  TLC refutes it: two creations of one id both find it
\* free, in transactions of their own.
MacStable ==
    [][\A i \in Ids : db[i] # None /\ db'[i] # None
           => db'[i].mac = db[i].mac]_vars

\* Unless the controller restarts or a write fails, a start that was begun
\* ends: the record does not stay STARTING.
StartSettles ==
    \A i \in Ids : StateIn(db, i) = "STARTING" /\ crashes = 0 /\ dbErrors = 0
                      ~> StateIn(db, i) # "STARTING" \/ crashes > 0 \/ dbErrors > 0

\* Reconciliation, upwards: when a VM that its directory names stays up, its
\* record ends up RUNNING, whatever races, late handlers and failures before
\* left in the database.
RunningFollowsVm ==
    \A i \in Ids : <>[](db[i] # None /\ i \in vm)
                      => <>[](StateIn(db, i) = "RUNNING")

\* Reconciliation, downwards: when a VM stays down, its record ends up
\* STOPPED, so that it can be started or removed again.
StoppedFollowsVm ==
    \A i \in Ids : <>[](db[i] # None /\ i \notin vm)
                      => <>[](StateIn(db, i) = "STOPPED")

\* The same where no restart and no failed write has cut a start short.
StoppedFollowsVmUncut ==
    \A i \in Ids : <>[](db[i] # None /\ i \notin vm /\ crashes = 0 /\ dbErrors = 0)
                      => <>[](StateIn(db, i) = "STOPPED")

\* The cache behind the event stream ends up equal to the database, whatever
\* order requests and polls published in.
CacheFollowsRecord ==
    \A i \in Ids : \A s \in States \cup {None} :
        <>[](StateIn(db, i) = s) => <>[](cache[i] = s)
=============================================================================
