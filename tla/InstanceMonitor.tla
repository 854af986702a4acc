--------------------------- MODULE InstanceMonitor ---------------------------
(***************************************************************************)
(* How a running VM becomes reachable: the two goroutines that wait for    *)
(* its QMP and QGA sockets and register them (process.go), the wait itself *)
(* (WaitForFileCreation), the monitor goroutine that turns the messages of *)
(* the connections into the map of ready names (instancemonitor.go).  One  *)
(* VM; its n-th process is incarnation n.  QEMU, the guest agent and the   *)
(* qapi client are external.                                               *)
(***************************************************************************)
EXTENDS Naturals, Sequences, Functions

CONSTANTS
    Followings,  \* choices of the processes to come: the sockets of each
    MaxVms,      \* bound: processes of the VM in a behaviour
    MaxReboots   \* bound: restarts of the QEMU service in a behaviour

ASSUME MonitorAssumption ==
    /\ MaxVms \in Nat /\ MaxReboots \in Nat
    /\ Followings \subseteq Seq(SUBSET {"qmp", "qga"})
    /\ \A f \in Followings : Len(f) <= MaxVms

Vms == 1 .. MaxVms
Sockets == {"qmp", "qga"}

VARIABLES
    followed,  \* the choice made, which a behaviour keeps
    vm,        \* incarnation that is running, 0 when there is none
    born,      \* incarnations so far
    sock,      \* prefix -> incarnation whose socket file exists, or 0
    conn,      \* prefix -> incarnation the client is connected to, or 0
    add,       \* incarnation -> prefix -> step of its registration
    ctx,       \* incarnations whose context has not ended
    watcher,   \* incarnation -> step of the goroutine that awaits its end
    tracked,   \* incarnation in the lifecycle loop's map, or 0
    inbox,     \* messages of the connections the monitor has yet to read
    asking,    \* prefix whose qmp_capabilities the monitor waits for, or none
    requests,  \* pings without an answer, by connection
    ready,     \* prefix -> incarnation that made it ready, 0 when it is not
    late,      \* incarnations cut off by the removal of a predecessor
    broken,    \* incarnations whose registration met a failing call, or no end
    reboots    \* restarts so far

guests == <<followed, vm, born, sock>>
registering == <<add, ctx, watcher, late, broken>>
monitoring == <<asking, requests, ready>>
monitorVars == <<guests, registering, monitoring, conn, tracked,
                 inbox, reboots>>

MonitorInit ==
    /\ followed \in Followings
    /\ vm = 0 /\ born = 0
    /\ sock = [p \in Sockets |-> 0]
    /\ conn = [p \in Sockets |-> 0]
    /\ add = [k \in Vms |-> [p \in Sockets |-> "none"]]
    /\ ctx = {}
    /\ watcher = [k \in Vms |-> "none"]
    /\ tracked = 0
    /\ inbox = <<>>
    /\ asking = "none"
    /\ requests = {}
    /\ ready = [p \in Sockets |-> 0]
    /\ late = {} /\ broken = {}
    /\ reboots = 0

Message(kind, p, k) == [kind |-> kind, of |-> p, from |-> k]

-----------------------------------------------------------------------------
(* The VM and the lifecycle loop *)

\* The loop takes an instance into its map, over a predecessor whose end it
\* has not heard of perhaps, and starts its three goroutines.
Take(k) ==
    /\ tracked' = k
    /\ ctx' = ctx \cup {k}
    /\ add' = [add EXCEPT ![k] = [p \in Sockets |->
                  IF p \in followed[k] THEN "check" ELSE "none"]]
    /\ watcher' = [watcher EXCEPT ![k] = "select"]

StartVm ==
    /\ vm = 0 /\ born < Len(followed)
    /\ born' = born + 1
    /\ vm' = born + 1
    /\ Take(born + 1)
    /\ UNCHANGED <<followed, sock, conn, inbox, monitoring, late, broken,
                   reboots>>

\* QEMU creates its sockets some time after it was started.  Whoever waits for
\* one is told; before the second look, that look finds it.
CreateSocket(p) ==
    /\ vm # 0 /\ sock[p] # vm /\ p \in followed[vm]
    /\ sock' = [sock EXCEPT ![p] = vm]
    /\ add' = [k \in Vms |-> [add[k] EXCEPT ![p] =
                  IF @ = "wait" THEN "told" ELSE @]]
    /\ UNCHANGED <<followed, vm, born, conn, ctx, watcher, tracked, inbox,
                   monitoring, late, broken, reboots>>

\* The process ends, its sockets with it.
VmEnds ==
    /\ vm # 0
    /\ vm' = 0
    /\ sock' = [p \in Sockets |-> 0]
    /\ UNCHANGED <<followed, born, registering, monitoring, conn, tracked,
                   inbox, reboots>>

\* Stop with force: the loop cancels, forgets and kills.
KillVm ==
    /\ vm # 0 /\ tracked = vm
    /\ ctx' = ctx \ {vm}
    /\ tracked' = 0
    /\ vm' = 0
    /\ sock' = [p \in Sockets |-> 0]
    /\ UNCHANGED <<followed, born, conn, add, watcher, inbox, monitoring,
                   late, broken, reboots>>

\* Those a canceled context may still keep from being registered.
CutOff(ks) == {k \in ks \cap ctx : add[k]["qmp"] \notin {"connect", "done"}}

\* The 600 seconds of the context are over; both waits are long under way.
Timeout(k) ==
    /\ k \in ctx
    /\ \E p \in Sockets : add[k][p] \in {"wait", "told"}
    /\ ctx' = ctx \ {k}
    /\ broken' = broken \cup CutOff({k})
    /\ UNCHANGED <<guests, monitoring, conn, add, watcher, late,
                   tracked, inbox, reboots>>

-----------------------------------------------------------------------------
(* WaitForFileCreation and the registration of one socket *)

Step(k, p, from, to) ==
    /\ add[k][p] = from
    /\ add' = [add EXCEPT ![k][p] = to]

\* First look; without the file, a watch of its directory is set up.
Check(k, p) ==
    Step(k, p, "check", IF sock[p] # 0 THEN "connect" ELSE "watch")

AddWatch(k, p) == Step(k, p, "watch", "recheck")

\* Faulty variant: nobody looks again once the watch is there.
RecheckNothing(k, p) == Step(k, p, "recheck", "wait")

\* Second look, for a file that came before the watch.
Recheck(k, p) ==
    Step(k, p, "recheck", IF sock[p] # 0 THEN "connect" ELSE "wait")

\* The event, or the end of the context, whichever select takes.
AwaitFile(k, p) ==
    \/ Step(k, p, "told", "connect")
    \/ k \notin ctx /\ (Step(k, p, "wait", "error") \/ Step(k, p, "told", "error"))

WaitForFile(k, p) ==
    /\ Check(k, p) \/ AddWatch(k, p) \/ Recheck(k, p) \/ AwaitFile(k, p)
    /\ UNCHANGED <<guests, monitoring, ctx, watcher, late, broken, conn,
                   tracked, inbox, reboots>>

\* External: a name is added again once the messages of its former connection
\* have been read.  QMP greets whoever connects.
Connect(k, p) ==
    /\ conn[p] = 0
    /\ \A m \in Range(inbox) : m.of # p
    /\ IF sock[p] # 0
       THEN /\ Step(k, p, "connect", "done")
            /\ conn' = [conn EXCEPT ![p] = sock[p]]
            /\ inbox' = inbox \o <<Message("add", p, sock[p])>>
                              \o (IF p = "qmp"
                                  THEN <<Message("greeting", p, sock[p])>>
                                  ELSE <<>>)
       ELSE /\ Step(k, p, "connect", "error")
            /\ UNCHANGED <<conn, inbox>>
    /\ UNCHANGED <<guests, monitoring, ctx, watcher, late, broken,
                   tracked, reboots>>

\* The name has been added already: no second connection.
AlreadyAdded(k, p) ==
    /\ conn[p] # 0 /\ conn[p] = sock[p]
    /\ Step(k, p, "connect", "error")
    /\ UNCHANGED <<guests, monitoring, conn, ctx, watcher,
                   late, broken, tracked, inbox, reboots>>

\* The watcher cannot be created or the directory not watched, or the client
\* refuses the name or cannot connect: no second attempt is made.
CallFails(k, p) ==
    /\ Step(k, p, "watch", "error") \/ Step(k, p, "connect", "error")
    /\ broken' = IF p = "qmp" THEN broken \cup {k} ELSE broken
    /\ UNCHANGED <<guests, monitoring, conn, ctx, watcher,
                   late, tracked, inbox, reboots>>

-----------------------------------------------------------------------------
(* The goroutine that awaits the end of an instance *)

\* The unbuffered errorCh: the first error, if this goroutine still selects.
\* Any other registration that fails waits in "error" for good.
TakeError(k, p) ==
    /\ watcher[k] = "select"
    /\ watcher' = [watcher EXCEPT ![k] = "await"]
    /\ Step(k, p, "error", "done")
    /\ UNCHANGED <<guests, monitoring, ctx, late, broken, conn,
                   tracked, inbox, reboots>>

ContextEnds(k) ==
    /\ watcher[k] = "select" /\ k \notin ctx
    /\ watcher' = [watcher EXCEPT ![k] = "await"]
    /\ UNCHANGED <<guests, monitoring, add, ctx, late, broken, conn,
                   tracked, inbox, reboots>>

\* The end is reported to the loop, which cancels and forgets what it tracks
\* under that id, be it the successor; the goroutine cancels its own context.
Report(k) ==
    /\ watcher[k] \in {"select", "await"} /\ vm # k
    /\ watcher' = [watcher EXCEPT ![k] = "ended"]
    /\ ctx' = ctx \ {tracked, k}
    /\ late' = late \cup CutOff({tracked, k})
    /\ tracked' = 0
    /\ UNCHANGED <<guests, monitoring, add, broken, conn, inbox,
                   reboots>>

-----------------------------------------------------------------------------
(* The connections, and the monitor goroutine *)

\* The connection of a dead process closes.
Hangup(p) ==
    /\ conn[p] # 0 /\ conn[p] # vm
    /\ conn' = [conn EXCEPT ![p] = 0]
    /\ inbox' = Append(inbox, Message("gone", p, conn[p]))
    /\ UNCHANGED <<guests, registering, monitoring, tracked, reboots>>

\* The answer to a ping: QMP knows no such command, the agent answers once
\* the guest runs it, which it may never do.
Pong(p) ==
    /\ conn[p] # 0 /\ conn[p] = vm
    /\ <<p, conn[p]>> \in requests
    /\ Message("pong", p, conn[p]) \notin Range(inbox)
    /\ inbox' = Append(inbox, Message("pong", p, conn[p]))
    /\ UNCHANGED <<guests, registering, monitoring, conn, tracked,
                   reboots>>

\* Faulty variant: the name stays ready when its connection is gone.
ForgetReadyNot(m) == UNCHANGED ready

\* An end of a connection removes its name from the map.
ForgetReady(m) == ready' = [ready EXCEPT ![m.of] = 0]

\* A new connection is pinged; a ping that cannot be sent is not recorded.
OnAdd(m) ==
    /\ m.kind = "add"
    /\ requests' = IF conn[m.of] = m.from
                   THEN requests \cup {<<m.of, m.from>>} ELSE requests
    /\ UNCHANGED <<asking, ready>>

OnGone(m) ==
    /\ m.kind = "gone"
    /\ ForgetReady(m)
    /\ UNCHANGED <<asking, requests>>

\* A greeting is answered with qmp_capabilities, whose answer is awaited.
OnGreeting(m) ==
    /\ m.kind = "greeting"
    /\ asking' = IF conn[m.of] # 0 THEN m.of ELSE "none"
    /\ UNCHANGED <<requests, ready>>

\* The answer to a recorded ping; the agent's makes its name ready.
OnPong(m) ==
    /\ m.kind = "pong"
    /\ ready' = IF <<m.of, m.from>> \in requests /\ m.of = "qga"
                THEN [ready EXCEPT ![m.of] = m.from] ELSE ready
    /\ requests' = requests \ {<<m.of, m.from>>}
    /\ UNCHANGED asking

ReadMessage ==
    /\ asking = "none" /\ inbox # <<>>
    /\ LET m == Head(inbox)
       IN  OnAdd(m) \/ OnGone(m) \/ OnGreeting(m) \/ OnPong(m)
    /\ inbox' = Tail(inbox)
    /\ UNCHANGED <<guests, registering, conn, tracked, reboots>>

\* The answer arrives, or the end of the connection answers instead
\* (external); all other messages wait that long.
Negotiated ==
    /\ asking # "none"
    /\ \/ /\ conn[asking] # 0
          /\ ready' = [ready EXCEPT ![asking] = conn[asking]]
          /\ requests' = {r \in requests : r[1] # asking}
       \/ /\ conn[asking] # vm
          /\ UNCHANGED <<ready, requests>>
    /\ asking' = "none"
    /\ UNCHANGED <<guests, registering, conn, tracked, inbox, reboots>>

-----------------------------------------------------------------------------
\* The service stops, as it may when the loop reads the map of ready names
\* while the monitor writes it, and is started again: all goroutines are new,
\* and a process that lives is attached to.
Reboot ==
    /\ reboots < MaxReboots
    /\ reboots' = reboots + 1
    /\ conn' = [p \in Sockets |-> 0]
    /\ add' = [k \in Vms |-> [p \in Sockets |->
                  IF k = vm /\ p \in followed[k] THEN "check" ELSE "none"]]
    /\ watcher' = [k \in Vms |-> IF k = vm THEN "select" ELSE "none"]
    /\ ctx' = {vm} \ {0}
    /\ tracked' = vm
    /\ inbox' = <<>>
    /\ asking' = "none" /\ requests' = {}
    /\ ready' = [p \in Sockets |-> 0]
    /\ late' = {} /\ broken' = {}
    /\ UNCHANGED guests

-----------------------------------------------------------------------------
Register(k, p) ==
    WaitForFile(k, p) \/ Connect(k, p) \/ AlreadyAdded(k, p) \/ CallFails(k, p)

Await(k) ==
    Report(k) \/ ContextEnds(k) \/ \E p \in Sockets : TakeError(k, p)

Monitor == ReadMessage \/ Negotiated

MonitorNext ==
    \/ StartVm \/ VmEnds \/ KillVm \/ Reboot
    \/ \E k \in Vms : Timeout(k) \/ Await(k) \/ \E p \in Sockets : Register(k, p)
    \/ \E p \in Sockets : CreateSocket(p) \/ Hangup(p) \/ Pong(p)
    \/ Monitor

\* Goroutines run, the end of a connection is noticed, QEMU answers
\* qmp_capabilities or ends.  Nothing makes a socket appear, the agent
\* answer or the time run out.
MonitorFairness ==
    /\ \A k \in Vms : /\ WF_monitorVars(Await(k))
                      /\ \A p \in Sockets : WF_monitorVars(Register(k, p))
    /\ \A p \in Sockets : WF_monitorVars(Hangup(p))
    /\ WF_monitorVars(Monitor)

MonitorSpec == MonitorInit /\ [][MonitorNext]_monitorVars /\ MonitorFairness

-----------------------------------------------------------------------------
(* Properties *)

\* Type invariant.
MonitorTypeOK ==
    /\ {vm, born, tracked} \subseteq 0 .. MaxVms
    /\ {sock, conn, ready} \subseteq [Sockets -> 0 .. MaxVms]
    /\ add \in [Vms -> [Sockets -> {"none", "check", "watch", "recheck", "wait",
                                    "told", "connect", "done", "error"}]]
    /\ watcher \in [Vms -> {"none", "select", "await", "ended"}]
    /\ ctx \subseteq Vms /\ late \subseteq Vms /\ broken \subseteq Vms
    /\ inbox \in Seq([kind : {"add", "greeting", "pong", "gone"},
                      of : Sockets, from : Vms])
    /\ asking \in {"none", "qmp"}
    /\ requests \subseteq Sockets \X Vms
    /\ reboots \in 0 .. MaxReboots

\* A name that is ready is connected to the process that made it ready, or
\* the end of that connection is still to be read: a command is never sent
\* on the strength of a predecessor's readiness for longer than that, however
\* restarts, late answers and the wait for qmp_capabilities interleave.
ReadyIsBacked ==
    \A p \in Sockets : ready[p] # 0 =>
        \/ conn[p] = ready[p]
        \/ Message("gone", p, ready[p]) \in Range(inbox)

\* A running VM whose QMP socket exists becomes ready for commands, whether
\* the socket came before, between or after the two looks and the watch, and
\* through restarts of the service; unless, in the present run of the service,
\* a call of its registration failed, its time ran out, or the removal of a
\* predecessor cut it off.
BecomesReady ==
    \A k \in Vms :
        (vm = k /\ sock["qmp"] = k)
            ~> (ready["qmp"] = k \/ vm # k \/ k \in late \cup broken)

\* Claimed by README.md:13, "Query the status, configuration, and runtime info
\* of VMs": a running VM becomes ready for queries when no call failed and no
\* time ran out; the removal of a predecessor is no excuse.  TLC refutes it: the
\* late report of the predecessor's end cancels the successor's registration.
QueriesAreServed ==
    \A k \in Vms :
        (vm = k /\ sock["qmp"] = k) ~> (ready["qmp"] = k \/ vm # k \/ k \in broken)
=============================================================================
