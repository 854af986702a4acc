------------------------------- MODULE MCHost -------------------------------
(***************************************************************************)
(* Three loops of a node's host, side by side: the one that owns the QEMU  *)
(* processes, the one that makes a running VM reachable and the one that   *)
(* keeps the forwarding rules.  In a behaviour one moves and the others    *)
(* stay at their beginning, where their fairness asks for no step.         *)
(***************************************************************************)
EXTENDS QemuLifecycle, InstanceMonitor, FirewallReconcile

VARIABLE work   \* the one that moves

\* A process with an agent, or two processes without.
MCFollowings == {<<{"qmp", "qga"}>>, <<{"qmp"}, {"qmp"}>>}

hostVars == <<work, vars, monitorVars, reconcileVars>>

\* A part that does not move begins in one state.
HostInit ==
    /\ work \in {"lifecycle", "monitor", "rules"}
    /\ Init /\ MonitorInit /\ ReconcileInit
    /\ work # "monitor" => Len(followed) = 1
    /\ work # "lifecycle" => target = [c \in Callers |-> CHOOSE i \in Ids : TRUE]

HostNext ==
    /\ UNCHANGED work
    /\ \/ work = "lifecycle" /\ Next /\ UNCHANGED <<monitorVars, reconcileVars>>
       \/ work = "monitor" /\ MonitorNext /\ UNCHANGED <<vars, reconcileVars>>
       \/ work = "rules" /\ ReconcileNext /\ UNCHANGED <<vars, monitorVars>>

HostSpec ==
    /\ HostInit /\ [][HostNext]_hostVars
    /\ Fairness /\ MonitorFairness /\ ReconcileFairness

\* Type invariant of the three.
HostTypeOK == TypeOK /\ MonitorTypeOK /\ ReconcileTypeOK
=============================================================================
