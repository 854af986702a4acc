-------------------------- MODULE FirewallReconcile --------------------------
(***************************************************************************)
(* The goroutine that keeps the host's forwarding rules on the default     *)
(* interface (qcontrollerd/cmd/qemu_linux.go).  Default-interface changes, *)
(* link changes and a ticker wake it; other tools flush the rules.  The    *)
(* two subscriptions, the ticker and the rules are external: netlink       *)
(* closes the channel it delivers on when its socket fails.                *)
(***************************************************************************)
EXTENDS Naturals, Sequences

CONSTANTS
    Ifaces,     \* interfaces that can be the default one
    NoIface,    \* none yet
    LinkBuffer, \* capacity of linkCh, 16 in the code
    MaxNews,    \* bound: notifications of either kind
    MaxMishaps  \* bound: flushes, failed Connects, closed subscriptions

ASSUME ReconcileAssumption ==
    /\ NoIface \notin Ifaces
    /\ LinkBuffer \in Nat \ {0} /\ MaxNews \in Nat /\ MaxMishaps \in Nat

VARIABLES
    loop,     \* step of the goroutine
    iface,    \* the interface it knows
    ifaceCh,  \* default interfaces it has yet to read
    subState, \* that subscription: "open", "closed", or "nil" once seen closed
    linkCh,   \* number of link events it has yet to read
    linkState, \* that subscription, "nil" if there never was one
    tick,     \* the ticker's channel holds a tick
    rules,    \* interface the rules forward to
    told,     \* last interface the subscription has delivered
    news, mishaps

sources == <<ifaceCh, subState, linkCh, linkState, tick>>
reconcileVars == <<loop, iface, sources, rules, told, news, mishaps>>

ReconcileInit ==
    /\ loop = "off"
    /\ iface = NoIface
    /\ ifaceCh = <<>> /\ subState = "open"
    /\ linkCh = 0 /\ linkState = "nil"
    /\ tick = FALSE
    /\ rules = NoIface
    /\ told = NoIface
    /\ news = 0 /\ mishaps = 0

\* The link subscription may fail; the goroutine relies on the ticker then.
LaunchReconcile ==
    /\ loop = "off"
    /\ loop' = "select"
    /\ linkState' \in {"open", "nil"}
    /\ UNCHANGED <<iface, ifaceCh, subState, linkCh, tick, rules, told, news,
                   mishaps>>

-----------------------------------------------------------------------------
(* External *)

News == loop # "off" /\ news < MaxNews /\ news' = news + 1
Mishap == loop # "off" /\ mishaps < MaxMishaps /\ mishaps' = mishaps + 1

DefaultChanges(i) ==
    /\ subState = "open" /\ i # told /\ News
    /\ ifaceCh' = Append(ifaceCh, i)
    /\ told' = i
    /\ UNCHANGED <<loop, iface, subState, linkCh, linkState, tick, rules,
                   mishaps>>

LinkChanges ==
    /\ linkState = "open" /\ linkCh < LinkBuffer /\ News
    /\ linkCh' = linkCh + 1
    /\ UNCHANGED <<loop, iface, ifaceCh, subState, linkState, tick, rules, told,
                   mishaps>>

\* A tick that nobody has taken is not repeated.
Ticks ==
    /\ loop # "off" /\ ~tick
    /\ tick' = TRUE
    /\ UNCHANGED <<loop, iface, ifaceCh, subState, linkCh, linkState, rules, told,
                   news, mishaps>>

Flush ==
    /\ rules # NoIface /\ Mishap
    /\ rules' = NoIface
    /\ UNCHANGED <<loop, iface, sources, told, news>>

CloseSubscription ==
    /\ Mishap
    /\ \/ subState = "open" /\ subState' = "closed" /\ UNCHANGED linkState
       \/ linkState = "open" /\ linkState' = "closed" /\ UNCHANGED subState
    /\ UNCHANGED <<loop, iface, ifaceCh, linkCh, tick, rules, told, news>>

-----------------------------------------------------------------------------
(* The goroutine *)

Wake(to) == loop = "select" /\ loop' = to

Awake == IF iface = NoIface THEN "select" ELSE "connect"

\* Faulty variant: the check for no interface comes before the assignment.
WakeOnIfaceEarly == Wake(Awake)

WakeOnIface == Wake("connect")

ReadIface ==
    /\ ifaceCh # <<>> /\ WakeOnIface
    /\ iface' = Head(ifaceCh) /\ ifaceCh' = Tail(ifaceCh)
    /\ UNCHANGED <<subState, linkCh, linkState, tick, rules, told, news, mishaps>>

\* A closed subscription is not read again.
ReadIfaceClosed ==
    /\ ifaceCh = <<>> /\ subState = "closed" /\ Wake("select")
    /\ subState' = "nil"
    /\ UNCHANGED <<iface, ifaceCh, linkCh, linkState, tick, rules, told, news,
                   mishaps>>

\* One event, and then all that follow: a burst makes one Connect.
ReadLink ==
    /\ linkCh > 0 \/ linkState = "closed"
    /\ Wake("drain")
    /\ linkCh' = IF linkCh > 0 THEN linkCh - 1 ELSE 0
    /\ UNCHANGED <<iface, ifaceCh, subState, linkState, tick, rules, told, news,
                   mishaps>>

\* A closed channel is always ready, so that default is never taken.
DrainLink ==
    /\ loop = "drain"
    /\ linkCh' = 0
    /\ loop' = IF linkState = "closed" THEN "drain" ELSE Awake
    /\ UNCHANGED <<iface, ifaceCh, subState, linkState, tick, rules, told, news,
                   mishaps>>

\* Faulty variant: a tick does not re-apply the rules.
WakeOnTickNot == Wake("select")

WakeOnTick == Wake(Awake)

ReadTick ==
    /\ tick /\ WakeOnTick
    /\ tick' = FALSE
    /\ UNCHANGED <<iface, ifaceCh, subState, linkCh, linkState, rules, told, news,
                   mishaps>>

\* Connect moves the rules to the interface, or fails, which is only logged.
ApplyRules ==
    /\ loop = "connect" /\ loop' = "select"
    /\ \/ rules' = iface /\ UNCHANGED mishaps
       \/ Mishap /\ UNCHANGED rules
    /\ UNCHANGED <<iface, sources, told, news>>

\* The service is told to stop.
StopReconcile ==
    /\ loop = "select" /\ loop' = "stopped"
    /\ UNCHANGED <<iface, sources, rules, told, news, mishaps>>

-----------------------------------------------------------------------------
Reconcile ==
    ReadIface \/ ReadIfaceClosed \/ ReadLink \/ DrainLink \/ ReadTick \/ ApplyRules

ReconcileNext ==
    \/ LaunchReconcile \/ Reconcile \/ StopReconcile
    \/ \E i \in Ifaces : DefaultChanges(i)
    \/ LinkChanges \/ Ticks \/ Flush \/ CloseSubscription

\* The goroutine runs, its select takes no channel for ever in preference to
\* another, and the ticker goes on.
ReconcileFairness ==
    /\ WF_reconcileVars(Reconcile)
    /\ SF_reconcileVars(ReadIface) /\ SF_reconcileVars(ReadTick)
    /\ WF_reconcileVars(Ticks)

ReconcileSpec ==
    ReconcileInit /\ [][ReconcileNext]_reconcileVars /\ ReconcileFairness

-----------------------------------------------------------------------------
(* Properties *)

\* Type invariant.
ReconcileTypeOK ==
    /\ loop \in {"off", "select", "drain", "connect", "stopped"}
    /\ {iface, rules, told} \subseteq Ifaces \cup {NoIface}
    /\ ifaceCh \in Seq(Ifaces)
    /\ {subState, linkState} \subseteq {"open", "closed", "nil"}
    /\ linkCh \in 0 .. LinkBuffer
    /\ tick \in BOOLEAN
    /\ news \in 0 .. MaxNews /\ mishaps \in 0 .. MaxMishaps

\* The goroutine never rests on old news: when it waits with nothing to read of
\* the default interface, it knows the last one announced, and unless something
\* failed or was flushed the rules are on it.
RulesAreCurrent ==
    loop = "select" /\ ifaceCh = <<>> =>
        iface = told /\ (mishaps = 0 => rules = told)

\* Whatever flushes the rules, and whichever events burst in or fail to come,
\* the rules end up on the last default interface that was announced, "re-applied
\* on default-iface changes, link changes, and a periodic safety tick"; unless
\* the service is stopped.
RulesFollow == <>[](loop = "stopped" \/ rules = told)

\* The same of behaviours in which the link subscription does not break down.
RulesFollowUncut ==
    <>[](loop = "stopped" \/ rules = told \/ linkState = "closed")
=============================================================================
