------------------------------ MODULE Broadcaster ------------------------------
(***************************************************************************)
(* The orchestrator's fan-out of events to WebSocket clients:              *)
(* pkg/orchestrator/broadcast.go with its only user, orchWsHandler of      *)
(* qcontrollerd/cmd/orchestrator.go.  One goroutine, Run, owns the set of  *)
(* subscriptions; handlers reach it over two buffered channels that Go's   *)
(* select serves in no particular order.  Sending on a closed channel, or  *)
(* closing one twice, panics and takes the orchestrator down.              *)
(***************************************************************************)
EXTENDS Naturals, Sequences, FiniteSets

CONSTANTS
    Sockets,     \* orchWsHandler goroutines, one per WebSocket client
    BufferSize,   \* capacity of eventCh, subCh and unsubCh
    ClientBuffer, \* capacity of a subscription's channel
    MaxEvents     \* bound: calls of Send in a behaviour

VARIABLES
    eventCh,   \* events waiting for Run; an event is the number of its Send
    subCh,     \* subscriptions waiting for Run
    unsubCh,   \* subscriptions waiting to be removed by Run
    subs,      \* subscriptions Run knows
    ch,        \* handler -> buffered events of its subscription
    closed,    \* subscriptions whose channel is closed
    pc,        \* where each handler is
    last,      \* handler -> the newest event written to its client, 0: none
    sends,     \* calls of Send so far
    running,   \* whether Run is in its loop
    panicked

broadcastVars ==
    <<eventCh, subCh, unsubCh, subs, ch, closed, pc, last, sends, running, panicked>>
queues == <<eventCh, subCh, unsubCh>>
clients == <<pc, last>>

Events == 1 .. MaxEvents

ASSUME BroadcasterAssumption ==
    /\ BufferSize \in Nat \ {0} /\ ClientBuffer \in Nat \ {0}
    /\ MaxEvents \in Nat

BroadcastInit ==
    /\ eventCh = <<>>
    /\ subCh = {}
    /\ unsubCh = {}
    /\ subs = {}
    /\ ch = [h \in Sockets |-> <<>>]
    /\ closed = {}
    /\ pc = [h \in Sockets |-> "connecting"]
    /\ last = [h \in Sockets |-> 0]
    /\ sends = 0
    /\ running = TRUE
    /\ panicked = FALSE

Move(h, step) == pc' = [pc EXCEPT ![h] = step]

\* A node subscriber or the server sends an event, never waiting.
Send ==
    /\ sends < MaxEvents
    /\ sends' = sends + 1
    /\ eventCh' = IF Len(eventCh) < BufferSize THEN Append(eventCh, sends')
                                               ELSE eventCh
    /\ UNCHANGED <<subCh, unsubCh, subs, ch, closed, clients, running, panicked>>

-----------------------------------------------------------------------------
(* The handler of one client *)

Subscribe(h) ==
    /\ pc[h] = "connecting"
    /\ Cardinality(subCh) < BufferSize
    /\ subCh' = subCh \cup {h}
    /\ Move(h, "reading")
    /\ UNCHANGED <<eventCh, unsubCh, subs, ch, closed, last, sends, running, panicked>>

\* The event is written to the client, or the client turns out to be gone.
Take(h) ==
    /\ pc[h] = "reading"
    /\ ch[h] # <<>>
    /\ ch' = [ch EXCEPT ![h] = Tail(@)]
    /\ last' = [last EXCEPT ![h] = Head(ch[h])]
    /\ UNCHANGED pc \/ Move(h, "leaving")
    /\ UNCHANGED <<queues, subs, closed, sends, running, panicked>>

\* Faulty variant: the handler watches its client and leaves when it is gone.
EndsAnyTime(h) == TRUE

\* A closed channel yields what it holds, and then reports the end.  This is
\* all that ends a handler that waits: the context of a request whose
\* connection was hijacked for a WebSocket ends only after its handler.
Ends(h) == h \in closed /\ ch[h] = <<>>

TakeClosed(h) ==
    /\ pc[h] = "reading"
    /\ Ends(h)
    /\ Move(h, "leaving")
    /\ UNCHANGED <<queues, subs, ch, closed, last, sends, running, panicked>>

\* Deferred by the handler.
Unsubscribe(h) ==
    /\ pc[h] = "leaving"
    /\ Cardinality(unsubCh) < BufferSize
    /\ unsubCh' = unsubCh \cup {h}
    /\ Move(h, "gone")
    /\ UNCHANGED <<eventCh, subCh, subs, ch, closed, last, sends, running, panicked>>

-----------------------------------------------------------------------------
(* Run *)

RunSubscribe(h) ==
    /\ running /\ ~panicked
    /\ h \in subCh
    /\ subCh' = subCh \ {h}
    /\ subs' = subs \cup {h}
    /\ UNCHANGED <<eventCh, unsubCh, ch, closed, clients, sends, running, panicked>>

\* Faulty variant: the subscription stays in the map.
Unregister(h) == UNCHANGED subs

Drop(h) == subs' = subs \ {h}

RunUnsubscribe(h) ==
    /\ running /\ ~panicked
    /\ h \in unsubCh
    /\ unsubCh' = unsubCh \ {h}
    /\ Drop(h)
    /\ closed' = closed \cup {h}
    /\ panicked' = (h \in closed)
    /\ UNCHANGED <<eventCh, subCh, ch, clients, sends, running>>

\* Faulty variants: Run waits for room in every client's channel; the newest
\* event comes first.
ReadyWithRoom == eventCh # <<>> /\ \A h \in subs : Len(ch[h]) < ClientBuffer

DeliverFront(h, e) ==
    IF Len(ch[h]) < ClientBuffer THEN <<e>> \o ch[h] ELSE ch[h]

Ready == eventCh # <<>>

\* A client whose channel is full misses the event.
Deliver(h, e) ==
    IF Len(ch[h]) < ClientBuffer THEN Append(ch[h], e) ELSE ch[h]

RunEvent ==
    /\ running /\ ~panicked
    /\ Ready
    /\ eventCh' = Tail(eventCh)
    /\ ch' = [h \in Sockets |->
                IF h \in subs \ closed THEN Deliver(h, Head(eventCh)) ELSE ch[h]]
    /\ panicked' = (subs \cap closed # {})
    /\ UNCHANGED <<subCh, unsubCh, subs, closed, clients, sends, running>>

\* The orchestrator is told to stop.
RunStop ==
    /\ running /\ ~panicked
    /\ running' = FALSE
    /\ closed' = closed \cup subs
    /\ panicked' = (subs \cap closed # {})
    /\ UNCHANGED <<queues, subs, ch, clients, sends>>

-----------------------------------------------------------------------------
Handle(h) ==
    \/ Subscribe(h) \/ Take(h) \/ TakeClosed(h) \/ Unsubscribe(h)

Run ==
    \/ \E h \in Sockets : RunSubscribe(h) \/ RunUnsubscribe(h)
    \/ RunEvent
    \/ RunStop

BroadcastNext == Send \/ Run \/ \E h \in Sockets : Handle(h)

BroadcastSpec == BroadcastInit /\ [][BroadcastNext]_broadcastVars

\* Run is never without a turn, and select is fair to each of its channels.
\* Nothing is assumed of the handlers: a client may stop reading for ever.
BroadcastFairness ==
    /\ WF_broadcastVars(RunEvent)
    /\ \A h \in Sockets : WF_broadcastVars(RunSubscribe(h)) /\ WF_broadcastVars(RunUnsubscribe(h))

-----------------------------------------------------------------------------
(* Properties *)

\* Type invariant.
BroadcastTypeOK ==
    /\ eventCh \in Seq(Events) /\ Len(eventCh) <= BufferSize
    /\ subCh \subseteq Sockets
    /\ unsubCh \subseteq Sockets
    /\ subs \subseteq Sockets
    /\ ch \in [Sockets -> Seq(Events)]
    /\ \A h \in Sockets : Len(ch[h]) <= ClientBuffer
    /\ closed \subseteq Sockets
    /\ pc \in [Sockets -> {"connecting", "reading", "leaving", "gone"}]
    /\ last \in [Sockets -> 0 .. MaxEvents]
    /\ sends \in 0 .. MaxEvents
    /\ running \in BOOLEAN
    /\ panicked \in BOOLEAN

\* Run never sends on a closed channel and never closes one twice, although
\* an unsubscription may overtake the subscription it belongs to in select:
\* a handler leaves only after it has received something, and so after Run has
\* taken its subscription, or because Run itself has closed its channel.
NoPanic == ~panicked

\* A client sees events in the order they were sent, each at most once, with
\* gaps where a buffer was full.
InOrder ==
    [][\A h \in Sockets : last'[h] # last[h] => last'[h] > last[h]]_broadcastVars

\* A client that has left is forgotten: its subscription goes from the map
\* and its channel is closed, or the orchestrator is stopping.
LeaverIsForgotten ==
    \A h \in Sockets :
        h \in unsubCh ~> (h \notin subs /\ h \in closed) \/ ~running

\* Slow clients hold nobody up: every accepted event leaves the queue, even
\* if no client ever reads, unless the orchestrator is stopping.
EventsAreServed ==
    \A e \in Events :
        (eventCh # <<>> /\ Head(eventCh) = e)
            ~> (eventCh = <<>> \/ Head(eventCh) > e \/ ~running)
=============================================================================
