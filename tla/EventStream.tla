------------------------------ MODULE EventStream ------------------------------
(***************************************************************************)
(* The way of a VM event from a node to the orchestrator: the controller's *)
(* Create, Remove and poll (controller/vm/manager.go), its event publisher *)
(* (pkg/events/eventpublisher.go) with cache and queue, the publisher's    *)
(* streams to the event service (pkg/protos/event.go), which keeps nothing *)
(* and passes events on to whoever is subscribed, and the orchestrator's   *)
(* subscriber of that node (qcontrollerd/cmd/node_subscriber.go), which    *)
(* reads the node's state before it subscribes.  What happens behind the   *)
(* orchestrator's broadcaster is in Broadcaster.                           *)
(***************************************************************************)
EXTENDS Naturals, Sequences, Functions

CONSTANTS
    Ids,         \* instance names
    States,      \* what an event can say of an instance
    Stopped,     \* what Create says of it
    None,        \* absent
    QueueSize,   \* capacity of the publisher's queue
    MaxChanges,  \* bound: requests and changes of instances in a behaviour
    MaxBreaks,   \* bound: broken streams in a behaviour
    MaxRestarts  \* bound: restarts of the controller in a behaviour

VARIABLES
    truth,      \* what the controller's List says: id -> state or None
    owed,       \* publications that Create and Remove have yet to make, counted
    poll,       \* what the poll does next
    listed,     \* what it was told of each instance
    tasks,      \* instances it has yet to publish
    cache,      \* the publisher's cache: id -> state or None
    queue,      \* events waiting for the publishing goroutine
    stream,     \* its stream to the event service
    wire,       \* events in that stream
    past,       \* events in each of its former streams, served all the same
    registered, \* whether the event service knows the subscriber
    down,       \* events in the subscriber's stream
    sub,        \* what the node subscriber does next
    view,       \* what it has last passed on of each instance
    changes, breaks, restarts,
    inStep      \* history: the orchestrator knew the truth, and no fault since

streamVars == <<truth, owed, poll, listed, tasks, cache, queue, stream, wire, past,
                registered, down, sub, view, changes, breaks, restarts, inStep>>
instances == <<truth, changes>>
poller == <<poll, listed, tasks>>
publisher == <<queue, stream, wire, past>>
subscriber == <<registered, down, sub, view>>
faults == <<breaks, restarts>>

StreamEvents == [id : Ids, state : States \cup {None}]
Owings == Ids \X {Stopped, None}
Nothing == [i \in Ids |-> None]

ASSUME StreamAssumption ==
    /\ None \notin States /\ Stopped \in States
    /\ QueueSize \in Nat \ {0}
    /\ MaxChanges \in Nat /\ MaxBreaks \in Nat /\ MaxRestarts \in Nat

StreamInit ==
    /\ truth = Nothing
    /\ owed = [o \in Owings |-> 0]
    /\ poll = "idle" /\ listed = Nothing /\ tasks = {}
    /\ cache = Nothing
    /\ queue = <<>>
    /\ stream = "down" /\ wire = <<>> /\ past = <<>>
    /\ registered = FALSE
    /\ down = <<>>
    /\ sub = "seed"
    /\ view = Nothing
    /\ changes = 0 /\ breaks = 0 /\ restarts = 0
    /\ inStep = FALSE

\* The orchestrator is subscribed, nothing is under way and it knows the truth.
Synced ==
    /\ registered /\ stream = "up"
    /\ queue = <<>> /\ wire = <<>> /\ down = <<>>
    /\ \A k \in DOMAIN past : past[k] = <<>>
    /\ cache = truth /\ view = truth

\* One of the two is part of every action and keeps the history variable.
Sound == inStep' = (inStep \/ Synced')
Faulty == inStep' = FALSE

-----------------------------------------------------------------------------
(* Instances, and who is to publish their changes *)

Changes(i, s) ==
    /\ changes < MaxChanges
    /\ changes' = changes + 1
    /\ truth' = [truth EXCEPT ![i] = s]
    /\ UNCHANGED <<poller, cache, publisher, subscriber, faults>>
    /\ Sound

Owe(i, s) == owed' = [owed EXCEPT ![<<i, s>>] = @ + 1]

Create(i) ==
    /\ truth[i] = None
    /\ Changes(i, Stopped)
    /\ Owe(i, Stopped)

\* Remove publishes also when it found no record, or could not read it.
Remove(i) ==
    /\ Changes(i, None) \/ Changes(i, truth[i])
    /\ Owe(i, None)

\* Other changes are published by the poll alone.
Evolve(i, s) ==
    /\ truth[i] \notin {None, s}
    /\ Changes(i, s)
    /\ UNCHANGED owed

-----------------------------------------------------------------------------
(* The publisher *)

Enqueue(e) == Append(queue, e)

Room == Len(queue) < QueueSize

\* publish never waits: an event that finds the queue full is dropped.
PublishEvent(i, s) ==
    queue' = IF Room THEN Enqueue([id |-> i, state |-> s]) ELSE queue

\* What the cache holds already is not published again.  The cache takes the
\* state whether or not the event finds room.
VMUpdated(i, s) ==
    /\ cache' = [cache EXCEPT ![i] = s]
    /\ IF cache[i] = s THEN UNCHANGED queue ELSE PublishEvent(i, s)

\* A removal is published whatever the cache holds.
VMRemoved(i) ==
    /\ cache' = [cache EXCEPT ![i] = None]
    /\ PublishEvent(i, None)

Dropped(i, s) == ~Room /\ (s = None \/ cache[i] # s)

Tell(i, s) == IF s = None THEN VMRemoved(i) ELSE VMUpdated(i, s)

\* The end of a Create or a Remove, by when the instance may be another.
PublishOwed(i, s) ==
    /\ owed[<<i, s>>] > 0
    /\ owed' = [owed EXCEPT ![<<i, s>>] = @ - 1]
    /\ Tell(i, s)
    /\ UNCHANGED <<instances, poller, stream, wire, past, subscriber, faults>>
    /\ IF Dropped(i, s) THEN Faulty ELSE Sound

-----------------------------------------------------------------------------
(* The poll *)

PollList ==
    /\ poll = "idle"
    /\ listed' = truth
    /\ poll' = "compare"
    /\ UNCHANGED <<instances, owed, tasks, cache, publisher, subscriber, faults>>
    /\ Sound

\* The poll is to publish these, and rests when there are none.
Publishing(is) ==
    /\ tasks' = is
    /\ poll' = IF is = {} THEN "idle" ELSE "publish"
    /\ listed' = IF is = {} THEN Nothing ELSE listed

\* Faulty variant: what is no longer listed is left alone.
ToPublishListed == {i \in Ids : listed[i] # None}

\* What is cached and no longer listed has disappeared.
ToPublish == {i \in Ids : listed[i] # None \/ cache[i] # None}

PollCompare ==
    /\ poll = "compare"
    /\ Publishing(ToPublish)
    /\ UNCHANGED <<instances, owed, cache, publisher, subscriber, faults>>
    /\ Sound

\* Removals first, then what was listed, which may be outdated by now.
PollPublish(i) ==
    /\ i \in tasks
    /\ listed[i] # None => \A j \in tasks : listed[j] # None
    /\ Publishing(tasks \ {i})
    /\ Tell(i, listed[i])
    /\ UNCHANGED <<instances, owed, stream, wire, past, subscriber, faults>>
    /\ IF Dropped(i, listed[i]) THEN Faulty ELSE Sound

-----------------------------------------------------------------------------
(* The publishing goroutine and the event service *)

\* At once after a restart, or after a back-off: nothing waits for what the
\* event service has yet to read of the former stream.
Reconnect ==
    /\ stream = "down"
    /\ stream' = "up"
    /\ UNCHANGED <<instances, owed, poller, cache, queue, wire, past, subscriber, faults>>
    /\ Sound

\* Events written to a broken stream are lost, until a write finds it broken.
Forward ==
    /\ queue # <<>>
    /\ queue' = Tail(queue)
    /\ \/ /\ stream = "up"
          /\ wire' = Append(wire, Head(queue))
          /\ UNCHANGED stream
       \/ /\ stream = "broken"
          /\ stream' \in {"broken", "down"}
          /\ UNCHANGED wire
    /\ UNCHANGED <<instances, owed, poller, cache, past, subscriber, faults>>
    /\ Sound

ToSubscriber(e) == down' = IF registered THEN Append(down, e) ELSE down

\* Each stream has a handler of its own in the event service.
Broadcast ==
    /\ \/ /\ wire # <<>>
          /\ ToSubscriber(Head(wire))
          /\ wire' = Tail(wire)
          /\ UNCHANGED past
       \/ \E k \in DOMAIN past :
             /\ past[k] # <<>>
             /\ ToSubscriber(Head(past[k]))
             /\ past' = [past EXCEPT ![k] = Tail(@)]
             /\ UNCHANGED wire
    /\ UNCHANGED <<instances, owed, poller, cache, queue, stream, registered, sub, view,
                   faults>>
    /\ Sound

\* The event service starts to serve the subscription.
Register ==
    /\ sub = "receive"
    /\ ~registered
    /\ registered' = TRUE
    /\ UNCHANGED <<instances, owed, poller, cache, publisher, down, sub, view, faults>>
    /\ Sound

-----------------------------------------------------------------------------
(* The node subscriber *)

\* seedNodeState: every instance there is now, nothing of those that are not.
\* The call may fail.
Seed ==
    /\ sub = "seed"
    /\ \/ view' = [i \in Ids |-> IF truth[i] # None THEN truth[i] ELSE view[i]]
       \/ UNCHANGED view
    /\ sub' = "subscribe"
    /\ UNCHANGED <<instances, owed, poller, cache, publisher, registered, down, faults>>
    /\ Sound

SubscribeToNode ==
    /\ sub = "subscribe"
    /\ sub' = "receive"
    /\ UNCHANGED <<instances, owed, poller, cache, publisher, registered, down, view, faults>>
    /\ Sound

\* Faulty variant: only updates are passed on.
PassUpdate(e) ==
    view' = IF e.state = None THEN view ELSE [view EXCEPT ![e.id] = e.state]

Pass(e) == view' = [view EXCEPT ![e.id] = e.state]

ReceiveEvent ==
    /\ down # <<>>
    /\ Pass(Head(down))
    /\ down' = Tail(down)
    /\ UNCHANGED <<instances, owed, poller, cache, publisher, registered, sub, faults>>
    /\ Sound

-----------------------------------------------------------------------------
(* Faults *)

\* A part of what the stream held has reached the event service.
LeaveStream == \E k \in 0 .. Len(wire) : past' = Append(past, SubSeq(wire, 1, k))

StreamBreaks ==
    /\ breaks < MaxBreaks /\ breaks' = breaks + 1
    /\ stream = "up" /\ stream' = "broken"
    /\ LeaveStream /\ wire' = <<>>
    /\ UNCHANGED <<instances, owed, poller, cache, queue, subscriber, restarts>>
    /\ Faulty

\* The subscriber's stream breaks, or cannot be opened: it starts over.
LinkBreaks ==
    /\ breaks < MaxBreaks /\ breaks' = breaks + 1
    /\ sub \in {"subscribe", "receive"} /\ sub' = "seed"
    /\ registered' = FALSE
    /\ down' = <<>>
    /\ UNCHANGED <<instances, owed, poller, cache, publisher, view, restarts>>
    /\ Faulty

ControllerRestart ==
    /\ restarts < MaxRestarts /\ restarts' = restarts + 1
    /\ owed' = [o \in Owings |-> 0]
    /\ poll' = "idle" /\ listed' = Nothing /\ tasks' = {}
    /\ cache' = Nothing
    /\ queue' = <<>>
    /\ stream' = "down"
    /\ LeaveStream /\ wire' = <<>>
    /\ UNCHANGED <<instances, subscriber, breaks>>
    /\ Faulty

-----------------------------------------------------------------------------
Request(i) == Create(i) \/ Remove(i) \/ \E s \in States : Evolve(i, s)

Poll == PollList \/ PollCompare \/ \E i \in Ids : PollPublish(i)

Subscriber == Seed \/ SubscribeToNode \/ ReceiveEvent

Fault == StreamBreaks \/ LinkBreaks \/ ControllerRestart

StreamNext ==
    \/ \E i \in Ids : Request(i)
    \/ \E o \in Owings : PublishOwed(o[1], o[2])
    \/ Poll
    \/ Reconnect \/ Forward \/ Broadcast \/ Register
    \/ Subscriber
    \/ Fault

StreamSpec == StreamInit /\ [][StreamNext]_streamVars

\* Requests end, the poll goes on, and the goroutines of the processes run.
StreamFairness ==
    /\ \A o \in Owings : WF_streamVars(PublishOwed(o[1], o[2]))
    /\ WF_streamVars(Poll)
    /\ WF_streamVars(Reconnect) /\ WF_streamVars(Forward) /\ WF_streamVars(Broadcast)
    /\ WF_streamVars(Register)
    /\ WF_streamVars(Subscriber)

StreamFairSpec == StreamSpec /\ StreamFairness

-----------------------------------------------------------------------------
(* Properties *)

\* Type invariant.
StreamTypeOK ==
    /\ {truth, listed, cache, view} \subseteq [Ids -> States \cup {None}]
    /\ owed \in [Owings -> 0 .. MaxChanges]
    /\ poll \in {"idle", "compare", "publish"}
    /\ tasks \subseteq Ids
    /\ {queue, wire, down} \subseteq Seq(StreamEvents)
    /\ past \in Seq(Seq(StreamEvents))
    /\ Len(queue) <= QueueSize
    /\ stream \in {"up", "broken", "down"}
    /\ registered \in BOOLEAN
    /\ sub \in {"seed", "subscribe", "receive"}
    /\ changes \in 0 .. MaxChanges
    /\ breaks \in 0 .. MaxBreaks /\ restarts \in 0 .. MaxRestarts
    /\ inStep \in BOOLEAN

\* What the orchestrator has yet to read, in the order in which it will.
Unread == (down \o wire) \o queue

\* What it will know of i when it has read that.
WillKnow(i, s) ==
    \/ view[i] = s /\ \A k \in DOMAIN Unread : Unread[k].id # i
    \/ \E k \in DOMAIN Unread :
          /\ Unread[k] = [id |-> i, state |-> s]
          /\ \A j \in DOMAIN Unread : j > k => Unread[j].id # i

\* Since the orchestrator was in step with a node, and as long as nothing breaks
\* and the queue does not overflow, it has missed nothing that the node has
\* published: what is under way will bring it to the publisher's cache, however
\* the events are spread over queue and streams.
NothingMissed == inStep => \A i \in Ids : WillKnow(i, cache[i])

\* Once the orchestrator is in step with a node, every later change of an
\* instance, its removal included, reaches it as long as nothing breaks and
\* the queue does not overflow, although polls publish outdated lists and
\* requests publish late.
LiveUpdates ==
    \A i \in Ids : \A s \in States \cup {None} :
        <>[]inStep /\ <>[](truth[i] = s) => <>[](view[i] = s)

\* Claimed by README.md:38, "Live VM state changes via WebSocket at `/ws`,
\* aggregated from all nodes by the orchestrator": the orchestrator's picture of
\* an instance follows its changes.
ViewFollows ==
    \A i \in Ids : \A s \in States \cup {None} :
        <>[](truth[i] = s) => <>[](view[i] = s)
=============================================================================
