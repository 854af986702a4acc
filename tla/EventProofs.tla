----------------------------- MODULE EventProofs ------------------------------
(***************************************************************************)
(* An event's way to a client, for any number of clients and instances,    *)
(* any sizes of the queues and any number of faults: Broadcaster's Run     *)
(* never panics, every client sees the events in the order of their sends, *)
(* and an orchestrator in step with its node misses nothing of what the    *)
(* node publishes while nothing breaks (EventStream).                      *)
(***************************************************************************)
EXTENDS EventStream, Broadcaster, FiniteSetTheorems, SequenceTheorems, TLAPS

-----------------------------------------------------------------------------
(* From the orchestrator to its clients *)

\* How far a client's subscription has come while Run is in its loop.
Registration(h) ==
    /\ pc[h] = "connecting" => h \notin subCh \cup subs \cup closed /\ ch[h] = <<>>
    /\ h \in subCh => pc[h] = "reading" /\ h \notin subs \cup closed /\ ch[h] = <<>>
    /\ h \in unsubCh => pc[h] = "gone" /\ h \notin closed
    /\ h \in closed => pc[h] = "gone" /\ h \notin subs

Registrations == running => \A h \in Sockets : Registration(h)

\* A sequence of event numbers in the order of their sending.
Sorted(q) == \A j, k \in 1 .. Len(q) : j < k => q[j] < q[k]

\* What a client has seen is older than what waits for it, and that is older
\* than what waits for Run.
Ordered(h) ==
    /\ Sorted(ch[h])
    /\ last[h] <= sends
    /\ \A j \in 1 .. Len(ch[h]) : last[h] < ch[h][j] /\ ch[h][j] <= sends
    /\ \A k \in 1 .. Len(eventCh) : last[h] < eventCh[k]
    /\ \A j \in 1 .. Len(ch[h]), k \in 1 .. Len(eventCh) : ch[h][j] < eventCh[k]

OrderInv ==
    /\ Sorted(eventCh)
    /\ \A k \in 1 .. Len(eventCh) : eventCh[k] <= sends
    /\ \A h \in Sockets : Ordered(h)

IInv == BroadcastTypeOK /\ NoPanic /\ Registrations /\ OrderInv

-----------------------------------------------------------------------------
(* Types *)

LEMMA InitIInv == BroadcastInit => IInv
<1> SUFFICES ASSUME BroadcastInit PROVE IInv
  OBVIOUS
<1> USE BroadcasterAssumption
<1>1. BroadcastTypeOK /\ NoPanic
  <2>1. <<>> \in Seq(Events) /\ Len(<<>>) = 0
    BY EmptySeq
  <2>2. eventCh \in Seq(Events) /\ Len(eventCh) <= BufferSize
    BY <2>1 DEF BroadcastInit
  <2>3. /\ ch \in [Sockets -> Seq(Events)]
        /\ \A h \in Sockets : Len(ch[h]) <= ClientBuffer
    BY <2>1 DEF BroadcastInit
  <2>4. last \in [Sockets -> 0 .. MaxEvents] /\ sends \in 0 .. MaxEvents
    BY DEF BroadcastInit
  <2> QED
    BY <2>2, <2>3, <2>4 DEF BroadcastInit, BroadcastTypeOK, NoPanic
<1>2. Registrations
  BY DEF BroadcastInit, Registrations, Registration
<1>3. OrderInv
  BY DEF BroadcastInit, OrderInv, Ordered, Sorted
<1> QED
  BY <1>1, <1>2, <1>3 DEF IInv

LEMMA DeliverTypes ==
    ASSUME BroadcastTypeOK, NEW h \in Sockets, NEW e \in Events
    PROVE  Deliver(h, e) \in Seq(Events) /\ Len(Deliver(h, e)) <= ClientBuffer
<1>1. ch[h] \in Seq(Events) /\ Len(ch[h]) \in Nat /\ Len(ch[h]) <= ClientBuffer
  BY DEF BroadcastTypeOK
<1>2. /\ Append(ch[h], e) \in Seq(Events)
      /\ Len(Append(ch[h], e)) = Len(ch[h]) + 1
  BY <1>1, AppendProperties
<1> QED
  BY <1>1, <1>2, BroadcasterAssumption DEF Deliver

LEMMA NextTypes ==
    ASSUME BroadcastTypeOK, [BroadcastNext]_broadcastVars
    PROVE  BroadcastTypeOK'
<1> USE BroadcasterAssumption DEF queues, clients, Move
<1>1. CASE Send
  <2>1. sends' \in Events /\ Len(eventCh) \in Nat
    BY <1>1 DEF Send, BroadcastTypeOK, Events
  <2>2. eventCh' \in Seq(Events) /\ Len(eventCh') <= BufferSize
    <3>1. /\ Append(eventCh, sends') \in Seq(Events)
          /\ Len(Append(eventCh, sends')) = Len(eventCh) + 1
      BY <2>1, AppendProperties DEF BroadcastTypeOK
    <3> QED
      BY <1>1, <2>1, <3>1 DEF Send, BroadcastTypeOK
  <2> QED
    BY <1>1, <2>1, <2>2 DEF Send, BroadcastTypeOK
<1>2. ASSUME NEW h \in Sockets, Subscribe(h) \/ TakeClosed(h) \/ Unsubscribe(h)
      PROVE  BroadcastTypeOK'
  BY <1>2 DEF Subscribe, TakeClosed, Unsubscribe, BroadcastTypeOK
<1>3. ASSUME NEW h \in Sockets, Take(h) PROVE BroadcastTypeOK'
  <2>1. /\ ch[h] \in Seq(Events) /\ ch[h] # <<>>
        /\ Len(ch[h]) \in Nat /\ Len(ch[h]) <= ClientBuffer
    BY <1>3 DEF Take, BroadcastTypeOK
  <2>2. /\ Tail(ch[h]) \in Seq(Events) /\ Len(Tail(ch[h])) <= ClientBuffer
        /\ Head(ch[h]) \in Events
    BY <2>1, HeadTailProperties
  <2>3. ch' = [ch EXCEPT ![h] = Tail(ch[h])] /\ last' = [last EXCEPT ![h] = Head(ch[h])]
    BY <1>3 DEF Take
  <2>4. ch' \in [Sockets -> Seq(Events)] /\ last' \in [Sockets -> 0 .. MaxEvents]
    <3>1. Head(ch[h]) \in 0 .. MaxEvents
      BY <2>2 DEF Events
    <3> QED
      BY <2>2, <2>3, <3>1 DEF BroadcastTypeOK
  <2>5. \A g \in Sockets : Len(ch'[g]) <= ClientBuffer
    BY <2>2, <2>3 DEF BroadcastTypeOK
  <2>6. pc' \in [Sockets -> {"connecting", "reading", "leaving", "gone"}]
    BY <1>3 DEF Take, BroadcastTypeOK
  <2> QED
    BY <1>3, <2>4, <2>5, <2>6 DEF Take, BroadcastTypeOK
<1>4. ASSUME NEW h \in Sockets, RunSubscribe(h) \/ RunUnsubscribe(h) PROVE BroadcastTypeOK'
  BY <1>4 DEF RunSubscribe, RunUnsubscribe, Drop, BroadcastTypeOK
<1>5. CASE RunEvent
  <2>1. /\ Head(eventCh) \in Events
        /\ Tail(eventCh) \in Seq(Events)
        /\ Len(Tail(eventCh)) <= BufferSize
    <3>1. eventCh # <<>> /\ eventCh \in Seq(Events)
          /\ Len(eventCh) \in Nat /\ Len(eventCh) <= BufferSize
      BY <1>5 DEF RunEvent, Ready, BroadcastTypeOK
    <3> QED
      BY <3>1, HeadTailProperties
  <2>2. \A h \in Sockets :
           ch'[h] \in Seq(Events) /\ Len(ch'[h]) <= ClientBuffer
    BY <1>5, <2>1, DeliverTypes DEF RunEvent, BroadcastTypeOK
  <2>3. ch' = [h \in Sockets |-> ch'[h]]
    BY <1>5 DEF RunEvent
  <2>4. ch' \in [Sockets -> Seq(Events)]
    BY <2>2, <2>3
  <2> QED
    BY <1>5, <2>1, <2>2, <2>4 DEF RunEvent, BroadcastTypeOK
<1>6. CASE RunStop
  BY <1>6 DEF RunStop, BroadcastTypeOK
<1>7. CASE UNCHANGED broadcastVars
  BY <1>7 DEF broadcastVars, BroadcastTypeOK
<1> QED
  BY <1>1, <1>2, <1>3, <1>4, <1>5, <1>6, <1>7 DEF BroadcastNext, Run, Handle

-----------------------------------------------------------------------------
(* No panic *)

LEMMA NextRegistrations ==
    ASSUME BroadcastTypeOK, NoPanic, Registrations, [BroadcastNext]_broadcastVars
    PROVE  NoPanic' /\ Registrations'
<1> USE DEF NoPanic, queues, clients, Move
<1>1. CASE Send \/ UNCHANGED broadcastVars
  BY <1>1 DEF Send, broadcastVars, Registrations, Registration
<1>2. CASE ~running
  BY <1>2 DEF BroadcastNext, Run, Handle, Send, Subscribe, Take, TakeClosed, Unsubscribe,
              RunSubscribe, RunUnsubscribe, RunEvent, RunStop, broadcastVars, Registrations
<1>3. ASSUME NEW h \in Sockets, running,
             Subscribe(h) \/ TakeClosed(h) \/ Unsubscribe(h) \/ Take(h)
      PROVE  NoPanic' /\ Registrations'
  <2>0. Registration(h) /\ running'
    BY <1>3 DEF Registrations, Subscribe, TakeClosed, Unsubscribe, Take
  <2>1. NoPanic'
    BY <1>3 DEF Subscribe, TakeClosed, Unsubscribe, Take
  <2>2. Registration(h)'
    BY <1>3, <2>0
    DEF Subscribe, TakeClosed, Unsubscribe, Take, Ends, Registration, BroadcastTypeOK
  <2>3. ASSUME NEW g \in Sockets, g # h PROVE Registration(g)'
    <3>1. Registration(g)
      BY <1>3 DEF Registrations
    <3> QED
      BY <1>3, <2>3, <3>1
      DEF Subscribe, TakeClosed, Unsubscribe, Take, Registration, BroadcastTypeOK
  <2> QED
    BY <2>1, <2>2, <2>3 DEF Registrations
<1>4. ASSUME NEW h \in Sockets, running, RunSubscribe(h) \/ RunUnsubscribe(h)
      PROVE  NoPanic' /\ Registrations'
  <2>0. Registration(h)
    BY <1>4 DEF Registrations
  <2>1. NoPanic'
    BY <1>4, <2>0 DEF RunSubscribe, RunUnsubscribe, Registration
  <2>2. ASSUME NEW g \in Sockets PROVE Registration(g)'
    <3>1. Registration(g)
      BY <1>4 DEF Registrations
    <3> QED
      BY <1>4, <2>0, <3>1 DEF RunSubscribe, RunUnsubscribe, Drop, Registration
  <2> QED
    BY <2>1, <2>2 DEF Registrations
<1>5. ASSUME running, RunEvent PROVE NoPanic' /\ Registrations'
  <2>1. subs \cap closed = {}
    BY <1>5 DEF Registrations, Registration, BroadcastTypeOK
  <2>2. NoPanic'
    BY <1>5, <2>1 DEF RunEvent
  <2>3. ASSUME NEW h \in Sockets PROVE Registration(h)'
    <3>1. Registration(h)
      BY <1>5 DEF Registrations
    <3>2. h \notin subs => ch'[h] = ch[h]
      BY <1>5 DEF RunEvent
    <3> QED
      BY <1>5, <3>1, <3>2 DEF RunEvent, Registration
  <2> QED
    BY <2>2, <2>3 DEF Registrations
<1>6. ASSUME running, RunStop PROVE NoPanic' /\ Registrations'
  BY <1>6 DEF RunStop, Registrations, Registration, BroadcastTypeOK
<1> QED
  BY <1>1, <1>2, <1>3, <1>4, <1>5, <1>6, BroadcasterAssumption DEF BroadcastNext, Run, Handle, BroadcastTypeOK

-----------------------------------------------------------------------------
(* Order *)

\* Receiving takes the oldest event off a sorted sequence of newer ones.
LEMMA TailOrder ==
    ASSUME NEW q \in Seq(Events), q # <<>>, Sorted(q)
    PROVE  /\ Head(q) = q[1] /\ 1 \in 1 .. Len(q)
           /\ Sorted(Tail(q))
           /\ \A k \in 1 .. Len(Tail(q)) :
                 /\ Tail(q)[k] = q[k + 1] /\ k + 1 \in 1 .. Len(q)
                 /\ Head(q) < Tail(q)[k]
<1>1. Len(q) \in Nat \ {0} /\ Head(q) = q[1]
  BY EmptySeq
<1>2. /\ Len(Tail(q)) = Len(q) - 1
      /\ \A k \in 1 .. Len(Tail(q)) : Tail(q)[k] = q[k + 1]
  BY HeadTailProperties
<1> QED
  BY <1>1, <1>2 DEF Sorted

\* Adding an event newer than everything in a sorted sequence.
LEMMA AppendOrder ==
    ASSUME NEW q \in Seq(Events), NEW e \in Events, Sorted(q),
           \A k \in 1 .. Len(q) : q[k] < e
    PROVE  /\ Sorted(Append(q, e))
           /\ \A k \in 1 .. Len(Append(q, e)) :
                 \/ k \in 1 .. Len(q) /\ Append(q, e)[k] = q[k]
                 \/ Append(q, e)[k] = e
<1>1. /\ Len(q) \in Nat
      /\ Len(Append(q, e)) = Len(q) + 1
      /\ \A k \in 1 .. Len(q) : Append(q, e)[k] = q[k]
      /\ Append(q, e)[Len(q) + 1] = e
  BY AppendProperties, LenProperties
<1> QED
  BY <1>1 DEF Sorted

LEMMA NextOrder ==
    ASSUME BroadcastTypeOK, OrderInv, [BroadcastNext]_broadcastVars
    PROVE  OrderInv'
<1> USE BroadcasterAssumption DEF queues, clients
<1>0. /\ eventCh \in Seq(Events) /\ sends \in Nat
      /\ \A h \in Sockets : ch[h] \in Seq(Events) /\ last[h] \in Nat
      /\ \A k \in 1 .. Len(eventCh) : eventCh[k] \in Events
      /\ \A h \in Sockets : \A k \in 1 .. Len(ch[h]) : ch[h][k] \in Events
  BY ElementOfSeq DEF BroadcastTypeOK, Events
<1>1. CASE UNCHANGED <<eventCh, ch, last, sends>>
  BY <1>1 DEF OrderInv, Ordered, Sorted
<1>2. CASE Send /\ eventCh' = Append(eventCh, sends')
  <2>1. /\ sends' = sends + 1 /\ sends' \in Events
        /\ UNCHANGED <<ch, last>>
    BY <1>0, <1>2 DEF Send, Events
  <2>2. /\ Sorted(eventCh')
        /\ \A k \in 1 .. Len(eventCh') :
              \/ k \in 1 .. Len(eventCh) /\ eventCh'[k] = eventCh[k]
              \/ eventCh'[k] = sends'
    <3>1. Sorted(eventCh) /\ \A k \in 1 .. Len(eventCh) : eventCh[k] < sends'
      BY <1>0, <2>1 DEF OrderInv, Events
    <3> QED
      BY <1>0, <1>2, <2>1, <3>1, AppendOrder
  <2>3. ASSUME NEW h \in Sockets PROVE Ordered(h)'
    <3>1. Ordered(h)
      BY DEF OrderInv
    <3>2. \A k \in 1 .. Len(eventCh') : last'[h] < eventCh'[k]
      BY <1>0, <2>1, <2>2, <3>1 DEF Ordered
    <3>3. \A j \in 1 .. Len(ch[h]) : last[h] < ch[h][j] /\ ch[h][j] < sends'
      <4>1. \A j \in 1 .. Len(ch[h]) : ch[h][j] \in Nat
        BY <1>0 DEF Events
      <4> QED
        BY <1>0, <2>1, <3>1, <4>1 DEF Ordered
    <3>4. \A j \in 1 .. Len(ch[h]), k \in 1 .. Len(eventCh') : ch[h][j] < eventCh'[k]
      BY <2>2, <3>1, <3>3 DEF Ordered
    <3>5. \A j \in 1 .. Len(ch[h]) : ch[h][j] <= sends'
      BY <1>0, <2>1, <3>3 DEF Events
    <3>6. last[h] <= sends'
      BY <1>0, <2>1, <3>1 DEF Ordered
    <3> QED
      BY <2>1, <3>1, <3>2, <3>3, <3>4, <3>5, <3>6 DEF Ordered
  <2>4. \A k \in 1 .. Len(eventCh') : eventCh'[k] <= sends'
    <3>1. \A k \in 1 .. Len(eventCh) : eventCh[k] \in Nat /\ eventCh[k] <= sends
      BY <1>0 DEF OrderInv, Events
    <3>2. sends' \in Nat /\ sends < sends'
      BY <1>0, <2>1
    <3>3. \A k \in 1 .. Len(eventCh) : eventCh[k] <= sends'
      BY <1>0, <3>1, <3>2
    <3> QED
      BY <2>2, <3>2, <3>3
  <2> QED
    BY <2>2, <2>3, <2>4 DEF OrderInv
<1>3. CASE Send /\ eventCh' = eventCh
  <2>1. sends' = sends + 1 /\ UNCHANGED <<ch, last, eventCh>>
    BY <1>3 DEF Send
  <2>2. sends' \in Nat /\ sends <= sends'
    BY <1>0, <2>1
  <2>3. \A k \in 1 .. Len(eventCh) : eventCh[k] \in Nat
    BY <1>0 DEF Events
  <2>4. Sorted(eventCh') /\ \A k \in 1 .. Len(eventCh') : eventCh'[k] <= sends'
    BY <1>0, <2>1, <2>2, <2>3 DEF OrderInv
  <2>5. ASSUME NEW h \in Sockets PROVE Ordered(h)'
    <3>1. Ordered(h)
      BY DEF OrderInv
    <3>2. last[h] <= sends'
      BY <1>0, <2>2, <3>1 DEF Ordered
    <3>3. \A j \in 1 .. Len(ch[h]) : ch[h][j] \in Nat
      BY <1>0 DEF Events
    <3>4. \A j \in 1 .. Len(ch[h]) : ch[h][j] <= sends'
      BY <1>0, <2>2, <3>1, <3>3 DEF Ordered
    <3> QED
      BY <2>1, <3>1, <3>2, <3>4 DEF Ordered
  <2> QED
    BY <2>4, <2>5 DEF OrderInv
<1>4. ASSUME NEW h \in Sockets, Take(h) PROVE OrderInv'
  <2>1. /\ ch' = [ch EXCEPT ![h] = Tail(ch[h])]
        /\ last' = [last EXCEPT ![h] = Head(ch[h])]
        /\ UNCHANGED <<eventCh, sends>> /\ ch[h] # <<>>
    BY <1>4 DEF Take
  <2>2. /\ ch'[h] = Tail(ch[h]) /\ last'[h] = Head(ch[h])
        /\ \A g \in Sockets \ {h} : ch'[g] = ch[g] /\ last'[g] = last[g]
    BY <2>1 DEF BroadcastTypeOK
  <2>3. Ordered(h)
    BY DEF OrderInv
  <2>4. Ordered(h)'
    <3>1. /\ Head(ch[h]) = ch[h][1] /\ 1 \in 1 .. Len(ch[h])
          /\ Sorted(Tail(ch[h]))
          /\ \A k \in 1 .. Len(Tail(ch[h])) :
                /\ Tail(ch[h])[k] = ch[h][k + 1] /\ k + 1 \in 1 .. Len(ch[h])
                /\ Head(ch[h]) < Tail(ch[h])[k]
      BY <1>0, <2>1, <2>3, TailOrder DEF Ordered
    <3>2. last'[h] <= sends' /\ Sorted(ch'[h])
      BY <2>1, <2>2, <2>3, <3>1 DEF Ordered
    <3>3. ASSUME NEW j \in 1 .. Len(ch'[h])
          PROVE  last'[h] < ch'[h][j] /\ ch'[h][j] <= sends'
      <4>1. ch'[h][j] = ch[h][j + 1] /\ j + 1 \in 1 .. Len(ch[h]) /\ last'[h] < ch'[h][j]
        BY <2>2, <3>1
      <4>2. ch[h][j + 1] <= sends
        BY <2>3, <4>1 DEF Ordered
      <4> QED
        BY <2>1, <4>1, <4>2
    <3>4. \A k \in 1 .. Len(eventCh') : last'[h] < eventCh'[k]
      BY <2>1, <2>2, <2>3, <3>1 DEF Ordered
    <3>5. \A j \in 1 .. Len(ch'[h]), k \in 1 .. Len(eventCh') : ch'[h][j] < eventCh'[k]
      BY <2>1, <2>2, <2>3, <3>1 DEF Ordered
    <3> QED
      BY <3>2, <3>3, <3>4, <3>5 DEF Ordered
  <2>5. \A g \in Sockets \ {h} : Ordered(g)'
    BY <2>1, <2>2 DEF OrderInv, Ordered, Sorted
  <2> QED
    BY <2>1, <2>4, <2>5 DEF OrderInv, Sorted
<1>5. CASE RunEvent
  <2>1. /\ eventCh # <<>> /\ eventCh' = Tail(eventCh) /\ UNCHANGED <<last, sends>>
    BY <1>5 DEF RunEvent, Ready
  <2>2. /\ Head(eventCh) = eventCh[1] /\ 1 \in 1 .. Len(eventCh)
        /\ Sorted(eventCh')
        /\ \A k \in 1 .. Len(eventCh') :
              /\ eventCh'[k] = eventCh[k + 1] /\ k + 1 \in 1 .. Len(eventCh)
              /\ Head(eventCh) < eventCh'[k]
    BY <1>0, <2>1, TailOrder DEF OrderInv
  <2>3. ASSUME NEW h \in Sockets PROVE Ordered(h)'
    <3>1. Ordered(h)
      BY DEF OrderInv
    <3>2. \/ ch'[h] = ch[h]
          \/ ch'[h] = Append(ch[h], Head(eventCh))
      BY <1>5 DEF RunEvent, Deliver
    <3>3. CASE ch'[h] = ch[h]
      BY <1>0, <2>1, <2>2, <3>1, <3>3 DEF Ordered
    <3>4. CASE ch'[h] = Append(ch[h], Head(eventCh))
      <4>1. /\ Sorted(ch'[h])
            /\ \A k \in 1 .. Len(ch'[h]) :
                  \/ k \in 1 .. Len(ch[h]) /\ ch'[h][k] = ch[h][k]
                  \/ ch'[h][k] = Head(eventCh)
        <5>1. /\ Head(eventCh) \in Events
              /\ \A k \in 1 .. Len(ch[h]) : ch[h][k] < Head(eventCh)
          BY <1>0, <2>2, <3>1 DEF Ordered
        <5>2. ch[h] \in Seq(Events) /\ Sorted(ch[h])
          BY <1>0, <3>1 DEF Ordered
        <5>3. /\ Sorted(Append(ch[h], Head(eventCh)))
              /\ \A k \in 1 .. Len(Append(ch[h], Head(eventCh))) :
                    \/ /\ k \in 1 .. Len(ch[h])
                       /\ Append(ch[h], Head(eventCh))[k] = ch[h][k]
                    \/ Append(ch[h], Head(eventCh))[k] = Head(eventCh)
          BY <5>1, <5>2, AppendOrder
        <5> QED
          BY <3>4, <5>3
      <4>2. last[h] < Head(eventCh) /\ Head(eventCh) <= sends
        BY <2>2, <3>1 DEF Ordered, OrderInv
      <4>3. \A j \in 1 .. Len(ch'[h]) : last'[h] < ch'[h][j] /\ ch'[h][j] <= sends'
        BY <2>1, <3>1, <4>1, <4>2 DEF Ordered
      <4>4. \A k \in 1 .. Len(eventCh') : last'[h] < eventCh'[k]
        BY <2>1, <2>2, <3>1 DEF Ordered
      <4>5. \A j \in 1 .. Len(ch'[h]), k \in 1 .. Len(eventCh') : ch'[h][j] < eventCh'[k]
        BY <2>2, <3>1, <4>1 DEF Ordered
      <4> QED
        BY <2>1, <3>1, <4>1, <4>3, <4>4, <4>5 DEF Ordered
    <3> QED
      BY <3>2, <3>3, <3>4
  <2>4. \A k \in 1 .. Len(eventCh') : eventCh'[k] <= sends'
    BY <2>1, <2>2 DEF OrderInv
  <2> QED
    BY <2>2, <2>3, <2>4 DEF OrderInv
<1> QED
  BY <1>1, <1>2, <1>3, <1>4, <1>5
  DEF BroadcastNext, Run, Handle, Send, Subscribe, TakeClosed, Unsubscribe, RunSubscribe,
      RunUnsubscribe, RunStop, broadcastVars

-----------------------------------------------------------------------------
(* Theorems *)

LEMMA NextIInv == IInv /\ [BroadcastNext]_broadcastVars => IInv'
  BY NextTypes, NextRegistrations, NextOrder DEF IInv

\* Type correctness of the broadcaster.
THEOREM BroadcasterTypeCorrect == BroadcastSpec => []BroadcastTypeOK
<1>1. IInv => BroadcastTypeOK
  BY DEF IInv
<1> QED
  BY InitIInv, NextIInv, <1>1, PTL DEF BroadcastSpec

\* Run never sends on a closed channel and never closes one twice, for any
\* number of clients that come and go.
THEOREM BroadcasterNeverPanics == BroadcastSpec => []NoPanic
<1>1. IInv => NoPanic
  BY DEF IInv
<1> QED
  BY InitIInv, NextIInv, <1>1, PTL DEF BroadcastSpec

\* A client sees events in the order they were sent, each at most once.
THEOREM BroadcasterInOrder == BroadcastSpec => InOrder
<1>1. IInv /\ [BroadcastNext]_broadcastVars
         => [\A h \in Sockets : last'[h] # last[h] => last'[h] > last[h]]_broadcastVars
  <2> SUFFICES ASSUME IInv, BroadcastNext,
                      NEW h \in Sockets, last'[h] # last[h]
               PROVE  last'[h] > last[h]
    BY DEF broadcastVars
  <2>1. PICK g \in Sockets : Take(g)
    BY DEF BroadcastNext, Run, Handle, Send, Subscribe, TakeClosed, Unsubscribe, RunSubscribe,
           RunUnsubscribe, RunEvent, RunStop, clients
  <2>2. /\ last \in [Sockets -> 0 .. MaxEvents]
        /\ ch[h] \in Seq(Events)
        /\ Ordered(h)
    BY DEF IInv, BroadcastTypeOK, OrderInv, Events
  <2>3. g = h /\ last'[h] = Head(ch[h]) /\ ch[h] # <<>>
    BY <2>1, <2>2 DEF Take
  <2>4. Head(ch[h]) = ch[h][1] /\ 1 \in 1 .. Len(ch[h]) /\ ch[h][1] \in Events
    BY <2>2, <2>3, EmptySeq, ElementOfSeq
  <2> QED
    BY <2>2, <2>3, <2>4, BroadcasterAssumption DEF Ordered, Events
<1> QED
  BY InitIInv, NextIInv, <1>1, PTL DEF BroadcastSpec, InOrder

-----------------------------------------------------------------------------
(* From a node to the orchestrator *)

\* The types, one variable at a time; no publication is owed that was not asked
\* for.
StreamTypes ==
    /\ truth \in [Ids -> States \cup {None}] /\ listed \in [Ids -> States \cup {None}]
    /\ cache \in [Ids -> States \cup {None}] /\ view \in [Ids -> States \cup {None}]
    /\ owed \in [Owings -> Nat] /\ \A o \in Owings : owed[o] <= changes
    /\ poll \in {"idle", "compare", "publish"}
    /\ tasks \subseteq Ids
    /\ queue \in Seq(StreamEvents) /\ wire \in Seq(StreamEvents)
    /\ down \in Seq(StreamEvents) /\ past \in Seq(Seq(StreamEvents))
    /\ Len(queue) <= QueueSize
    /\ stream \in {"up", "broken", "down"}
    /\ registered \in BOOLEAN
    /\ sub \in {"seed", "subscribe", "receive"}
    /\ changes \in 0 .. MaxChanges
    /\ breaks \in 0 .. MaxBreaks /\ restarts \in 0 .. MaxRestarts
    /\ inStep \in BOOLEAN

LEMMA StreamTypesSay == StreamTypes => StreamTypeOK
<1>1. ASSUME StreamTypes PROVE owed \in [Owings -> 0 .. MaxChanges]
  <2>1. \A o \in Owings : owed[o] \in Nat /\ owed[o] <= changes /\ changes <= MaxChanges
    BY <1>1, StreamAssumption DEF StreamTypes
  <2>2. \A o \in Owings : owed[o] \in 0 .. MaxChanges
    BY <1>1, <2>1, StreamAssumption DEF StreamTypes
  <2> QED
    BY <1>1, <2>2 DEF StreamTypes
<1> QED
  BY <1>1 DEF StreamTypes, StreamTypeOK

\* An empty queue, and none at all.
LEMMA Empty ==
    /\ <<>> \in Seq(StreamEvents) /\ Len(<<>>) = 0 /\ 0 <= QueueSize
    /\ <<>> \in Seq(Seq(StreamEvents))
    /\ Nothing \in [Ids -> States \cup {None}]
BY EmptySeq, StreamAssumption DEF Nothing

LEMMA StreamTypesInit == StreamInit => StreamTypes
<1> SUFFICES ASSUME StreamInit PROVE StreamTypes
  OBVIOUS
<1>1. owed \in [Owings -> Nat] /\ \A o \in Owings : owed[o] <= changes
  BY StreamAssumption DEF StreamInit
<1>2. queue = <<>> /\ wire = <<>> /\ down = <<>> /\ past = <<>>
  BY DEF StreamInit
<1>3. changes \in 0 .. MaxChanges /\ breaks \in 0 .. MaxBreaks /\ restarts \in 0 .. MaxRestarts
  BY StreamAssumption DEF StreamInit
<1> QED
  BY <1>1, <1>2, <1>3, Empty DEF StreamInit, StreamTypes

\* Every event is about an instance.
LEMMA AnEvent ==
    ASSUME NEW i \in Ids, NEW s \in States \cup {None}
    PROVE  [id |-> i, state |-> s] \in StreamEvents
BY DEF StreamEvents

\* What is published leaves the other streams alone.
LEMMA TellTypes ==
    ASSUME StreamTypes, NEW i \in Ids, NEW s \in States \cup {None}, Tell(i, s)
    PROVE  /\ cache' = [cache EXCEPT ![i] = s]
           /\ cache' \in [Ids -> States \cup {None}]
           /\ queue' \in Seq(StreamEvents) /\ Len(queue') <= QueueSize
<1> DEFINE e == [id |-> i, state |-> s]
<1>1. e \in StreamEvents
  BY AnEvent
<1>2. cache' = [cache EXCEPT ![i] = s] /\ (queue' = queue \/ (Room /\ queue' = Append(queue, e)))
  BY DEF Tell, VMRemoved, VMUpdated, PublishEvent, Enqueue
<1> HIDE DEF e
<1>3. Len(queue) \in Nat
  BY LenProperties DEF StreamTypes
<1>4. queue' \in Seq(StreamEvents) /\ Len(queue') <= QueueSize
  <2>1. queue \in Seq(StreamEvents) /\ Len(queue) <= QueueSize
    BY DEF StreamTypes
  <2>2. Append(queue, e) \in Seq(StreamEvents) /\ Len(Append(queue, e)) = Len(queue) + 1
    BY <1>1, <2>1, AppendProperties
  <2>3. QueueSize \in Nat
    BY StreamAssumption
  <2> QED
    BY <1>2, <1>3, <2>1, <2>2, <2>3 DEF Room
<1> QED
  BY <1>2, <1>4 DEF StreamTypes

\* Requests and what they owe.
LEMMA RequestTypes ==
    ASSUME StreamTypes, NEW i \in Ids, Request(i) PROVE StreamTypes'
<1>1. PICK s \in States \cup {None} : Changes(i, s)
  BY StreamAssumption DEF Request, Create, Remove, Evolve, StreamTypes
<1>2. /\ truth' = [truth EXCEPT ![i] = s]
      /\ changes' = changes + 1 /\ changes' \in 0 .. MaxChanges
      /\ UNCHANGED <<poll, listed, tasks, cache, queue, stream, wire, past, registered, down,
                     sub, view, breaks, restarts>>
      /\ inStep' \in BOOLEAN
  BY <1>1, StreamAssumption
  DEF Changes, Sound, poller, publisher, subscriber, faults, StreamTypes
<1>3. truth' \in [Ids -> States \cup {None}]
  BY <1>2 DEF StreamTypes
<1>4. PICK o \in Owings : owed' = [owed EXCEPT ![o] = owed[o] + 1] \/ owed' = owed
  <2>1. <<i, Stopped>> \in Owings /\ <<i, None>> \in Owings
    BY DEF Owings
  <2> QED
    BY <2>1 DEF Request, Create, Remove, Evolve, Owe
<1>5. owed' \in [Owings -> Nat] /\ \A p \in Owings : owed'[p] <= changes'
  <2>1. \A p \in Owings : owed[p] \in Nat /\ owed[p] <= changes /\ changes \in Nat
    BY StreamAssumption DEF StreamTypes
  <2>2. owed \in [Owings -> Nat] /\ owed[o] + 1 \in Nat
    BY <2>1 DEF StreamTypes
  <2>3. /\ owed' \in [Owings -> Nat]
        /\ \A p \in Owings : owed'[p] = owed[p] \/ owed'[p] = owed[p] + 1
    BY <1>4, <2>2
  <2> QED
    BY <1>2, <2>1, <2>3
<1> QED
  BY <1>2, <1>3, <1>5 DEF StreamTypes

LEMMA PublishOwedTypes ==
    ASSUME StreamTypes, NEW o \in Owings, PublishOwed(o[1], o[2]) PROVE StreamTypes'
<1>1. PICK i \in Ids, s \in States \cup {None} : o = <<i, s>> /\ PublishOwed(i, s)
  BY StreamAssumption DEF Owings
<1>2. /\ owed[o] > 0 /\ owed' = [owed EXCEPT ![o] = owed[o] - 1] /\ Tell(i, s)
      /\ UNCHANGED <<truth, changes, poll, listed, tasks, stream, wire, past, registered, down,
                     sub, view, breaks, restarts>>
      /\ inStep' \in BOOLEAN
  BY <1>1 DEF PublishOwed, Sound, Faulty, instances, poller, subscriber, faults, StreamTypes
<1>3. owed' \in [Owings -> Nat] /\ \A p \in Owings : owed'[p] <= changes
  <2>1. \A p \in Owings : owed[p] \in Nat /\ owed[p] <= changes /\ changes \in Nat
    BY StreamAssumption DEF StreamTypes
  <2>2. owed' \in [Owings -> Nat]
    BY <1>2, <2>1 DEF StreamTypes
  <2>3. \A p \in Owings : owed'[p] = owed[p] \/ owed'[p] = owed[p] - 1
    BY <1>2 DEF StreamTypes
  <2> QED
    BY <2>1, <2>2, <2>3
<1> QED
  BY <1>2, <1>3, TellTypes DEF StreamTypes

LEMMA PollTypes ==
    ASSUME StreamTypes, Poll PROVE StreamTypes'
<1>1. ASSUME NEW is, is \subseteq Ids, Publishing(is)
      PROVE  /\ tasks' \subseteq Ids /\ poll' \in {"idle", "compare", "publish"}
             /\ listed' \in [Ids -> States \cup {None}]
  BY <1>1, Empty DEF Publishing, StreamTypes
<1>2. CASE PollList
  BY <1>2 DEF PollList, Sound, instances, publisher, subscriber, faults, StreamTypes
<1>3. CASE PollCompare
  <2>1. /\ tasks' \subseteq Ids /\ poll' \in {"idle", "compare", "publish"}
        /\ listed' \in [Ids -> States \cup {None}]
    BY <1>1, <1>3 DEF PollCompare, ToPublish
  <2> QED
    BY <1>3, <2>1 DEF PollCompare, Sound, instances, publisher, subscriber, faults, StreamTypes
<1>4. ASSUME NEW i \in Ids, PollPublish(i) PROVE StreamTypes'
  <2>1. /\ tasks' \subseteq Ids /\ poll' \in {"idle", "compare", "publish"}
        /\ listed' \in [Ids -> States \cup {None}]
    <3>1. tasks \ {i} \subseteq Ids /\ Publishing(tasks \ {i})
      BY <1>4 DEF PollPublish, StreamTypes
    <3> QED
      BY <1>1, <3>1
  <2>2. Tell(i, listed[i]) /\ listed[i] \in States \cup {None}
    BY <1>4 DEF PollPublish, StreamTypes
  <2>3. /\ UNCHANGED <<truth, changes, owed, stream, wire, past, registered, down, sub, view,
                       breaks, restarts>>
        /\ inStep' \in BOOLEAN
    BY <1>4 DEF PollPublish, Sound, Faulty, instances, subscriber, faults, StreamTypes
  <2> QED
    BY <2>1, <2>2, <2>3, TellTypes DEF StreamTypes
<1> QED
  BY <1>2, <1>3, <1>4 DEF Poll

\* What is read from a queue, and what remains.
LEMMA QueueRead ==
    ASSUME NEW q \in Seq(StreamEvents), q # <<>>
    PROVE  /\ Head(q) \in StreamEvents /\ Tail(q) \in Seq(StreamEvents)
           /\ Len(Tail(q)) <= Len(q) /\ Len(q) \in Nat /\ Len(Tail(q)) \in Nat
           /\ q = <<Head(q)>> \o Tail(q)
<1> DEFINE h == <<Head(q)>>
           t == Tail(q)
<1>1. /\ Head(q) \in StreamEvents /\ t \in Seq(StreamEvents) /\ Len(t) = Len(q) - 1
      /\ \A i \in 1 .. Len(t) : t[i] = q[i + 1]
      /\ Len(q) \in Nat /\ Len(q) # 0 /\ Head(q) = q[1] /\ Len(t) \in Nat
  BY HeadTailProperties, EmptySeq, LenProperties
<1>2. h \in Seq(StreamEvents) /\ Len(h) = 1 /\ h[1] = q[1]
  BY <1>1
<1> HIDE DEF h, t
<1>3. /\ h \o t \in Seq(StreamEvents) /\ Len(h \o t) = Len(q)
      /\ \A i \in 1 .. Len(q) : (h \o t)[i] = IF i <= 1 THEN h[i] ELSE t[i - 1]
  <2>0. h \in Seq(StreamEvents) /\ t \in Seq(StreamEvents)
    BY <1>1, <1>2
  <2>1. /\ h \o t \in Seq(StreamEvents) /\ Len(h \o t) = Len(h) + Len(t)
        /\ \A i \in 1 .. Len(h) + Len(t) : (h \o t)[i] =
              IF i <= Len(h) THEN h[i] ELSE t[i - Len(h)]
    BY <2>0, ConcatProperties
  <2>2. Len(h) + Len(t) = Len(q)
    BY <1>1, <1>2
  <2> QED
    BY <1>2, <2>1, <2>2
<1>4. ASSUME NEW i \in 1 .. Len(q) PROVE (h \o t)[i] = q[i]
  <2>1. CASE i = 1
    BY <1>2, <1>3, <2>1
  <2>2. CASE i # 1
    <3>1. i - 1 \in 1 .. Len(t) /\ i - 1 + 1 = i /\ ~(i <= 1)
      BY <1>1, <2>2
    <3> QED
      BY <1>1, <1>3, <3>1
  <2> QED
    BY <2>1, <2>2
<1>5. q = h \o t
  BY <1>3, <1>4, SeqEqual
<1> QED
  BY <1>1, <1>5 DEF h, t

\* The goroutine and the event service.
LEMMA MoveTypes ==
    ASSUME StreamTypes, Reconnect \/ Forward \/ Broadcast \/ Register PROVE StreamTypes'
<1>1. CASE Reconnect \/ Register
  BY <1>1 DEF Reconnect, Register, Sound, instances, poller, publisher, subscriber, faults,
              StreamTypes
<1>2. CASE Forward
  <2>1. /\ Head(queue) \in StreamEvents /\ queue' \in Seq(StreamEvents)
        /\ Len(queue') <= QueueSize
    <3>1. queue # <<>> /\ queue' = Tail(queue) /\ queue \in Seq(StreamEvents)
      BY <1>2 DEF Forward, StreamTypes
    <3>2. Head(queue) \in StreamEvents /\ queue' \in Seq(StreamEvents)
      BY <3>1, QueueRead
    <3>3. Len(queue') <= Len(queue) /\ Len(queue) \in Nat /\ Len(queue') \in Nat
      BY <3>1, QueueRead
    <3>4. Len(queue) <= QueueSize
      BY DEF StreamTypes
    <3> QED
      BY <3>2, <3>3, <3>4, StreamAssumption
  <2>2. wire' \in Seq(StreamEvents) /\ stream' \in {"up", "broken", "down"}
    <3>1. Append(wire, Head(queue)) \in Seq(StreamEvents)
      BY <2>1, AppendProperties DEF StreamTypes
    <3> QED
      BY <1>2, <3>1 DEF Forward, StreamTypes
  <2> QED
    BY <1>2, <2>1, <2>2 DEF Forward, Sound, instances, poller, subscriber, faults, StreamTypes
<1>3. CASE Broadcast
  <2>1. ASSUME NEW e \in StreamEvents, ToSubscriber(e) PROVE down' \in Seq(StreamEvents)
    BY <2>1, AppendProperties DEF ToSubscriber, StreamTypes
  <2>2. /\ wire' \in Seq(StreamEvents) /\ past' \in Seq(Seq(StreamEvents))
        /\ down' \in Seq(StreamEvents)
    <3>1. CASE wire # <<>> /\ ToSubscriber(Head(wire)) /\ wire' = Tail(wire) /\ UNCHANGED past
      <4>1. Head(wire) \in StreamEvents /\ wire' \in Seq(StreamEvents)
        BY <3>1, QueueRead DEF StreamTypes
      <4> QED
        BY <2>1, <3>1, <4>1 DEF StreamTypes
    <3>2. ASSUME NEW k \in DOMAIN past, past[k] # <<>>, ToSubscriber(Head(past[k])),
                 past' = [past EXCEPT ![k] = Tail(past[k])], UNCHANGED wire
          PROVE  /\ wire' \in Seq(StreamEvents) /\ past' \in Seq(Seq(StreamEvents))
                 /\ down' \in Seq(StreamEvents)
      <4>1. k \in 1 .. Len(past) /\ past[k] \in Seq(StreamEvents)
        BY LenProperties, ElementOfSeq DEF StreamTypes
      <4>2. Head(past[k]) \in StreamEvents /\ Tail(past[k]) \in Seq(StreamEvents)
        BY <3>2, <4>1, QueueRead
      <4>3. past' \in Seq(Seq(StreamEvents))
        BY <3>2, <4>1, <4>2, ExceptSeq DEF StreamTypes
      <4> QED
        BY <2>1, <3>2, <4>2, <4>3 DEF StreamTypes
    <3> QED
      BY <1>3, <3>1, <3>2 DEF Broadcast
  <2> QED
    BY <1>3, <2>2 DEF Broadcast, Sound, instances, poller, faults, StreamTypes
<1> QED
  BY <1>1, <1>2, <1>3

LEMMA SubscriberTypes ==
    ASSUME StreamTypes, Subscriber PROVE StreamTypes'
<1>1. CASE Seed
  <2>1. view' \in [Ids -> States \cup {None}]
    BY <1>1 DEF Seed, StreamTypes
  <2> QED
    BY <1>1, <2>1 DEF Seed, Sound, instances, poller, publisher, faults, StreamTypes
<1>2. CASE SubscribeToNode
  BY <1>2 DEF SubscribeToNode, Sound, instances, poller, publisher, faults, StreamTypes
<1>3. CASE ReceiveEvent
  <2>1. Head(down) \in StreamEvents /\ down' \in Seq(StreamEvents)
    BY <1>3, QueueRead DEF ReceiveEvent, StreamTypes
  <2>2. view' \in [Ids -> States \cup {None}]
    BY <1>3, <2>1 DEF ReceiveEvent, Pass, StreamEvents, StreamTypes
  <2> QED
    BY <1>3, <2>1, <2>2
    DEF ReceiveEvent, Sound, instances, poller, publisher, faults, StreamTypes
<1> QED
  BY <1>1, <1>2, <1>3 DEF Subscriber

LEMMA FaultTypes ==
    ASSUME StreamTypes, Fault PROVE StreamTypes'
<1>1. ASSUME LeaveStream PROVE past' \in Seq(Seq(StreamEvents))
  <2>1. PICK k \in 0 .. Len(wire) : past' = Append(past, SubSeq(wire, 1, k))
    BY <1>1 DEF LeaveStream
  <2>2. wire \in Seq(StreamEvents) /\ Len(wire) \in Nat
    BY LenProperties DEF StreamTypes
  <2>3. \A j \in 1 .. k : wire[j] \in StreamEvents
    BY <2>2, ElementOfSeq
  <2>4. SubSeq(wire, 1, k) \in Seq(StreamEvents)
    BY <2>2, <2>3, SubSeqProperties
  <2> QED
    BY <2>1, <2>4, AppendProperties DEF StreamTypes
<1>2. breaks < MaxBreaks => breaks + 1 \in 0 .. MaxBreaks
  BY StreamAssumption DEF StreamTypes
<1>3. restarts < MaxRestarts => restarts + 1 \in 0 .. MaxRestarts
  BY StreamAssumption DEF StreamTypes
<1>4. CASE StreamBreaks
  BY <1>1, <1>2, <1>4, Empty
  DEF StreamBreaks, Faulty, instances, poller, subscriber, StreamTypes
<1>5. CASE LinkBreaks
  BY <1>2, <1>5, Empty DEF LinkBreaks, Faulty, instances, poller, publisher, StreamTypes
<1>6. CASE ControllerRestart
  <2>1. owed' \in [Owings -> Nat] /\ \A o \in Owings : owed'[o] <= changes
    BY <1>6, StreamAssumption DEF ControllerRestart, StreamTypes
  <2> QED
    BY <1>1, <1>3, <1>6, <2>1, Empty
    DEF ControllerRestart, Faulty, instances, subscriber, StreamTypes
<1> QED
  BY <1>4, <1>5, <1>6 DEF Fault

LEMMA StreamTypesNext == StreamTypes /\ [StreamNext]_streamVars => StreamTypes'
<1> SUFFICES ASSUME StreamTypes, [StreamNext]_streamVars PROVE StreamTypes'
  OBVIOUS
<1>1. CASE UNCHANGED streamVars
  BY <1>1 DEF streamVars, StreamTypes
<1> QED
  BY <1>1, RequestTypes, PublishOwedTypes, PollTypes, MoveTypes, SubscriberTypes, FaultTypes
  DEF StreamNext

\* The variables of the stream keep their types.
THEOREM StreamTypeCorrect == StreamSpec => []StreamTypeOK
BY StreamTypesInit, StreamTypesNext, StreamTypesSay, PTL DEF StreamSpec

-----------------------------------------------------------------------------
(* Nothing published is missed *)

\* In step, both streams are served, former ones have nothing left, and the
\* subscriber of a served stream reads it.
Connected ==
    /\ inStep => /\ registered /\ stream = "up"
                 /\ \A k \in DOMAIN past : past[k] = <<>>
    /\ registered => sub = "receive"

\* The inductive invariant.
StepInv == StreamTypes /\ Connected /\ NothingMissed

LEMMA UnreadFacts ==
    ASSUME StreamTypes
    PROVE  /\ Unread \in Seq(StreamEvents) /\ Len(Unread) \in Nat
           /\ DOMAIN Unread = 1 .. Len(Unread)
           /\ down \o wire \in Seq(StreamEvents)
<1>1. down \in Seq(StreamEvents) /\ wire \in Seq(StreamEvents) /\ queue \in Seq(StreamEvents)
  BY DEF StreamTypes
<1>2. down \o wire \in Seq(StreamEvents)
  BY <1>1, ConcatProperties
<1>3. Unread \in Seq(StreamEvents)
  BY <1>1, <1>2, ConcatProperties DEF Unread
<1> QED
  BY <1>2, <1>3, LenProperties

\* A single event is a queue.
LEMMA OneEvent == ASSUME NEW e \in StreamEvents PROVE <<e>> \in Seq(StreamEvents)
OBVIOUS

\* What the orchestrator will know stays when nothing is read, written or cached.
LEMMA KnownStays ==
    ASSUME NothingMissed, inStep, Unread' = Unread, UNCHANGED <<view, cache>>
    PROVE  NothingMissed'
BY DEF NothingMissed, WillKnow

\* Once everything has been read and the two pictures are the same, nothing is
\* missed.
LEMMA SyncedMissesNothing ==
    ASSUME Synced' PROVE NothingMissed'
<1>1. queue' = <<>> /\ wire' = <<>> /\ down' = <<>> /\ cache' = view'
  BY DEF Synced
<1>2. Unread' = (<<>> \o <<>>) \o <<>>
  BY <1>1 DEF Unread
<1>3. (<<>> \o <<>>) \o <<>> = <<>>
  BY Empty, ConcatEmptySeq
<1>4. DOMAIN Unread' = {}
  BY <1>2, <1>3
<1> QED
  BY <1>1, <1>4 DEF NothingMissed, WillKnow

\* What is published comes last, and says what the cache says from then on.
LEMMA TellMissesNothing ==
    ASSUME StepInv, inStep, NEW i \in Ids, NEW s \in States \cup {None}, Tell(i, s),
           ~Dropped(i, s), UNCHANGED <<wire, down, view>>
    PROVE  NothingMissed'
<1> DEFINE e == [id |-> i, state |-> s]
<1>0. /\ StreamTypes /\ \A j \in Ids : WillKnow(j, cache[j])
      /\ e \in StreamEvents /\ e.id = i /\ e.state = s
  BY AnEvent DEF StepInv, NothingMissed
<1>1. cache' = [cache EXCEPT ![i] = s] /\ cache \in [Ids -> States \cup {None}]
  BY <1>0, TellTypes DEF StreamTypes
<1>2. (UNCHANGED queue /\ cache[i] = s) \/ queue' = Append(queue, e)
  BY DEF Tell, Dropped, VMRemoved, VMUpdated, PublishEvent, Enqueue
<1>3. CASE UNCHANGED queue /\ cache[i] = s
  <2>1. cache' = cache
    BY <1>1, <1>3
  <2>2. Unread' = Unread
    BY <1>3 DEF Unread
  <2> QED
    BY <2>1, <2>2, KnownStays DEF StepInv
<1>4. CASE queue' = Append(queue, e)
  <2>1. Unread' = Append(Unread, e)
    <3>1. queue \in Seq(StreamEvents) /\ down \o wire \in Seq(StreamEvents)
          /\ <<e>> \in Seq(StreamEvents)
      BY <1>0, UnreadFacts, OneEvent DEF StreamTypes
    <3>2. queue' = queue \o <<e>>
      BY <1>0, <1>4, <3>1, AppendIsConcat
    <3>3. (down \o wire) \o (queue \o <<e>>) = ((down \o wire) \o queue) \o <<e>>
      BY <3>1, ConcatAssociative
    <3>4. Append(Unread, e) = Unread \o <<e>>
      BY <1>0, UnreadFacts, AppendIsConcat
    <3> QED
      BY <3>2, <3>3, <3>4 DEF Unread
  <2> DEFINE n == Len(Unread) + 1
  <2>2. /\ Len(Unread) \in Nat /\ DOMAIN Unread = 1 .. Len(Unread)
        /\ DOMAIN Unread' = DOMAIN Unread \cup {n}
        /\ \A k \in DOMAIN Unread : Unread'[k] = Unread[k] /\ k < n
        /\ Unread'[n] = e
    <3>1. /\ Unread \in Seq(StreamEvents) /\ Len(Unread) \in Nat
          /\ DOMAIN Unread = 1 .. Len(Unread)
      BY <1>0, UnreadFacts
    <3>2. /\ Append(Unread, e) \in Seq(StreamEvents) /\ Len(Append(Unread, e)) = Len(Unread) + 1
          /\ \A k \in 1 .. Len(Unread) : Append(Unread, e)[k] = Unread[k]
          /\ Append(Unread, e)[Len(Unread) + 1] = e
      BY <1>0, <3>1, AppendProperties
    <3>3. DOMAIN Append(Unread, e) = 1 .. Len(Unread) + 1
      BY <3>2, LenProperties
    <3> QED
      BY <2>1, <3>1, <3>2, <3>3
  <2> HIDE DEF e, n
  <2>3. n \in Int /\ \A k \in DOMAIN Unread' : ~(k > n)
    BY <2>2 DEF n
  <2>4. WillKnow(i, cache[i])'
    <3>1. cache'[i] = s
      BY <1>1
    <3>2. Unread'[n] = [id |-> i, state |-> s] /\ n \in DOMAIN Unread'
      BY <2>2 DEF e
    <3> QED
      BY <2>3, <3>1, <3>2 DEF WillKnow
  <2>5. ASSUME NEW j \in Ids, j # i PROVE WillKnow(j, cache[j])'
    <3>1. WillKnow(j, cache[j]) /\ cache'[j] = cache[j] /\ view' = view /\ Unread'[n].id # j
      BY <1>0, <1>1, <2>2, <2>5
    <3>2. CASE view[j] = cache[j] /\ \A k \in DOMAIN Unread : Unread[k].id # j
      <4>1. \A k \in DOMAIN Unread' : Unread'[k].id # j
        BY <2>2, <3>1, <3>2
      <4> QED
        BY <3>1, <3>2, <4>1 DEF WillKnow
    <3>3. ASSUME NEW k \in DOMAIN Unread, Unread[k] = [id |-> j, state |-> cache[j]],
                 \A l \in DOMAIN Unread : l > k => Unread[l].id # j
          PROVE  WillKnow(j, cache[j])'
      <4>1. k \in DOMAIN Unread' /\ Unread'[k] = [id |-> j, state |-> cache'[j]]
        BY <2>2, <3>1, <3>3
      <4>2. \A l \in DOMAIN Unread' : l > k => Unread'[l].id # j
        BY <2>2, <3>1, <3>3
      <4> QED
        BY <4>1, <4>2 DEF WillKnow
    <3> QED
      BY <3>1, <3>2, <3>3 DEF WillKnow
  <2> QED
    BY <2>4, <2>5 DEF NothingMissed
<1> QED
  BY <1>2, <1>3, <1>4

\* An event that moves on keeps its place.
LEMMA MoveMissesNothing ==
    ASSUME StepInv, inStep, Forward \/ Broadcast
    PROVE  NothingMissed' /\ UNCHANGED <<registered, stream, past>>
<1>0. /\ queue \in Seq(StreamEvents) /\ wire \in Seq(StreamEvents) /\ down \in Seq(StreamEvents)
      /\ down \o wire \in Seq(StreamEvents)
      /\ registered /\ stream = "up" /\ \A k \in DOMAIN past : past[k] = <<>>
  BY UnreadFacts DEF StepInv, StreamTypes, Connected
<1>1. CASE Forward
  <2> DEFINE h == Head(queue)
             t == Tail(queue)
  <2>1. /\ queue # <<>> /\ queue' = t /\ wire' = Append(wire, h)
        /\ UNCHANGED <<down, view, cache, registered, stream, past>>
    BY <1>0, <1>1 DEF Forward, subscriber
  <2>2. h \in StreamEvents /\ t \in Seq(StreamEvents) /\ queue = <<h>> \o t
        /\ <<h>> \in Seq(StreamEvents)
    BY <1>0, <2>1, QueueRead, OneEvent
  <2> HIDE DEF h, t
  <2>3. wire' = wire \o <<h>>
    BY <1>0, <2>1, <2>2, AppendIsConcat
  <2>4. down \o (wire \o <<h>>) = (down \o wire) \o <<h>>
    BY <1>0, <2>2, ConcatAssociative
  <2>5. ((down \o wire) \o <<h>>) \o t = (down \o wire) \o (<<h>> \o t)
    BY <1>0, <2>2, ConcatAssociative
  <2>6. Unread' = Unread
    BY <2>1, <2>2, <2>3, <2>4, <2>5 DEF Unread
  <2> QED
    BY <2>1, <2>6, KnownStays DEF StepInv
<1>2. CASE Broadcast
  <2> DEFINE h == Head(wire)
             t == Tail(wire)
  <2>1. /\ wire # <<>> /\ wire' = t /\ down' = Append(down, h)
        /\ UNCHANGED <<queue, view, cache, registered, stream, past>>
    BY <1>0, <1>2 DEF Broadcast, ToSubscriber
  <2>2. h \in StreamEvents /\ t \in Seq(StreamEvents) /\ wire = <<h>> \o t
        /\ <<h>> \in Seq(StreamEvents)
    BY <1>0, <2>1, QueueRead, OneEvent
  <2> HIDE DEF h, t
  <2>3. down' = down \o <<h>>
    BY <1>0, <2>1, <2>2, AppendIsConcat
  <2>4. (down \o <<h>>) \o t = down \o (<<h>> \o t)
    BY <1>0, <2>2, ConcatAssociative
  <2>5. Unread' = Unread
    BY <2>1, <2>2, <2>3, <2>4 DEF Unread
  <2> QED
    BY <2>1, <2>5, KnownStays DEF StepInv
<1> QED
  BY <1>1, <1>2

\* The event that is read is the first: either it is the only one of its
\* instance, and the orchestrator knows now, or a later one decides.
LEMMA ReadMissesNothing ==
    ASSUME StepInv, inStep, ReceiveEvent
    PROVE  NothingMissed'
<1> DEFINE h == Head(down)
           t == Tail(down)
<1>0. /\ queue \in Seq(StreamEvents) /\ wire \in Seq(StreamEvents) /\ down \in Seq(StreamEvents)
      /\ \A j \in Ids : WillKnow(j, cache[j])
      /\ Unread \in Seq(StreamEvents) /\ Len(Unread) \in Nat
      /\ DOMAIN Unread = 1 .. Len(Unread)
  BY UnreadFacts DEF StepInv, StreamTypes, NothingMissed
<1>1. /\ down # <<>> /\ down' = t /\ view' = [view EXCEPT ![h.id] = h.state]
      /\ UNCHANGED <<queue, wire, cache>>
  BY DEF ReceiveEvent, Pass, publisher
<1>2. h \in StreamEvents /\ t \in Seq(StreamEvents) /\ down = <<h>> \o t
      /\ <<h>> \in Seq(StreamEvents)
  BY <1>0, <1>1, QueueRead, OneEvent
<1> HIDE DEF h, t
<1>3. t \o wire \in Seq(StreamEvents)
  BY <1>0, <1>2, ConcatProperties
<1>4. (<<h>> \o t) \o wire = <<h>> \o (t \o wire)
  BY <1>0, <1>2, ConcatAssociative
<1>5. (<<h>> \o (t \o wire)) \o queue = <<h>> \o ((t \o wire) \o queue)
  BY <1>0, <1>2, <1>3, ConcatAssociative
<1>6. (t \o wire) \o queue \in Seq(StreamEvents)
  BY <1>0, <1>3, ConcatProperties
<1>7. Unread' \in Seq(StreamEvents) /\ Unread = <<h>> \o Unread'
  BY <1>1, <1>2, <1>4, <1>5, <1>6 DEF Unread
<1>8. /\ Len(Unread') \in Nat /\ DOMAIN Unread' = 1 .. Len(Unread')
      /\ Len(Unread) = 1 + Len(Unread')
      /\ Unread[1] = h
      /\ \A k \in DOMAIN Unread : k # 1 => Unread[k] = Unread'[k - 1]
  <2> DEFINE U == Unread'
  <2>1. U \in Seq(StreamEvents) /\ Unread = <<h>> \o U
    BY <1>7
  <2> HIDE DEF U
  <2>2. Len(<<h>>) = 1 /\ <<h>>[1] = h /\ Len(U) \in Nat /\ DOMAIN U = 1 .. Len(U)
    BY <2>1, LenProperties
  <2>3. /\ Len(<<h>> \o U) = Len(<<h>>) + Len(U)
        /\ \A k \in 1 .. Len(<<h>>) + Len(U) : (<<h>> \o U)[k] =
              IF k <= Len(<<h>>) THEN <<h>>[k] ELSE U[k - Len(<<h>>)]
    BY <1>2, <2>1, ConcatProperties
  <2>4. /\ Len(Unread) = 1 + Len(U) /\ Unread[1] = h
        /\ \A k \in 1 .. 1 + Len(U) : k # 1 => Unread[k] = U[k - 1]
    BY <2>1, <2>2, <2>3
  <2> QED
    BY <1>0, <2>2, <2>4 DEF U
<1>9. \A k \in DOMAIN Unread' : k + 1 \in DOMAIN Unread /\ Unread[k + 1] = Unread'[k]
  <2>1. ASSUME NEW k \in DOMAIN Unread'
        PROVE  k + 1 \in DOMAIN Unread /\ k + 1 # 1 /\ (k + 1) - 1 = k
    BY <1>0, <1>8
  <2> QED
    BY <1>8, <2>1
<1>10. h.id \in Ids /\ view \in [Ids -> States \cup {None}]
  BY <1>2 DEF StreamEvents, StepInv, StreamTypes
<1>11. ASSUME NEW j \in Ids PROVE WillKnow(j, cache[j])'
  <2>1. CASE view[j] = cache[j] /\ \A k \in DOMAIN Unread : Unread[k].id # j
    <3>1. 1 \in DOMAIN Unread /\ h.id # j
      BY <1>0, <1>8, <2>1
    <3>2. view'[j] = cache'[j]
      BY <1>1, <1>10, <2>1, <3>1
    <3>3. \A k \in DOMAIN Unread' : Unread'[k].id # j
      BY <1>9, <2>1
    <3> QED
      BY <3>2, <3>3 DEF WillKnow
  <2>2. ASSUME NEW k \in DOMAIN Unread, Unread[k] = [id |-> j, state |-> cache[j]],
               \A l \in DOMAIN Unread : l > k => Unread[l].id # j
        PROVE  WillKnow(j, cache[j])'
    <3>1. ASSUME NEW l \in DOMAIN Unread', l + 1 > k PROVE Unread'[l].id # j
      BY <1>9, <2>2, <3>1
    <3>2. CASE k = 1
      <4>1. view'[j] = cache'[j]
        BY <1>1, <1>8, <1>10, <2>2, <3>2
      <4>2. \A l \in DOMAIN Unread' : l + 1 > k
        BY <1>8, <3>2
      <4> QED
        BY <3>1, <4>1, <4>2 DEF WillKnow
    <3>3. CASE k # 1
      <4>1. k - 1 \in DOMAIN Unread' /\ Unread'[k - 1] = [id |-> j, state |-> cache'[j]]
        BY <1>0, <1>1, <1>8, <2>2, <3>3
      <4>2. \A l \in DOMAIN Unread' : l > k - 1 => l + 1 > k
        BY <1>0, <1>8, <2>2
      <4> QED
        BY <3>1, <4>1, <4>2 DEF WillKnow
    <3> QED
      BY <3>2, <3>3
  <2> QED
    BY <1>0, <2>1, <2>2 DEF WillKnow
<1> QED
  BY <1>11 DEF NothingMissed

-----------------------------------------------------------------------------
LEMMA StepInit == StreamInit => StepInv
BY StreamTypesInit DEF StreamInit, StepInv, Connected, NothingMissed

\* The steps that leave the orchestrator in step, or ready to come in step.
LEMMA InStepSteps ==
    ASSUME StepInv, StreamNext, inStep, inStep'
    PROVE  NothingMissed' /\ UNCHANGED <<registered, stream, past>>
<1>0. /\ StreamTypes /\ NothingMissed /\ registered /\ stream = "up" /\ sub = "receive"
  BY DEF StepInv, Connected
<1>1. ASSUME UNCHANGED <<queue, wire, down, view, cache, registered, stream, past>>
      PROVE  NothingMissed' /\ UNCHANGED <<registered, stream, past>>
  BY <1>0, <1>1, KnownStays DEF Unread
<1>2. ASSUME NEW i \in Ids, Request(i)
      PROVE  UNCHANGED <<queue, wire, down, view, cache, registered, stream, past>>
  BY <1>2 DEF Request, Create, Remove, Evolve, Changes, publisher, subscriber
<1>3. CASE PollList \/ PollCompare
  BY <1>1, <1>3 DEF PollList, PollCompare, publisher, subscriber
<1>4. ASSUME NEW i \in Ids, NEW s \in States \cup {None}, Tell(i, s),
             UNCHANGED <<stream, wire, past, subscriber>>,
             IF Dropped(i, s) THEN Faulty ELSE Sound
      PROVE  NothingMissed' /\ UNCHANGED <<registered, stream, past>>
  <2>1. ~Dropped(i, s)
    BY <1>4 DEF Faulty
  <2> QED
    BY <1>4, <2>1, TellMissesNothing DEF subscriber
<1>5. ASSUME NEW o \in Owings, PublishOwed(o[1], o[2])
      PROVE  NothingMissed' /\ UNCHANGED <<registered, stream, past>>
  <2>1. o[1] \in Ids /\ o[2] \in States \cup {None}
    BY StreamAssumption DEF Owings
  <2> QED
    BY <1>4, <1>5, <2>1 DEF PublishOwed
<1>6. ASSUME NEW i \in Ids, PollPublish(i)
      PROVE  NothingMissed' /\ UNCHANGED <<registered, stream, past>>
  <2>1. listed[i] \in States \cup {None}
    BY <1>0 DEF StreamTypes
  <2> QED
    BY <1>4, <1>6, <2>1 DEF PollPublish
<1>7. CASE ReceiveEvent
  BY <1>7, ReadMissesNothing DEF ReceiveEvent, publisher
<1>8. ~Reconnect /\ ~Register /\ ~Seed /\ ~SubscribeToNode /\ ~Fault
  BY <1>0 DEF Reconnect, Register, Seed, SubscribeToNode, Fault, StreamBreaks, LinkBreaks,
              ControllerRestart, Faulty
<1> QED
  BY <1>1, <1>2, <1>3, <1>5, <1>6, <1>7, <1>8, MoveMissesNothing DEF StreamNext, Poll, Subscriber

\* The history variable is kept by every step.
LEMMA Observed ==
    ASSUME StreamNext PROVE Sound \/ Faulty
BY DEF StreamNext, Request, Create, Remove, Evolve, Changes, PublishOwed, Poll, PollList,
       PollCompare, PollPublish, Reconnect, Forward, Broadcast, Register, Subscriber, Seed,
       SubscribeToNode, ReceiveEvent, Fault, StreamBreaks, LinkBreaks, ControllerRestart

\* The event service serves nobody but a subscriber that reads.
LEMMA ServedReads ==
    ASSUME StepInv, StreamNext PROVE registered' => sub' = "receive"
BY DEF StepInv, Connected, StreamNext, Request, Create, Remove, Evolve, Changes, PublishOwed, Poll,
       PollList, PollCompare, PollPublish, Reconnect, Forward, Broadcast, Register, Subscriber,
       Seed,
       SubscribeToNode, ReceiveEvent, Fault, StreamBreaks, LinkBreaks, ControllerRestart, subscriber

LEMMA StepNext == StepInv /\ [StreamNext]_streamVars => StepInv'
<1> SUFFICES ASSUME StepInv, [StreamNext]_streamVars PROVE StepInv'
  OBVIOUS
<1>1. StreamTypes'
  BY StreamTypesNext DEF StepInv
<1>2. CASE UNCHANGED streamVars
  <2>1. UNCHANGED <<queue, wire, down, view, cache, inStep, registered, stream, past, sub>>
    BY <1>2 DEF streamVars
  <2>2. Unread' = Unread
    BY <2>1 DEF Unread
  <2>3. NothingMissed'
    BY <2>1, <2>2, KnownStays DEF StepInv, NothingMissed
  <2> QED
    BY <1>1, <2>1, <2>3 DEF StepInv, Connected
<1>3. CASE StreamNext
  <2>1. inStep' => inStep \/ Synced'
    BY <1>3, Observed DEF Sound, Faulty
  <2>2. CASE ~inStep'
    BY <1>1, <1>3, <2>2, ServedReads DEF StepInv, Connected, NothingMissed
  <2>3. CASE inStep' /\ Synced'
    BY <1>1, <1>3, <2>3, ServedReads, SyncedMissesNothing DEF StepInv, Connected, Synced
  <2>4. CASE inStep' /\ inStep
    <3>1. NothingMissed' /\ UNCHANGED <<registered, stream, past>>
      BY <1>3, <2>4, InStepSteps
    <3> QED
      BY <1>1, <1>3, <2>4, <3>1, ServedReads DEF StepInv, Connected
  <2> QED
    BY <2>1, <2>2, <2>3, <2>4
<1> QED
  BY <1>2, <1>3

\* In step, queue and streams hold what the orchestrator has yet to learn.
THEOREM StreamStepInvariant == StreamSpec => []StepInv
BY StepInit, StepNext, PTL DEF StreamSpec

\* As long as nothing breaks and the queue does not overflow, the orchestrator
\* misses nothing that the node publishes (NothingMissed), for any number of
\* instances and any length of the queues, although lists are outdated and
\* publications late.
THEOREM StreamNothingMissed == StreamSpec => []NothingMissed
BY StreamStepInvariant, PTL DEF StepInv
=============================================================================
