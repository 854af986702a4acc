------------------------------ MODULE HostProofs ------------------------------
(***************************************************************************)
(* Proofs about the loops of a node's host.  The monitor: readiness never  *)
(* outlives its connection by more than the messages that are still to be  *)
(* read, for any number of processes and restarts.  Names and messages     *)
(* carry no sign of the process they belong to in the code; what keeps     *)
(* them apart is their order.  The invariant says of every unread message  *)
(* that it is of the present connection, or that the end of its connection *)
(* is among the messages behind it.  The firewall: what its goroutine has  *)
(* yet to read ends with the last interface announced.                     *)
(***************************************************************************)
EXTENDS InstanceMonitor, FirewallReconcile, SequenceTheorems, TLAPS

Messages == [kind : {"add", "greeting", "pong", "gone"}, of : Sockets, from : Vms]
Inbox == 1 .. Len(inbox)

\* The processes that are left of the choice made.
Chosen == followed \in Followings /\ born <= Len(followed)

\* Only QMP greets.
OnlyQmpGreets == \A i \in Inbox : inbox[i].kind = "greeting" => inbox[i].of = "qmp"

\* The end of connection k of p is unread, behind the message at i.
EndsAfter(i, p, k) ==
    \E j \in Inbox : j > i /\ inbox[j] = Message("gone", p, k)

\* An unread message is of the present connection, or of one whose end is
\* read later.
MessageIsBacked ==
    \A i \in Inbox : inbox[i].kind # "gone" =>
        \/ conn[inbox[i].of] = inbox[i].from
        \/ EndsAfter(i, inbox[i].of, inbox[i].from)

\* ReadyIsBacked, by the places of the messages.
NameIsBacked ==
    \A p \in Sockets : ready[p] # 0 => conn[p] = ready[p] \/ EndsAfter(0, p, ready[p])

\* The inductive invariant.
MonitorInv ==
    MonitorTypeOK /\ Chosen /\ OnlyQmpGreets /\ MessageIsBacked /\ NameIsBacked

-----------------------------------------------------------------------------
(* The inbox *)

LEMMA InboxFacts ==
    ASSUME MonitorTypeOK
    PROVE  /\ inbox \in Seq(Messages) /\ Len(inbox) \in Nat /\ DOMAIN inbox = Inbox
           /\ \A i \in Inbox : /\ inbox[i] \in Messages /\ inbox[i].of \in Sockets
                              /\ inbox[i].from \in Vms
           /\ \A m : m \in Range(inbox) <=> \E j \in Inbox : inbox[j] = m
<1>1. inbox \in Seq(Messages)
  BY DEF MonitorTypeOK, Messages
<1>2. Len(inbox) \in Nat /\ DOMAIN inbox = Inbox
  BY <1>1, LenProperties DEF Inbox
<1>3. \A i \in Inbox : inbox[i] \in Messages
  BY <1>1, <1>2, ElementOfSeq DEF Inbox
<1>4. \A m : m \in Range(inbox) <=> \E j \in Inbox : inbox[j] = m
  BY <1>2 DEF Range
<1> QED
  BY <1>1, <1>2, <1>3, <1>4 DEF Messages

\* The unread end of a connection is a place in the inbox.
LEMMA BackedByPlaces ==
    ASSUME MonitorTypeOK PROVE ReadyIsBacked <=> NameIsBacked
<1>1. \A i \in Inbox : i > 0
  BY InboxFacts DEF Inbox
<1>2. \A p, k : Message("gone", p, k) \in Range(inbox) <=> EndsAfter(0, p, k)
  BY <1>1, InboxFacts DEF EndsAfter
<1> QED
  BY <1>2 DEF ReadyIsBacked, NameIsBacked

\* What is appended is read after everything else.
LEMMA Appended ==
    ASSUME MonitorTypeOK, NEW m \in Messages, inbox' = Append(inbox, m)
    PROVE  /\ inbox' \in Seq(Messages)
           /\ Inbox' = Inbox \cup {Len(inbox) + 1}
           /\ \A i \in Inbox : inbox'[i] = inbox[i]
           /\ inbox'[Len(inbox) + 1] = m
           /\ \A i, p, k : EndsAfter(i, p, k) => EndsAfter(i, p, k)'
<1>1. /\ Len(inbox') = Len(inbox) + 1
      /\ \A i \in 1 .. Len(inbox) : inbox'[i] = inbox[i]
      /\ inbox'[Len(inbox) + 1] = m
  BY InboxFacts, AppendProperties
<1>2. Inbox' = Inbox \cup {Len(inbox) + 1}
  BY <1>1, InboxFacts DEF Inbox
<1>3. inbox' \in Seq(Messages)
  BY InboxFacts, AppendProperties
<1> QED
  BY <1>1, <1>2, <1>3 DEF EndsAfter, Inbox

\* What is read is the first; the others move up.
LEMMA FirstRead ==
    ASSUME MonitorTypeOK, inbox # <<>>, inbox' = Tail(inbox)
    PROVE  /\ inbox' \in Seq(Messages)
           /\ 1 \in Inbox /\ Head(inbox) = inbox[1]
           /\ \A i \in Inbox' : i + 1 \in Inbox /\ inbox'[i] = inbox[i + 1]
           /\ \A i \in Nat : \A p, k : EndsAfter(i + 1, p, k) => EndsAfter(i, p, k)'
<1>1. /\ Len(inbox') = Len(inbox) - 1 /\ Len(inbox) > 0
      /\ \A i \in 1 .. Len(inbox') : inbox'[i] = inbox[i + 1]
      /\ Head(inbox) = inbox[1]
  BY InboxFacts, HeadTailProperties, EmptySeq
<1>2. \A i \in Inbox' : i + 1 \in Inbox /\ inbox'[i] = inbox[i + 1]
  BY <1>1, InboxFacts DEF Inbox
<1>3. ASSUME NEW i \in Nat, NEW p, NEW k, EndsAfter(i + 1, p, k) PROVE EndsAfter(i, p, k)'
  <2>1. PICK j \in Inbox : j > i + 1 /\ inbox[j] = Message("gone", p, k)
    BY <1>3 DEF EndsAfter
  <2>2. j - 1 \in Inbox' /\ j - 1 > i /\ inbox'[j - 1] = inbox[j]
    BY <1>1, <2>1, InboxFacts DEF Inbox
  <2> QED
    BY <2>1, <2>2 DEF EndsAfter
<1>4. inbox' \in Seq(Messages)
  BY InboxFacts, HeadTailProperties
<1> QED
  BY <1>1, <1>2, <1>3, <1>4, InboxFacts DEF Inbox

-----------------------------------------------------------------------------
(* Types *)

AddSteps == {"none", "check", "watch", "recheck", "wait", "told", "connect", "done", "error"}
WatchSteps == {"none", "select", "await", "ended"}

\* The type invariant, one variable at a time.
VarTypes ==
    /\ vm \in 0 .. MaxVms /\ born \in 0 .. MaxVms /\ tracked \in 0 .. MaxVms
    /\ sock \in [Sockets -> 0 .. MaxVms] /\ conn \in [Sockets -> 0 .. MaxVms]
    /\ ready \in [Sockets -> 0 .. MaxVms]
    /\ add \in [Vms -> [Sockets -> AddSteps]]
    /\ watcher \in [Vms -> WatchSteps]
    /\ ctx \subseteq Vms /\ late \subseteq Vms /\ broken \subseteq Vms
    /\ inbox \in Seq(Messages)
    /\ asking \in {"none", "qmp"}
    /\ requests \subseteq Sockets \X Vms
    /\ reboots \in 0 .. MaxReboots

LEMMA Types == /\ MonitorTypeOK <=> VarTypes
               /\ (MonitorTypeOK <=> VarTypes)'
BY DEF MonitorTypeOK, AddSteps, WatchSteps, Messages, VarTypes

\* Numbers of processes.
LEMMA VmNumbers ==
    /\ 0 \in 0 .. MaxVms /\ 0 \in 0 .. MaxReboots
    /\ \A k \in 0 .. MaxVms : k # 0 => k \in Vms
    /\ \A k \in Vms : k \in 0 .. MaxVms /\ k # 0
BY MonitorAssumption DEF Vms

LEMMA MonitorInitInv ==
    ASSUME MonitorInit PROVE MonitorInv
<1>1. MonitorTypeOK
  BY VmNumbers, Types, EmptySeq DEF MonitorInit, AddSteps, WatchSteps, VarTypes
<1>2. Inbox = {}
  BY DEF MonitorInit, Inbox
<1>3. Chosen
  BY MonitorAssumption DEF MonitorInit, Chosen
<1> QED
  BY <1>1, <1>2, <1>3 DEF MonitorInit, MonitorInv, OnlyQmpGreets, MessageIsBacked, NameIsBacked

\* A registration moves on by a step.
LEMMA StepTypes ==
    ASSUME MonitorTypeOK, NEW k \in Vms, NEW p \in Sockets, NEW from, NEW to \in AddSteps,
           Step(k, p, from, to)
    PROVE  add' \in [Vms -> [Sockets -> AddSteps]]
<1>1. add \in [Vms -> [Sockets -> AddSteps]]
  BY Types DEF VarTypes
<1>2. [add[k] EXCEPT ![p] = to] \in [Sockets -> AddSteps]
  BY <1>1
<1> QED
  BY <1>1, <1>2 DEF Step

\* The processes, the lifecycle loop and the ends of contexts touch neither
\* the connections nor the monitor.
Outside ==
    \/ StartVm \/ VmEnds \/ KillVm
    \/ \E p \in Sockets : CreateSocket(p)
    \/ \E k \in Vms : Timeout(k) \/ Await(k)

LEMMA OutsideTypes ==
    ASSUME MonitorInv, Outside
    PROVE  MonitorTypeOK' /\ Chosen' /\ UNCHANGED <<conn, inbox, ready>>
<1>1. MonitorTypeOK /\ Chosen
  BY DEF MonitorInv
<1>2. CASE StartVm
  <2>1. born + 1 \in Vms /\ born + 1 \in 0 .. MaxVms /\ born + 1 <= Len(followed)
    <3>1. born \in 0 .. MaxVms /\ followed \in Followings /\ born < Len(followed)
      BY <1>1, <1>2, Types DEF StartVm, Chosen, VarTypes
    <3>2. Len(followed) <= MaxVms /\ Len(followed) \in Nat
      BY <3>1, MonitorAssumption, LenProperties
    <3> QED
      BY <3>1, <3>2, MonitorAssumption DEF Vms
  <2>2. add' \in [Vms -> [Sockets -> AddSteps]] /\ watcher' \in [Vms -> WatchSteps]
    <3>1. [p \in Sockets |-> IF p \in followed[born + 1] THEN "check" ELSE "none"]
             \in [Sockets -> AddSteps]
      BY DEF AddSteps
    <3> QED
      BY <1>1, <1>2, <3>1, Types DEF StartVm, Take, WatchSteps, VarTypes
  <2>3. /\ vm' = born + 1 /\ born' = born + 1 /\ tracked' = born + 1
        /\ ctx' = ctx \cup {born + 1}
        /\ UNCHANGED <<followed, sock, conn, inbox, asking, requests, ready, late, broken, reboots>>
    BY <1>2 DEF StartVm, Take, monitoring
  <2> QED
    BY <1>1, <2>1, <2>2, <2>3, Types DEF Chosen, VarTypes
<1>3. CASE VmEnds \/ KillVm
  <2>1. /\ vm' = 0 /\ tracked' \in {tracked, 0} /\ ctx' \subseteq ctx
        /\ sock' = [p \in Sockets |-> 0]
        /\ UNCHANGED <<followed, born, add, watcher, conn, inbox, asking, requests,
                       ready, late, broken, reboots>>
    BY <1>3 DEF VmEnds, KillVm, monitoring, registering
  <2> QED
    BY <1>1, <2>1, VmNumbers, Types DEF Chosen, VarTypes
<1>4. ASSUME NEW p \in Sockets, CreateSocket(p)
      PROVE  MonitorTypeOK' /\ Chosen' /\ UNCHANGED <<conn, inbox, ready>>
  <2>1. add' \in [Vms -> [Sockets -> AddSteps]]
    <3>1. add \in [Vms -> [Sockets -> AddSteps]]
      BY <1>1, Types DEF VarTypes
    <3>2. \A k \in Vms : [add[k] EXCEPT ![p] = IF @ = "wait" THEN "told" ELSE @]
                            \in [Sockets -> AddSteps]
      BY <3>1 DEF AddSteps
    <3> QED
      BY <1>4, <3>2 DEF CreateSocket
  <2>2. sock' \in [Sockets -> 0 .. MaxVms]
    BY <1>1, <1>4, Types DEF CreateSocket, VarTypes
  <2>3. UNCHANGED <<followed, vm, born, conn, ctx, watcher, tracked, inbox,
                   asking, requests, ready, late, broken, reboots>>
    BY <1>4 DEF CreateSocket, monitoring
  <2> QED
    BY <1>1, <2>1, <2>2, <2>3, Types DEF Chosen, VarTypes
<1>5. ASSUME NEW k \in Vms, Timeout(k) \/ Report(k)
      PROVE  MonitorTypeOK' /\ Chosen' /\ UNCHANGED <<conn, inbox, ready>>
  <2>1. /\ ctx' \subseteq ctx /\ late' \subseteq Vms /\ broken' \subseteq Vms
        /\ tracked' \in {tracked, 0}
        /\ UNCHANGED <<followed, vm, born, sock, add, conn, inbox, asking, requests,
                       ready, reboots>>
    BY <1>1, <1>5, Types DEF Timeout, Report, CutOff, guests, monitoring, VarTypes
  <2>2. watcher' \in [Vms -> WatchSteps]
    BY <1>1, <1>5, Types DEF Timeout, Report, WatchSteps, VarTypes
  <2> QED
    BY <1>1, <2>1, <2>2, VmNumbers, Types DEF Chosen, VarTypes
<1>6. ASSUME NEW k \in Vms, NEW p \in Sockets, TakeError(k, p)
      PROVE  MonitorTypeOK' /\ Chosen' /\ UNCHANGED <<conn, inbox, ready>>
  <2>1. "done" \in AddSteps
    BY DEF AddSteps
  <2>2. add' \in [Vms -> [Sockets -> AddSteps]]
    BY <1>1, <1>6, <2>1, StepTypes DEF TakeError
  <2>3. watcher' \in [Vms -> WatchSteps]
    BY <1>1, <1>6, Types DEF TakeError, WatchSteps, VarTypes
  <2>4. UNCHANGED <<guests, monitoring, ctx, late, broken, conn, tracked, inbox, reboots>>
    BY <1>6 DEF TakeError
  <2> QED
    BY <1>1, <2>2, <2>3, <2>4, Types DEF Chosen, guests, monitoring, VarTypes
<1>7. ASSUME NEW k \in Vms, ContextEnds(k)
      PROVE  MonitorTypeOK' /\ Chosen' /\ UNCHANGED <<conn, inbox, ready>>
  <2>1. watcher' \in [Vms -> WatchSteps]
    BY <1>1, <1>7, Types DEF ContextEnds, WatchSteps, VarTypes
  <2>2. UNCHANGED <<guests, monitoring, add, ctx, late, broken, conn, tracked, inbox, reboots>>
    BY <1>7 DEF ContextEnds
  <2> QED
    BY <1>1, <2>1, <2>2, Types DEF Chosen, guests, monitoring, VarTypes
<1> QED
  BY <1>2, <1>3, <1>4, <1>5, <1>6, <1>7 DEF Outside, Await

\* A step that leaves connections, messages and names alone.
LEMMA NothingMoves ==
    ASSUME MonitorInv, MonitorTypeOK', Chosen', UNCHANGED <<conn, inbox, ready>>
    PROVE  MonitorInv'
BY DEF MonitorInv, OnlyQmpGreets, MessageIsBacked, NameIsBacked, EndsAfter, Inbox

-----------------------------------------------------------------------------
(* Connections *)

\* Registrations that make no connection.
LEMMA WaitStep ==
    ASSUME MonitorInv, NEW k \in Vms, NEW p \in Sockets,
           WaitForFile(k, p) \/ AlreadyAdded(k, p) \/ CallFails(k, p)
           \/ (Step(k, p, "connect", "error")
               /\ UNCHANGED <<guests, monitoring, ctx, watcher, late, broken, conn,
                              tracked, inbox, reboots>>)
    PROVE  MonitorInv'
<1>1. MonitorTypeOK /\ Chosen
  BY DEF MonitorInv
<1>2. \A to \in {"connect", "watch", "recheck", "wait", "error"} : to \in AddSteps
  BY DEF AddSteps
<1>3. \E from, to \in AddSteps : Step(k, p, from, to)
  BY <1>2 DEF WaitForFile, AlreadyAdded, CallFails, Check, AddWatch, Recheck, AwaitFile, AddSteps
<1>4. add' \in [Vms -> [Sockets -> AddSteps]]
  BY <1>1, <1>3, StepTypes
<1>5. /\ UNCHANGED <<guests, monitoring, ctx, watcher, late, conn, tracked, inbox, reboots>>
      /\ broken' \subseteq broken \cup Vms
  BY DEF WaitForFile, AlreadyAdded, CallFails
<1>6. MonitorTypeOK' /\ Chosen'
  BY <1>1, <1>4, <1>5, Types DEF Chosen, guests, monitoring, VarTypes
<1> QED
  BY <1>5, <1>6, NothingMoves DEF monitoring

\* A message of the present connection, or of its end, goes into the inbox.
LEMMA MessageArrives ==
    ASSUME MonitorInv, NEW m \in Messages, inbox' = Append(inbox, m),
           m.kind = "greeting" => m.of = "qmp",
           m.kind # "gone" => conn'[m.of] = m.from,
           \A p \in Sockets, k \in 0 .. MaxVms :
              conn[p] = k /\ k # 0 => conn'[p] = k \/ m = Message("gone", p, k),
           UNCHANGED ready
    PROVE  inbox' \in Seq(Messages) /\ OnlyQmpGreets' /\ MessageIsBacked' /\ NameIsBacked'
<1>1. MonitorTypeOK
  BY DEF MonitorInv
<1> DEFINE last == Len(inbox) + 1
<1>2. /\ Inbox' = Inbox \cup {last} /\ inbox'[last] = m
      /\ \A i \in Inbox : inbox'[i] = inbox[i]
      /\ \A i, p, k : EndsAfter(i, p, k) => EndsAfter(i, p, k)'
      /\ inbox' \in Seq(Messages)
  BY <1>1, Appended
<1>3. last \in Nat /\ \A i \in Inbox \cup {0} : last > i
  BY <1>1, InboxFacts DEF Inbox
<1>4. \A i \in Inbox \cup {0} : \A p, k : m = Message("gone", p, k) => EndsAfter(i, p, k)'
  BY <1>2, <1>3 DEF EndsAfter
<1>5. OnlyQmpGreets'
  BY <1>2 DEF MonitorInv, OnlyQmpGreets
<1>6. MessageIsBacked'
  <2>1. ASSUME NEW i \in Inbox, inbox[i].kind # "gone"
        PROVE  conn'[inbox[i].of] = inbox[i].from \/ EndsAfter(i, inbox[i].of, inbox[i].from)'
    <3>1. /\ inbox[i].of \in Sockets /\ inbox[i].from \in 0 .. MaxVms /\ inbox[i].from # 0
      BY <1>1, InboxFacts, VmNumbers
    <3> QED
      BY <1>2, <1>4, <2>1, <3>1 DEF MonitorInv, MessageIsBacked
  <2> QED
    BY <1>2, <2>1 DEF MessageIsBacked
<1>7. NameIsBacked'
  <2>1. \A p \in Sockets : ready[p] \in 0 .. MaxVms
    BY <1>1, Types DEF VarTypes
  <2> QED
    BY <1>2, <1>4, <2>1 DEF MonitorInv, NameIsBacked
<1> QED
  BY <1>2, <1>5, <1>6, <1>7

LEMMA HangupStep ==
    ASSUME MonitorInv, NEW p \in Sockets, Hangup(p) PROVE MonitorInv'
<1>1. MonitorTypeOK /\ Chosen
  BY DEF MonitorInv
<1> DEFINE m == Message("gone", p, conn[p])
<1>2. m \in Messages /\ m.kind = "gone"
  BY <1>1, Types, VmNumbers DEF Hangup, Message, Messages, VarTypes
<1>3. /\ inbox' = Append(inbox, m) /\ conn' = [conn EXCEPT ![p] = 0]
      /\ UNCHANGED <<guests, registering, monitoring, tracked, reboots>>
  BY DEF Hangup
<1>4. conn' \in [Sockets -> 0 .. MaxVms]
      /\ \A q \in Sockets : q # p => conn'[q] = conn[q]
  BY <1>1, <1>3, Types, VmNumbers DEF VarTypes
<1>5. inbox' \in Seq(Messages) /\ OnlyQmpGreets' /\ MessageIsBacked' /\ NameIsBacked'
  BY <1>2, <1>3, <1>4, MessageArrives DEF monitoring
<1>6. MonitorTypeOK' /\ Chosen'
  BY <1>1, <1>3, <1>4, <1>5, Types DEF Chosen, guests, registering, monitoring, VarTypes
<1> QED
  BY <1>5, <1>6 DEF MonitorInv

LEMMA PongStep ==
    ASSUME MonitorInv, NEW p \in Sockets, Pong(p) PROVE MonitorInv'
<1>1. MonitorTypeOK /\ Chosen
  BY DEF MonitorInv
<1> DEFINE m == Message("pong", p, conn[p])
<1>2. m \in Messages /\ m.kind = "pong" /\ m.of = p /\ m.from = conn[p]
  BY <1>1, Types, VmNumbers DEF Pong, Message, Messages, VarTypes
<1>3. /\ inbox' = Append(inbox, m)
      /\ UNCHANGED <<guests, registering, monitoring, conn, tracked, reboots>>
  BY DEF Pong
<1>4. inbox' \in Seq(Messages) /\ OnlyQmpGreets' /\ MessageIsBacked' /\ NameIsBacked'
  BY <1>2, <1>3, MessageArrives DEF monitoring
<1>5. MonitorTypeOK' /\ Chosen'
  BY <1>1, <1>3, <1>4, Types DEF Chosen, guests, registering, monitoring, VarTypes
<1> QED
  BY <1>4, <1>5 DEF MonitorInv

\* A new connection brings one message, and from QMP two.
LEMMA Greeted ==
    ASSUME MonitorTypeOK, NEW p \in Sockets, NEW k \in Vms,
           inbox' = inbox \o <<Message("add", p, k)>>
                          \o (IF p = "qmp" THEN <<Message("greeting", p, k)>> ELSE <<>>)
    PROVE  /\ inbox' \in Seq(Messages)
           /\ Inbox \subseteq Inbox' /\ \A i \in Inbox : inbox'[i] = inbox[i]
           /\ \A i \in Inbox' \ Inbox :
                 /\ inbox'[i].of = p /\ inbox'[i].from = k /\ inbox'[i].kind # "gone"
                 /\ inbox'[i].kind = "greeting" => p = "qmp"
<1> DEFINE a == Message("add", p, k)
           g == Message("greeting", p, k)
           b == Append(inbox, a)
<1>1. a \in Messages /\ g \in Messages
  BY DEF Message, Messages
<1>2. a.of = p /\ a.from = k /\ a.kind = "add" /\ g.of = p /\ g.from = k /\ g.kind = "greeting"
  BY DEF Message
<1> HIDE DEF a, g
<1>3. /\ b = inbox \o <<a>> /\ b \in Seq(Messages) /\ Len(b) = Len(inbox) + 1
      /\ \A i \in 1 .. Len(inbox) : b[i] = inbox[i]
      /\ b[Len(inbox) + 1] = a
  BY <1>1, InboxFacts, AppendProperties, AppendIsConcat
<1> HIDE DEF b
<1>4. CASE p # "qmp"
  <2>1. inbox' = b
    BY <1>3, <1>4, ConcatEmptySeq DEF a
  <2>2. Inbox' = Inbox \cup {Len(inbox) + 1} /\ Len(inbox) + 1 \notin Inbox
    BY <1>3, <2>1, InboxFacts DEF Inbox
  <2> QED
    BY <1>2, <1>3, <2>1, <2>2 DEF Inbox
<1>5. CASE p = "qmp"
  <2>1. inbox' = Append(b, g)
    BY <1>1, <1>3, <1>5, AppendIsConcat DEF a, g
  <2>2. /\ inbox' \in Seq(Messages) /\ Len(inbox') = Len(b) + 1
        /\ \A i \in 1 .. Len(b) : inbox'[i] = b[i]
        /\ inbox'[Len(b) + 1] = g
    <3>1. g \in Messages /\ b \in Seq(Messages)
      BY <1>1, <1>3
    <3>2. /\ Append(b, g) \in Seq(Messages) /\ Len(Append(b, g)) = Len(b) + 1
          /\ \A i \in 1 .. Len(b) : Append(b, g)[i] = b[i]
          /\ Append(b, g)[Len(b) + 1] = g
      BY <3>1, AppendProperties
    <3> QED
      BY <2>1, <3>2
  <2>3. Inbox' = Inbox \cup {Len(inbox) + 1, Len(inbox) + 2}
    <3>1. Len(inbox') = Len(inbox) + 2 /\ Len(inbox) \in Nat
      BY <1>3, <2>2, InboxFacts
    <3>2. \A n \in Nat : 1 .. n + 2 = (1 .. n) \cup {n + 1, n + 2}
      OBVIOUS
    <3> QED
      BY <3>1, <3>2 DEF Inbox
  <2>4. \A i \in Inbox : inbox'[i] = inbox[i]
    BY <1>3, <2>2, InboxFacts DEF Inbox
  <2>5. inbox'[Len(inbox) + 1] = a /\ inbox'[Len(inbox) + 2] = g
    BY <1>3, <2>2, InboxFacts
  <2> QED
    BY <1>2, <1>5, <2>2, <2>3, <2>4, <2>5
<1> QED
  BY <1>4, <1>5

LEMMA ConnectStep ==
    ASSUME MonitorInv, NEW k \in Vms, NEW p \in Sockets, Connect(k, p) PROVE MonitorInv'
<1>1. MonitorTypeOK /\ Chosen
  BY DEF MonitorInv
<1>2. CASE sock[p] = 0
  <2>1. /\ Step(k, p, "connect", "error")
        /\ UNCHANGED <<guests, monitoring, ctx, watcher, late, broken, conn, tracked,
                       inbox, reboots>>
    BY <1>2 DEF Connect
  <2> QED
    BY <2>1, WaitStep
<1>3. CASE sock[p] # 0
  <2>1. /\ conn[p] = 0 /\ \A m \in Range(inbox) : m.of # p
        /\ Step(k, p, "connect", "done") /\ conn' = [conn EXCEPT ![p] = sock[p]]
        /\ inbox' = inbox \o <<Message("add", p, sock[p])>>
                          \o (IF p = "qmp" THEN <<Message("greeting", p, sock[p])>> ELSE <<>>)
        /\ UNCHANGED <<guests, monitoring, ctx, watcher, late, broken, tracked, reboots>>
    BY <1>3 DEF Connect
  <2>2. sock[p] \in Vms /\ sock[p] \in 0 .. MaxVms
    BY <1>1, <1>3, Types, VmNumbers DEF VarTypes
  <2>3. /\ inbox' \in Seq(Messages)
        /\ Inbox \subseteq Inbox' /\ \A i \in Inbox : inbox'[i] = inbox[i]
        /\ \A i \in Inbox' \ Inbox :
              /\ inbox'[i].of = p /\ inbox'[i].from = sock[p] /\ inbox'[i].kind # "gone"
              /\ inbox'[i].kind = "greeting" => p = "qmp"
    BY <1>1, <2>1, <2>2, Greeted
  <2>4. /\ conn' \in [Sockets -> 0 .. MaxVms] /\ conn'[p] = sock[p]
        /\ \A q \in Sockets : q # p => conn'[q] = conn[q]
    BY <1>1, <2>1, <2>2, Types DEF VarTypes
  <2>5. \A i \in Inbox : inbox[i].of # p
    BY <1>1, <2>1, InboxFacts
  <2>6. \A i, q, n : EndsAfter(i, q, n) => EndsAfter(i, q, n)' /\ q # p
    BY <2>3, <2>5 DEF EndsAfter, Message
  <2>7. OnlyQmpGreets'
    BY <2>3 DEF MonitorInv, OnlyQmpGreets
  <2>8. MessageIsBacked'
    <3>1. ASSUME NEW i \in Inbox, NEW q, NEW n,
                 inbox[i].kind # "gone", inbox[i].of = q, inbox[i].from = n
          PROVE  conn'[q] = n \/ EndsAfter(i, q, n)'
      <4>1. q \in Sockets /\ q # p
        BY <1>1, <2>5, <3>1, InboxFacts
      <4>2. conn[q] = n \/ EndsAfter(i, q, n)
        BY <3>1 DEF MonitorInv, MessageIsBacked
      <4> QED
        BY <2>4, <2>6, <4>1, <4>2
    <3> QED
      BY <2>3, <2>4, <3>1 DEF MessageIsBacked
  <2>9. NameIsBacked'
    <3>1. ready' = ready
      BY <2>1 DEF monitoring
    <3> QED
      BY <2>1, <2>4, <2>6, <3>1 DEF MonitorInv, NameIsBacked
  <2>10. add' \in [Vms -> [Sockets -> AddSteps]]
    BY <1>1, <2>1, StepTypes DEF AddSteps
  <2>11. MonitorTypeOK' /\ Chosen'
    BY <1>1, <2>1, <2>3, <2>4, <2>10, Types DEF Chosen, guests, monitoring, VarTypes
  <2> QED
    BY <2>7, <2>8, <2>9, <2>11 DEF MonitorInv
<1> QED
  BY <1>2, <1>3

-----------------------------------------------------------------------------
(* The monitor goroutine *)

\* What is left of the inbox keeps its order.
LEMMA ReadFacts ==
    ASSUME MonitorInv, inbox # <<>>, inbox' = Tail(inbox), UNCHANGED conn
    PROVE  /\ Head(inbox) \in Messages
           /\ inbox' \in Seq(Messages) /\ OnlyQmpGreets' /\ MessageIsBacked'
           /\ \A p \in Sockets : \A n : conn[p] = n \/ EndsAfter(0, p, n) =>
                 conn[p] = n \/ EndsAfter(0, p, n)' \/ Head(inbox) = Message("gone", p, n)
           /\ \A p, n : /\ Head(inbox).kind # "gone"
                        /\ Head(inbox).of = p /\ Head(inbox).from = n
                        => conn[p] = n \/ EndsAfter(0, p, n)'
<1>1. MonitorTypeOK
  BY DEF MonitorInv
<1>2. /\ inbox' \in Seq(Messages) /\ 1 \in Inbox /\ Head(inbox) = inbox[1]
      /\ \A i \in Inbox' : i + 1 \in Inbox /\ inbox'[i] = inbox[i + 1]
      /\ \A i \in Nat : \A p, k : EndsAfter(i + 1, p, k) => EndsAfter(i, p, k)'
  BY <1>1, FirstRead
<1>3. Inbox' \subseteq Nat
  BY DEF Inbox
<1>4. OnlyQmpGreets'
  BY <1>2 DEF MonitorInv, OnlyQmpGreets
<1>5. MessageIsBacked'
  BY <1>2, <1>3 DEF MonitorInv, MessageIsBacked
<1>6. \A p, n : EndsAfter(0, p, n) => EndsAfter(1, p, n) \/ inbox[1] = Message("gone", p, n)
  BY <1>1, InboxFacts DEF EndsAfter, Inbox
<1>7. \A p, n : EndsAfter(1, p, n) => EndsAfter(0, p, n)'
  <2>1. \A i \in Nat : \A p, n : EndsAfter(i + 1, p, n) => EndsAfter(i, p, n)'
    BY <1>2
  <2>2. 0 \in Nat /\ 0 + 1 = 1
    OBVIOUS
  <2> QED
    BY <2>1, <2>2
<1>8. inbox[1].kind # "gone" =>
         conn[inbox[1].of] = inbox[1].from \/ EndsAfter(1, inbox[1].of, inbox[1].from)
  BY <1>2 DEF MonitorInv, MessageIsBacked
<1> QED
  <2>1. Head(inbox) \in Messages
    BY <1>1, <1>2, InboxFacts
  <2>2. \A p, n : EndsAfter(0, p, n) =>
           EndsAfter(0, p, n)' \/ Head(inbox) = Message("gone", p, n)
    BY <1>2, <1>6, <1>7
  <2>3. \A p, n : /\ Head(inbox).kind # "gone"
                  /\ Head(inbox).of = p /\ Head(inbox).from = n
                  => conn[p] = n \/ EndsAfter(0, p, n)'
    BY <1>2, <1>7, <1>8
  <2> QED
    BY <1>2, <1>4, <1>5, <2>1, <2>2, <2>3

LEMMA ReadStep ==
    ASSUME MonitorInv, ReadMessage PROVE MonitorInv'
<1>1. MonitorTypeOK /\ Chosen
  BY DEF MonitorInv
<1> DEFINE m == Head(inbox)
<1>2. /\ inbox # <<>> /\ inbox' = Tail(inbox)
      /\ OnAdd(m) \/ OnGone(m) \/ OnGreeting(m) \/ OnPong(m)
      /\ UNCHANGED <<guests, registering, conn, tracked, reboots>>
  BY DEF ReadMessage
<1>3. /\ m \in Messages /\ m.of \in Sockets /\ m.from \in Vms
      /\ inbox' \in Seq(Messages) /\ OnlyQmpGreets' /\ MessageIsBacked'
      /\ \A p \in Sockets : \A n : conn[p] = n \/ EndsAfter(0, p, n) =>
            conn[p] = n \/ EndsAfter(0, p, n)' \/ m = Message("gone", p, n)
      /\ \A p, n : m.kind # "gone" /\ m.of = p /\ m.from = n =>
            conn[p] = n \/ EndsAfter(0, p, n)'
  BY <1>2, ReadFacts DEF Messages
<1>4. m.kind = "greeting" => m.of = "qmp"
  BY <1>1, <1>2, FirstRead DEF MonitorInv, OnlyQmpGreets
<1> HIDE DEF m
<1>5. /\ asking' \in {"none", "qmp"} /\ requests' \subseteq Sockets \X Vms
      /\ \/ ready' = ready /\ m.kind # "gone"
         \/ ready' = [ready EXCEPT ![m.of] = 0] /\ m.kind = "gone"
         \/ ready' = [ready EXCEPT ![m.of] = m.from] /\ m.kind = "pong"
  <2>1. asking \in {"none", "qmp"} /\ requests \subseteq Sockets \X Vms
    BY <1>1, Types DEF VarTypes
  <2>2. CASE OnAdd(m)
    BY <1>3, <2>1, <2>2 DEF OnAdd
  <2>3. CASE OnGone(m)
    BY <2>1, <2>3 DEF OnGone, ForgetReady
  <2>4. CASE OnGreeting(m)
    BY <1>4, <2>1, <2>4 DEF OnGreeting
  <2>5. CASE OnPong(m)
    BY <2>1, <2>5 DEF OnPong
  <2> QED
    BY <1>2, <2>2, <2>3, <2>4, <2>5
<1>6. ready' \in [Sockets -> 0 .. MaxVms]
  BY <1>1, <1>3, <1>5, Types, VmNumbers DEF VarTypes
<1>7. NameIsBacked'
  <2>1. \A p \in Sockets : \A n : ready[p] = n /\ n # 0 =>
           conn[p] = n \/ EndsAfter(0, p, n)' \/ m = Message("gone", p, n)
    <3>1. ASSUME NEW p \in Sockets, NEW n, ready[p] = n, n # 0
          PROVE  conn[p] = n \/ EndsAfter(0, p, n)
      BY <3>1 DEF MonitorInv, NameIsBacked
    <3> QED
      BY <1>3, <3>1
  <2>2. \A p, n : m = Message("gone", p, n) => m.kind = "gone" /\ m.of = p
    BY DEF Message
  <2>3. ready \in [Sockets -> 0 .. MaxVms] /\ conn' = conn
    BY <1>1, <1>2, Types DEF VarTypes
  <2>4. CASE ready' = ready /\ m.kind # "gone"
    BY <2>1, <2>2, <2>3, <2>4 DEF NameIsBacked
  <2>5. CASE ready' = [ready EXCEPT ![m.of] = 0] /\ m.kind = "gone"
    BY <1>3, <2>1, <2>2, <2>3, <2>5 DEF NameIsBacked
  <2>6. CASE ready' = [ready EXCEPT ![m.of] = m.from] /\ m.kind = "pong"
    <3>1. \A p, n : m.of = p /\ m.from = n => conn[p] = n \/ EndsAfter(0, p, n)'
      BY <1>3, <2>6
    <3>2. \A p \in Sockets : IF p = m.of THEN ready'[p] = m.from ELSE ready'[p] = ready[p]
      BY <1>3, <2>3, <2>6
    <3>3. \A p \in Sockets : \A n : ready[p] = n /\ n # 0 =>
             conn[p] = n \/ EndsAfter(0, p, n)'
      BY <2>1, <2>2, <2>6
    <3> QED
      BY <2>3, <3>1, <3>2, <3>3 DEF NameIsBacked
  <2> QED
    BY <1>5, <2>4, <2>5, <2>6
<1>8. MonitorTypeOK' /\ Chosen'
  BY <1>1, <1>2, <1>3, <1>5, <1>6, Types DEF Chosen, guests, registering, VarTypes
<1> QED
  BY <1>3, <1>7, <1>8 DEF MonitorInv

LEMMA NegotiatedStep ==
    ASSUME MonitorInv, Negotiated PROVE MonitorInv'
<1>1. MonitorTypeOK /\ Chosen
  BY DEF MonitorInv
<1>2. /\ asking' = "none" /\ requests' \subseteq requests
      /\ UNCHANGED <<guests, registering, conn, tracked, inbox, reboots>>
      /\ ready' = ready \/ ready' = [ready EXCEPT ![asking] = conn[asking]]
      /\ asking \in Sockets
  BY <1>1, Types DEF Negotiated, Sockets, VarTypes
<1>3. /\ ready' \in [Sockets -> 0 .. MaxVms]
      /\ \A p \in Sockets : ready'[p] = ready[p] \/ ready'[p] = conn[p]
  BY <1>1, <1>2, Types DEF VarTypes
<1>4. MonitorTypeOK' /\ Chosen'
  BY <1>1, <1>2, <1>3, Types DEF Chosen, guests, registering, VarTypes
<1> QED
  BY <1>2, <1>3, <1>4 DEF MonitorInv, OnlyQmpGreets, MessageIsBacked, NameIsBacked,
     EndsAfter, Inbox

LEMMA RebootStep ==
    ASSUME MonitorInv, Reboot PROVE MonitorInv'
<1>1. MonitorTypeOK /\ Chosen
  BY DEF MonitorInv
<1>2. /\ conn' = [p \in Sockets |-> 0] /\ ready' = [p \in Sockets |-> 0] /\ inbox' = <<>>
      /\ asking' = "none" /\ requests' = {} /\ tracked' = vm /\ ctx' = {vm} \ {0}
      /\ reboots < MaxReboots /\ reboots' = reboots + 1
      /\ late' = {} /\ broken' = {}
      /\ UNCHANGED <<followed, vm, born, sock>>
  BY DEF Reboot, guests
<1>3. add' \in [Vms -> [Sockets -> AddSteps]] /\ watcher' \in [Vms -> WatchSteps]
  BY DEF Reboot, AddSteps, WatchSteps
<1>4. reboots' \in 0 .. MaxReboots
  BY <1>1, <1>2, Types, MonitorAssumption DEF VarTypes
<1>5. <<>> \in Seq(Messages) /\ Inbox' = {}
  BY <1>2, EmptySeq DEF Inbox
<1>6. conn' \in [Sockets -> 0 .. MaxVms] /\ ready' \in [Sockets -> 0 .. MaxVms]
      /\ ctx' \subseteq Vms
  BY <1>1, <1>2, Types, VmNumbers DEF VarTypes
<1>7. MonitorTypeOK' /\ Chosen'
  BY <1>1, <1>2, <1>3, <1>4, <1>5, <1>6, Types DEF Chosen, VarTypes
<1> QED
  BY <1>2, <1>5, <1>7 DEF MonitorInv, OnlyQmpGreets, MessageIsBacked, NameIsBacked

-----------------------------------------------------------------------------
\* Every step preserves the invariant.
LEMMA MonitorNextInv ==
    ASSUME MonitorInv, [MonitorNext]_monitorVars PROVE MonitorInv'
<1>1. CASE Outside
  BY <1>1, OutsideTypes, NothingMoves
<1>2. ASSUME NEW k \in Vms, NEW p \in Sockets, Register(k, p) PROVE MonitorInv'
  BY <1>2, WaitStep, ConnectStep DEF Register
<1>3. ASSUME NEW p \in Sockets, Hangup(p) \/ Pong(p) PROVE MonitorInv'
  BY <1>3, HangupStep, PongStep
<1>4. CASE Reboot \/ Monitor
  BY <1>4, RebootStep, ReadStep, NegotiatedStep DEF Monitor
<1>5. CASE UNCHANGED monitorVars
  <2>1. MonitorTypeOK' /\ Chosen' /\ UNCHANGED <<conn, inbox, ready>>
    BY <1>5, Types DEF monitorVars, guests, registering, monitoring, MonitorInv, Chosen, VarTypes
  <2> QED
    BY <2>1, NothingMoves
<1> QED
  BY <1>1, <1>2, <1>3, <1>4, <1>5 DEF MonitorNext, Outside

\* What is ready, and what is read, belongs to the present connection or to
\* one whose end is still to be read (instancemonitor.go).
THEOREM MonitorInvariant == MonitorSpec => []MonitorInv
BY MonitorInitInv, MonitorNextInv, PTL DEF MonitorSpec

\* The variables of the monitor keep their types.
THEOREM MonitorTypeCorrect == MonitorSpec => []MonitorTypeOK
BY MonitorInvariant, PTL DEF MonitorInv

\* A name is ready on the strength of its own connection only, or until the
\* end of that connection is read, for any number of processes of the VM and
\* of restarts of the service.
THEOREM MonitorReadyIsBacked == MonitorSpec => []ReadyIsBacked
<1>1. MonitorInv => ReadyIsBacked
  BY BackedByPlaces DEF MonitorInv
<1> QED
  BY <1>1, MonitorInvariant, PTL
-----------------------------------------------------------------------------
(* FirewallReconcile: no interface that was announced is forgotten *)

\* The interface announced last is the last one to be read, or the one known.
KnowsLast == told = IF ifaceCh = <<>> THEN iface ELSE ifaceCh[Len(ifaceCh)]

\* Outside Connect, and when nothing has failed, the rules are where they belong.
RulesKept == mishaps = 0 /\ loop # "connect" => rules = iface

ReconcileInv == ReconcileTypeOK /\ KnowsLast /\ RulesKept

LEMMA ReconcileInitInv == ReconcileInit => ReconcileInv
<1> SUFFICES ASSUME ReconcileInit PROVE ReconcileInv
  OBVIOUS
<1>1. /\ ifaceCh \in Seq(Ifaces)
      /\ 0 \in 0 .. LinkBuffer /\ 0 \in 0 .. MaxNews /\ 0 \in 0 .. MaxMishaps
  BY ReconcileAssumption, EmptySeq DEF ReconcileInit
<1>2. ReconcileTypeOK
  BY <1>1 DEF ReconcileInit, ReconcileTypeOK
<1> QED
  BY <1>2 DEF ReconcileInit, ReconcileInv, KnowsLast, RulesKept

\* Steps that leave the default interface and its channel alone.
LEMMA SameInterface ==
    ASSUME ReconcileInv, ReconcileTypeOK', UNCHANGED <<told, iface, ifaceCh>>,
           \/ UNCHANGED <<rules, mishaps>> /\ (loop = "connect" => loop' = "connect")
           \/ rules' = iface
           \/ mishaps' # 0
    PROVE  ReconcileInv'
BY DEF ReconcileInv, KnowsLast, RulesKept

\* A notification, or a tick.
LEMMA NotifyStep ==
    ASSUME ReconcileInv,
           (\E i \in Ifaces : DefaultChanges(i)) \/ LinkChanges \/ Ticks
    PROVE  ReconcileInv'
<1>0. ReconcileTypeOK /\ ifaceCh \in Seq(Ifaces)
  BY DEF ReconcileInv, ReconcileTypeOK
<1>1. News => news' \in 0 .. MaxNews
  BY <1>0, ReconcileAssumption DEF News, ReconcileTypeOK
<1>2. ASSUME NEW i \in Ifaces, DefaultChanges(i) PROVE ReconcileInv'
  <2>1. /\ ifaceCh' \in Seq(Ifaces) /\ ifaceCh' # <<>> /\ ifaceCh'[Len(ifaceCh')] = i
    BY <1>0, <1>2, AppendProperties DEF DefaultChanges
  <2>2. ReconcileTypeOK'
    BY <1>0, <1>1, <1>2, <2>1 DEF DefaultChanges, ReconcileTypeOK
  <2> QED
    BY <1>2, <2>1, <2>2 DEF DefaultChanges, ReconcileInv, KnowsLast, RulesKept
<1>3. CASE LinkChanges
  <2>1. linkCh' \in 0 .. LinkBuffer
    BY <1>0, <1>3, ReconcileAssumption DEF LinkChanges, ReconcileTypeOK
  <2>2. ReconcileTypeOK'
    BY <1>0, <1>1, <1>3, <2>1 DEF LinkChanges, ReconcileTypeOK
  <2> QED
    BY <1>3, <2>2, SameInterface DEF LinkChanges
<1>4. CASE Ticks
  <2>1. ReconcileTypeOK'
    BY <1>0, <1>4 DEF Ticks, ReconcileTypeOK
  <2> QED
    BY <1>4, <2>1, SameInterface DEF Ticks
<1> QED
  BY <1>2, <1>3, <1>4

\* A flush, or a subscription that is closed.
LEMMA MishapStep ==
    ASSUME ReconcileInv, Flush \/ CloseSubscription
    PROVE  ReconcileInv'
<1>0. ReconcileTypeOK
  BY DEF ReconcileInv
<1>1. mishaps' \in 0 .. MaxMishaps /\ mishaps' # 0
  BY <1>0, ReconcileAssumption DEF Flush, CloseSubscription, Mishap, ReconcileTypeOK
<1>2. ReconcileTypeOK'
  BY <1>0, <1>1 DEF Flush, CloseSubscription, Mishap, sources, ReconcileTypeOK
<1> QED
  BY <1>1, <1>2, SameInterface DEF Flush, CloseSubscription, Mishap, sources

\* The goroutine reads an interface.
LEMMA ReadIfaceStep ==
    ASSUME ReconcileInv, ReadIface PROVE ReconcileInv'
<1>0. ReconcileTypeOK /\ ifaceCh \in Seq(Ifaces) /\ ifaceCh # <<>>
  BY DEF ReconcileInv, ReconcileTypeOK, ReadIface
<1>1. /\ iface' = Head(ifaceCh) /\ ifaceCh' = Tail(ifaceCh) /\ loop' = "connect"
      /\ UNCHANGED <<subState, linkCh, linkState, tick, rules, told, news, mishaps>>
  BY DEF ReadIface, WakeOnIface, Wake
<1>2. /\ Tail(ifaceCh) \in Seq(Ifaces) /\ Head(ifaceCh) \in Ifaces
      /\ Len(Tail(ifaceCh)) = Len(ifaceCh) - 1 /\ Len(ifaceCh) \in Nat \ {0}
      /\ \A k \in 1 .. Len(Tail(ifaceCh)) : Tail(ifaceCh)[k] = ifaceCh[k + 1]
      /\ Head(ifaceCh) = ifaceCh[1]
      /\ Tail(ifaceCh) = <<>> <=> Len(Tail(ifaceCh)) = 0
  <2>1. Len(ifaceCh) \in Nat \ {0}
    BY <1>0, EmptySeq
  <2>2. /\ Tail(ifaceCh) \in Seq(Ifaces) /\ Head(ifaceCh) \in Ifaces
        /\ Len(Tail(ifaceCh)) = Len(ifaceCh) - 1
        /\ \A k \in 1 .. Len(Tail(ifaceCh)) : Tail(ifaceCh)[k] = ifaceCh[k + 1]
        /\ Head(ifaceCh) = ifaceCh[1]
    BY <1>0, <2>1, HeadTailProperties
  <2> QED
    BY <2>1, <2>2, EmptySeq
<1>3. ReconcileTypeOK'
  BY <1>0, <1>1, <1>2 DEF ReconcileTypeOK
<1>4. KnowsLast'
  <2>1. told = ifaceCh[Len(ifaceCh)]
    BY <1>0 DEF ReconcileInv, KnowsLast
  <2>2. CASE Len(ifaceCh) = 1
    <3>1. Tail(ifaceCh) = <<>>
      BY <1>2, <2>2
    <3> QED
      BY <1>1, <1>2, <2>1, <2>2, <3>1 DEF KnowsLast
  <2>3. CASE Len(ifaceCh) # 1
    <3>1. Len(ifaceCh) - 1 \in 1 .. Len(Tail(ifaceCh)) /\ Tail(ifaceCh) # <<>>
      BY <1>2, <2>3
    <3>2. Tail(ifaceCh)[Len(Tail(ifaceCh))] = ifaceCh[Len(ifaceCh)]
      BY <1>2, <3>1
    <3> QED
      BY <1>1, <2>1, <3>1, <3>2 DEF KnowsLast
  <2> QED
    BY <2>2, <2>3
<1> QED
  BY <1>1, <1>3, <1>4 DEF ReconcileInv, RulesKept

\* Its other steps.
LEMMA LoopStep ==
    ASSUME ReconcileInv,
           \/ LaunchReconcile \/ ReadIfaceClosed \/ ReadLink \/ DrainLink \/ ReadTick
           \/ ApplyRules \/ StopReconcile
    PROVE  ReconcileInv'
<1>0. ReconcileTypeOK
  BY DEF ReconcileInv
<1>1. CASE LaunchReconcile \/ ReadIfaceClosed \/ ReadTick \/ StopReconcile
  <2>1. ReconcileTypeOK'
    BY <1>0, <1>1
    DEF LaunchReconcile, ReadIfaceClosed, ReadTick, StopReconcile, WakeOnTick, Wake, Awake, sources,
        ReconcileTypeOK
  <2> QED
    BY <1>1, <2>1, SameInterface
    DEF LaunchReconcile, ReadIfaceClosed, ReadTick, StopReconcile, WakeOnTick, Wake, sources
<1>2. CASE ReadLink \/ DrainLink
  <2>1. linkCh' \in 0 .. LinkBuffer
    BY <1>0, <1>2, ReconcileAssumption DEF ReadLink, DrainLink, ReconcileTypeOK
  <2>2. ReconcileTypeOK'
    BY <1>0, <1>2, <2>1 DEF ReadLink, DrainLink, Wake, Awake, ReconcileTypeOK
  <2> QED
    BY <1>2, <2>2, SameInterface DEF ReadLink, DrainLink, Wake
<1>3. CASE ApplyRules
  <2>1. Mishap => mishaps' \in 0 .. MaxMishaps /\ mishaps' # 0
    BY <1>0, ReconcileAssumption DEF Mishap, ReconcileTypeOK
  <2>2. ReconcileTypeOK'
    BY <1>0, <1>3, <2>1 DEF ApplyRules, sources, ReconcileTypeOK
  <2> QED
    BY <1>3, <2>1, <2>2, SameInterface DEF ApplyRules, sources
<1> QED
  BY <1>1, <1>2, <1>3

LEMMA ReconcileNextInv ==
    ASSUME ReconcileInv, [ReconcileNext]_reconcileVars PROVE ReconcileInv'
<1>1. CASE UNCHANGED reconcileVars
  BY <1>1 DEF reconcileVars, sources, ReconcileInv, ReconcileTypeOK, KnowsLast, RulesKept
<1> QED
  BY <1>1, NotifyStep, MishapStep, ReadIfaceStep, LoopStep DEF ReconcileNext, Reconcile

\* What the goroutine of qemu_linux.go knows of the default interface is never
\* older than what it has yet to read.
THEOREM ReconcileInvariant == ReconcileSpec => []ReconcileInv
BY ReconcileInitInv, ReconcileNextInv, PTL DEF ReconcileSpec

\* The variables of the firewall's goroutine keep their types.
THEOREM ReconcileTypeCorrect == ReconcileSpec => []ReconcileTypeOK
BY ReconcileInvariant, PTL DEF ReconcileInv

\* The goroutine never rests on old news (RulesAreCurrent), for any number of
\* interfaces, notifications and mishaps.
THEOREM ReconcileRulesAreCurrent == ReconcileSpec => []RulesAreCurrent
<1>1. ReconcileInv => RulesAreCurrent
  BY DEF ReconcileInv, KnowsLast, RulesKept, RulesAreCurrent
<1> QED
  BY <1>1, ReconcileInvariant, PTL
=============================================================================
