------------------------- MODULE NodeControllerProofs -------------------------
(***************************************************************************)
(* Proofs about NodeController for any instances, addresses and goroutines *)
(* and any bounds.  A STARTING record always has a goroutine that will     *)
(* settle it; this needs a strengthening: an owner that is about to write  *)
(* has read the address the record still has, so that its write cannot be  *)
(* refused for a duplicate address.  And what a removal leaves behind was  *)
(* there when it was made, or its clean-up failed; the invariant says that *)
(* an instance without a record that is not counted among those is at rest *)
(* and has a directory only as long as one is still to be deleted.         *)
(***************************************************************************)
EXTENDS NodeController, TLAPS

SetSteps == {"set_get", "set_put"}

\* What the program counter says about a goroutine's locals.
LocalsOf(p) ==
    /\ pc[p] \in SetSteps \cup ThreadSteps => vmId[p] \in Ids
    /\ pc[p] \in SetSteps => goal[p] \in States
    /\ pc[p] = "set_put" => rec[p] \in Records
    /\ p \in Reconcilers =>
          pc[p] \notin ThreadSteps /\ (pc[p] \in SetSteps => goal[p] # "STARTING")

Locals == \A p \in Procs : LocalsOf(p)

TInv == TypeOK /\ Locals

\* No two instances hold one hardware address.
MacsUnique ==
    \A i, j \in Ids :
        db[i] # None /\ db[j] # None /\ db[i].mac = db[j].mac => i = j

\* An owner of a start whose write cannot be refused.
SafeOwner(t, i) ==
    OwnsStart(t, i) /\ (pc[t] = "set_put" => rec[t].mac = db[i].mac)

StartingIsSafe ==
    crashes = 0 /\ dbErrors = 0 =>
        \A i \in Ids : db[i] # None /\ db[i].state = "STARTING"
                          => \E t \in Threads : SafeOwner(t, i)

IInv == TInv /\ MacsUnique /\ StartingIsSafe

-----------------------------------------------------------------------------
(* Types *)

LEMMA StateFacts ==
    /\ States = {"STOPPED", "STARTING", "RUNNING"}
    /\ Records = [mac : Macs, state : States]
  BY DEF States, Records, Table!States, Table!Records

LEMMA InitTInv == Init => TInv
<1> SUFFICES ASSUME Init PROVE TInv
  OBVIOUS
<1>1. TypeOK
  <2>1. db \in [Ids -> Records \cup {None}]
    BY StateFacts DEF Init, Found
  <2> QED
    BY <2>1, ControllerAssumption DEF Init, Service!Init, TypeOK, Steps, Procs, Reconcilers
<1>2. Locals
  BY DEF Init, Locals, LocalsOf, SetSteps, ThreadSteps
<1> QED
  BY <1>1, <1>2 DEF TInv

\* A failed transaction counts within its bound and changes nothing.
LEMMA DbFailsTypes ==
    ASSUME TypeOK, DbFails
    PROVE  UNCHANGED db /\ dbErrors' \in 0 .. MaxDbErrors
  BY ControllerAssumption DEF TypeOK, DbFails

\* So does a failed call.
LEMMA RpcFailsTypes ==
    ASSUME TypeOK, RpcFails \/ UNCHANGED rpcErrors
    PROVE  rpcErrors' \in 0 .. MaxRpcErrors
  BY ControllerAssumption DEF TypeOK, RpcFails

\* A database update, successful or not.
LEMMA StoreTypes ==
    ASSUME TypeOK, NEW i \in Ids, NEW r \in Records, Store(i, r) \/ StoreFails(i, r)
    PROVE  /\ db' \in [Ids -> Records \cup {None}]
           /\ dbErrors' \in 0 .. MaxDbErrors
           /\ UNCHANGED db \/ Table!Put(i, r)
<1>1. CASE Store(i, r)
  BY <1>1 DEF Store, Table!Put, TypeOK
<1>2. CASE StoreFails(i, r)
  BY <1>2, DbFailsTypes DEF StoreFails, TypeOK
<1> QED
  BY <1>1, <1>2

\* The write of setInstanceState and the end of it.
LEMMA SetStepTypes ==
    ASSUME TInv, NEW p \in Procs, SetGet(p) \/ SetPut(p)
    PROVE  TInv'
<1> USE ControllerAssumption, StateFacts
<1>0. TypeOK /\ LocalsOf(p) /\ (\A q \in Procs : LocalsOf(q))
  BY DEF TInv, Locals
<1>1. p \in Reconcilers \/ p \in Threads
  BY DEF Procs
<1>2. ASSUME AfterSet(p), pc[p] \in SetSteps, UNCHANGED <<vm, stray, dirs, handler,
             removing, cache, snap, listed, unclean, requests, crashes, rpcErrors>>,
             db' \in [Ids -> Records \cup {None}], dbErrors' \in 0 .. MaxDbErrors
      PROVE  TInv'
  <2>1. /\ pc' \in [Procs -> Steps]
        /\ vmId' \in [Procs -> Ids \cup {None}]
        /\ rec' \in [Procs -> Records \cup {None}]
        /\ goal' \in [Procs -> States \cup {None}]
    BY <1>0, <1>2 DEF AfterSet, Goto, TypeOK, Steps, ThreadSteps, ReconcilerSteps
  <2>2. TypeOK'
    BY <1>0, <1>2, <2>1 DEF TypeOK
  <2>3. ASSUME NEW q \in Procs PROVE LocalsOf(q)'
    <3>1. CASE q = p
      BY <1>0, <1>1, <1>2, <3>1
      DEF AfterSet, Goto, TypeOK, LocalsOf, SetSteps, ThreadSteps
    <3>2. CASE q # p
      <4>1. UNCHANGED <<pc[q], vmId[q], rec[q], goal[q]>>
        BY <1>0, <1>2, <3>2 DEF AfterSet, Goto, TypeOK
      <4> QED
        BY <1>0, <4>1 DEF LocalsOf
    <3> QED
      BY <3>1, <3>2
  <2> QED
    BY <2>2, <2>3 DEF TInv, Locals
<1>3. CASE SetPut(p)
  <2>1. [rec[p] EXCEPT !.state = goal[p]] \in Records /\ vmId[p] \in Ids
    BY <1>0, <1>3 DEF SetPut, LocalsOf, SetSteps
  <2>2. db' \in [Ids -> Records \cup {None}] /\ dbErrors' \in 0 .. MaxDbErrors
    BY <1>0, <1>3, <2>1, StoreTypes DEF SetPut
  <2> QED
    BY <1>2, <1>3, <2>2 DEF SetPut, qemuVars, listVars, SetSteps
<1>4. CASE SetGet(p) /\ AfterSet(p)
  <2>1. db' \in [Ids -> Records \cup {None}] /\ dbErrors' \in 0 .. MaxDbErrors
    BY <1>0, <1>4, DbFailsTypes DEF SetGet, TypeOK
  <2> QED
    BY <1>2, <1>4, <2>1 DEF SetGet, qemuVars, listVars, SetSteps
<1>5. CASE SetGet(p) /\ ~AfterSet(p)
  <2>1. /\ pc' = [pc EXCEPT ![p] = "set_put"]
        /\ rec' = [rec EXCEPT ![p] = db[vmId[p]]]
        /\ db[vmId[p]] # None
        /\ UNCHANGED <<vmId, goal>>
        /\ pc[p] = "set_get"
        /\ UNCHANGED <<db, vm, stray, dirs, handler, removing, cache, snap, listed,
                       unclean, requests, crashes, dbErrors, rpcErrors>>
    <3>1. StateIn(db, vmId[p]) # None
      BY <1>5 DEF SetGet
    <3> QED
      BY <1>5, <3>1 DEF SetGet, Goto, StateIn, qemuVars, listVars
  <2>2. vmId[p] \in Ids /\ db[vmId[p]] \in Records /\ goal[p] \in States
    BY <1>0, <2>1 DEF TypeOK, LocalsOf, SetSteps
  <2>3. TypeOK'
    BY <1>0, <2>1, <2>2 DEF TypeOK, Steps
  <2>4. \A q \in Procs : LocalsOf(q)'
    BY <1>0, <2>1, <2>2 DEF TypeOK, LocalsOf, SetSteps, ThreadSteps
  <2> QED
    BY <2>3, <2>4 DEF TInv, Locals
<1> QED
  BY <1>3, <1>4, <1>5

\* The steps of Create, Start and Remove outside setInstanceState.
LEMMA ThreadStepTypes ==
    ASSUME TInv, NEW t \in Threads,
           \/ Request(t)
           \/ CreatePut(t) \/ CreatePublish(t)
           \/ StartGet(t) \/ StartCall(t) \/ GiveUp(t)
           \/ RemoveDelete(t) \/ RemoveCall(t) \/ RemoveGiveUp(t) \/ RemovePublish(t)
    PROVE  TInv'
<1> USE ControllerAssumption, StateFacts
    DEF Goto, Finish, SetState, qemuVars, listVars, bounds, Service!Accept,
        Service!Move, Service!RemoveCheck
<1>0. /\ TypeOK /\ LocalsOf(t) /\ (\A q \in Procs : LocalsOf(q))
      /\ t \in Procs /\ t \notin Reconcilers
  BY DEF TInv, Locals, Procs
<1>1. ASSUME NEW i \in Ids, CreateGet(t, i) \/ StartRequest(t, i) \/ RemoveGet(t, i)
      PROVE  TInv'
  <2>1. TypeOK'
    <3>1. PICK s \in {"create_put", "start_get", "remove_pub", "remove_del"} :
             Accept(t, i, s)
      BY <1>1 DEF CreateGet, StartRequest, RemoveGet
    <3>2. /\ requests' \in 0 .. MaxRequests
          /\ vmId' \in [Procs -> Ids \cup {None}]
          /\ pc' \in [Procs -> Steps]
      BY <1>0, <3>1 DEF Accept, TypeOK, Steps, ThreadSteps
    <3>3. UNCHANGED <<db, vm, stray, dirs, handler, removing, cache, rec, goal, snap,
                      listed, unclean, crashes, rpcErrors>>
      BY <1>1 DEF CreateGet, StartRequest, RemoveGet, DbFails
    <3>4. dbErrors' \in 0 .. MaxDbErrors
      <4>1. UNCHANGED dbErrors \/ DbFails
        BY <1>1 DEF CreateGet, StartRequest, RemoveGet
      <4> QED
        BY <1>0, <4>1, DbFailsTypes DEF TypeOK
    <3> QED
      BY <1>0, <3>2, <3>3, <3>4 DEF TypeOK
  <2>2. \A q \in Procs : LocalsOf(q)'
    BY <1>0, <1>1
    DEF CreateGet, StartRequest, RemoveGet, Accept, TypeOK, LocalsOf, SetSteps,
        ThreadSteps
  <2> QED
    BY <2>1, <2>2 DEF TInv, Locals
<1>2. CASE CreatePut(t)
  <2>1. vmId[t] \in Ids
    BY <1>0, <1>2 DEF CreatePut, LocalsOf, ThreadSteps
  <2>2. db' \in [Ids -> Records \cup {None}] /\ dbErrors' \in 0 .. MaxDbErrors
    <3>1. PICK m \in Macs :
             LET r == [mac |-> m, state |-> "STOPPED"]
             IN  Store(vmId[t], r) \/ StoreFails(vmId[t], r)
      BY <1>2 DEF CreatePut
    <3> QED
      BY <1>0, <2>1, <3>1, StoreTypes
  <2>3. TypeOK'
    BY <1>0, <1>2, <2>2 DEF CreatePut, TypeOK, Steps, ThreadSteps
  <2>4. \A q \in Procs : LocalsOf(q)'
    BY <1>0, <1>2, <2>1 DEF CreatePut, TypeOK, LocalsOf, SetSteps, ThreadSteps
  <2> QED
    BY <2>3, <2>4 DEF TInv, Locals
<1>3. CASE CreatePublish(t)
  <2>1. TypeOK'
    BY <1>0, <1>3 DEF CreatePublish, TypeOK, Steps, ThreadSteps
  <2>2. \A q \in Procs : LocalsOf(q)'
    BY <1>0, <1>3 DEF CreatePublish, TypeOK, LocalsOf, SetSteps, ThreadSteps
  <2> QED
    BY <2>1, <2>2 DEF TInv, Locals
<1>4. CASE StartGet(t)
  <2>1. TypeOK'
    <3>1. UNCHANGED db /\ dbErrors' \in 0 .. MaxDbErrors
      BY <1>0, <1>4, DbFailsTypes DEF StartGet, TypeOK
    <3> QED
      BY <1>0, <1>4, <3>1 DEF StartGet, TypeOK, Steps, ThreadSteps
  <2>2. \A q \in Procs : LocalsOf(q)'
    BY <1>0, <1>4 DEF StartGet, TypeOK, LocalsOf, SetSteps, ThreadSteps
  <2> QED
    BY <2>1, <2>2 DEF TInv, Locals
<1>5. CASE StartCall(t)
  <2>1. vmId[t] \in Ids
    BY <1>0, <1>5 DEF StartCall, LocalsOf, ThreadSteps
  <2>2. TypeOK'
    <3>1. /\ handler' \in [Ids -> {"idle", "accepted", "preparing", "launched"}]
          /\ UNCHANGED <<vm, stray, dirs, removing>>
      BY <1>0, <1>5, <2>1 DEF StartCall, TypeOK
    <3>2. pc' \in [Procs -> Steps] /\ goal' \in [Procs -> States \cup {None}]
      BY <1>0, <1>5 DEF StartCall, TypeOK, Steps, ThreadSteps
    <3>3. rpcErrors' \in 0 .. MaxRpcErrors
      BY <1>0, <1>5, RpcFailsTypes DEF StartCall
    <3> QED
      BY <1>0, <1>5, <3>1, <3>2, <3>3 DEF StartCall, TypeOK
  <2>3. \A q \in Procs : LocalsOf(q)'
    BY <1>0, <1>5, <2>1 DEF StartCall, TypeOK, LocalsOf, SetSteps, ThreadSteps
  <2> QED
    BY <2>2, <2>3 DEF TInv, Locals
<1>6. CASE GiveUp(t)
  <2>1. TypeOK'
    BY <1>0, <1>6, RpcFailsTypes DEF GiveUp, TypeOK, Steps, ThreadSteps
  <2>2. \A q \in Procs : LocalsOf(q)'
    BY <1>0, <1>6 DEF GiveUp, TypeOK, LocalsOf, SetSteps, ThreadSteps
  <2> QED
    BY <2>1, <2>2 DEF TInv, Locals
<1>7. CASE RemoveDelete(t)
  <2>1. vmId[t] \in Ids
    BY <1>0, <1>7 DEF RemoveDelete, LocalsOf, ThreadSteps
  <2>2. db' \in [Ids -> Records \cup {None}] /\ dbErrors' \in 0 .. MaxDbErrors
    <3>1. CASE Erase(vmId[t]) /\ UNCHANGED dbErrors
      BY <1>0, <2>1, <3>1 DEF Erase, Table!Delete, TypeOK
    <3>2. CASE UNCHANGED <<db, dbErrors>> \/ DbFails
      BY <1>0, <3>2, DbFailsTypes DEF TypeOK
    <3> QED
      BY <1>7, <3>1, <3>2 DEF RemoveDelete
  <2>3. TypeOK'
    <3>1. unclean' \subseteq Ids
      BY <1>0, <1>7, <2>1 DEF RemoveDelete, TypeOK
    <3> QED
      BY <1>0, <1>7, <2>2, <3>1 DEF RemoveDelete, TypeOK, Steps, ThreadSteps
  <2>4. \A q \in Procs : LocalsOf(q)'
    BY <1>0, <1>7, <2>1 DEF RemoveDelete, TypeOK, LocalsOf, SetSteps, ThreadSteps
  <2> QED
    BY <2>3, <2>4 DEF TInv, Locals
<1>8. CASE RemoveCall(t)
  <2>1. TypeOK'
    <3>1. vmId[t] \in Ids
      BY <1>0, <1>8 DEF RemoveCall, LocalsOf, ThreadSteps
    <3>2. /\ removing' \in [Ids -> Nat]
          /\ unclean' \subseteq Ids
          /\ UNCHANGED <<vm, stray, dirs, handler>>
      BY <1>0, <1>8, <3>1 DEF RemoveCall, TypeOK
    <3>3. rpcErrors' \in 0 .. MaxRpcErrors
      BY <1>0, <1>8, RpcFailsTypes DEF RemoveCall
    <3>4. pc' \in [Procs -> Steps]
      BY <1>0, <1>8 DEF RemoveCall, TypeOK, Steps, ThreadSteps
    <3> QED
      BY <1>0, <1>8, <3>2, <3>3, <3>4 DEF RemoveCall, TypeOK
  <2>2. \A q \in Procs : LocalsOf(q)'
    BY <1>0, <1>8 DEF RemoveCall, TypeOK, LocalsOf, SetSteps, ThreadSteps
  <2> QED
    BY <2>1, <2>2 DEF TInv, Locals
<1>9. CASE RemovePublish(t)
  <2>1. TypeOK'
    BY <1>0, <1>9 DEF RemovePublish, TypeOK, Steps
  <2>2. \A q \in Procs : LocalsOf(q)'
    BY <1>0, <1>9 DEF RemovePublish, TypeOK, LocalsOf, SetSteps, ThreadSteps
  <2> QED
    BY <2>1, <2>2 DEF TInv, Locals
<1>10. CASE RemoveGiveUp(t)
  <2>1. TypeOK'
    BY <1>0, <1>10, RpcFailsTypes DEF RemoveGiveUp, TypeOK, Steps, ThreadSteps
  <2>2. \A q \in Procs : LocalsOf(q)'
    BY <1>0, <1>10 DEF RemoveGiveUp, TypeOK, LocalsOf, SetSteps, ThreadSteps
  <2> QED
    BY <2>1, <2>2 DEF TInv, Locals
<1> QED
  BY <1>1, <1>2, <1>3, <1>4, <1>5, <1>6, <1>7, <1>8, <1>9, <1>10 DEF Request

\* The steps of the poller and of Info("") outside setInstanceState.
LEMMA ReconcilerStepTypes ==
    ASSUME TInv, NEW p \in Reconcilers,
           List(p) \/ QemuList(p) \/ Reconcile(p) \/ Publish(p)
    PROVE  TInv'
<1> USE ControllerAssumption, StateFacts
    DEF Goto, SetState, qemuVars, listVars, bounds
<1>0. /\ TypeOK /\ LocalsOf(p) /\ (\A q \in Procs : LocalsOf(q)) /\ p \in Procs
  BY DEF TInv, Locals, Procs
<1>1. CASE List(p)
  <2>1. TypeOK'
    <3>1. UNCHANGED db /\ dbErrors' \in 0 .. MaxDbErrors
      BY <1>0, <1>1, DbFailsTypes DEF List, TypeOK
    <3> QED
      <4>1. snap' = [snap EXCEPT ![p] = db] \/ snap' = snap
        BY <1>1 DEF List
      <4>2. snap' \in [Reconcilers -> [Ids -> Records \cup {None}]]
        BY <1>0, <4>1, Zenon DEF TypeOK
      <4>3. pc' \in [Procs -> Steps]
        BY <1>0, <1>1 DEF List, TypeOK, Steps, ReconcilerSteps
      <4> QED
        BY <1>0, <1>1, <3>1, <4>2, <4>3 DEF List, TypeOK
  <2>2. \A q \in Procs : LocalsOf(q)'
    BY <1>0, <1>1 DEF List, TypeOK, LocalsOf, SetSteps, ThreadSteps
  <2> QED
    BY <2>1, <2>2 DEF TInv, Locals
<1>2. CASE QemuList(p)
  <2>1. TypeOK'
    <3>1. listed' \in [Reconcilers -> SUBSET Ids]
      <4>1. vm \in SUBSET Ids
        BY <1>0 DEF TypeOK
      <4> QED
        BY <1>0, <1>2, <4>1 DEF QemuList, TypeOK
    <3>2. pc' \in [Procs -> Steps]
      BY <1>0, <1>2 DEF QemuList, TypeOK, Steps, ReconcilerSteps
    <3>3. rpcErrors' \in 0 .. MaxRpcErrors
      BY <1>0, <1>2, RpcFailsTypes DEF QemuList
    <3> QED
      BY <1>0, <1>2, <3>1, <3>2, <3>3 DEF QemuList, TypeOK
  <2>2. \A q \in Procs : LocalsOf(q)'
    BY <1>0, <1>2 DEF QemuList, TypeOK, LocalsOf, SetSteps, ThreadSteps
  <2> QED
    BY <2>1, <2>2 DEF TInv, Locals
<1>3. CASE Reconcile(p)
  <2>1. ASSUME NEW i \in Mismatched(p), Correct(p, i) PROVE TInv'
    <3>1. i \in Ids /\ snap[p][i] \in Records
      BY <1>0, <2>1 DEF Mismatched, TypeOK
    <3>2. PICK s \in {"RUNNING", "STOPPED"} :
             /\ snap' = [snap EXCEPT ![p][i].state = s]
             /\ vmId' = [vmId EXCEPT ![p] = i]
             /\ pc' = [pc EXCEPT ![p] = "set_get"]
             /\ goal' = [goal EXCEPT ![p] = s]
      BY <2>1 DEF Correct
    <3>3. snap' \in [Reconcilers -> [Ids -> Records \cup {None}]]
      BY <1>0, <3>1, <3>2 DEF TypeOK
    <3>4. TypeOK'
      BY <1>0, <1>3, <3>1, <3>2, <3>3 DEF Reconcile, TypeOK, Steps
    <3>5. \A q \in Procs : LocalsOf(q)'
      BY <1>0, <1>3, <3>1, <3>2
      DEF Reconcile, TypeOK, LocalsOf, SetSteps, ThreadSteps
    <3> QED
      BY <3>4, <3>5 DEF TInv, Locals
  <2>2. ASSUME pc' = [pc EXCEPT ![p] = "publish"], UNCHANGED <<snap, vmId, goal>>
        PROVE  TInv'
    <3>1. TypeOK'
      BY <1>0, <1>3, <2>2 DEF Reconcile, TypeOK, Steps, ReconcilerSteps
    <3>2. \A q \in Procs : LocalsOf(q)'
      BY <1>0, <1>3, <2>2 DEF Reconcile, TypeOK, LocalsOf, SetSteps, ThreadSteps
    <3> QED
      BY <3>1, <3>2 DEF TInv, Locals
  <2> QED
    BY <1>3, <2>1, <2>2 DEF Reconcile
<1>4. CASE Publish(p)
  <2>1. \A i \in Ids : StateIn(snap[p], i) \in States \cup {None}
    BY <1>0 DEF TypeOK, StateIn
  <2>2. cache' \in [Ids -> States \cup {None}]
    BY <1>0, <1>4, <2>1 DEF Publish, Published, TypeOK
  <2>3. TypeOK'
    BY <1>0, <1>4, <2>2 DEF Publish, TypeOK, Steps
  <2>4. \A q \in Procs : LocalsOf(q)'
    BY <1>0, <1>4 DEF Publish, TypeOK, LocalsOf, SetSteps, ThreadSteps
  <2> QED
    BY <2>3, <2>4 DEF TInv, Locals
<1> QED
  BY <1>1, <1>2, <1>3, <1>4

\* The QEMU service's handler, the processes and the restarts.
LEMMA EnvironmentStepTypes ==
    ASSUME TInv,
           \/ \E i \in Ids : Handle(i) \/ VmExit(i)
           \/ ControllerRestart
           \/ QemuRestart
           \/ UNCHANGED vars
    PROVE  TInv'
<1> USE ControllerAssumption, StateFacts
    DEF qemuVars, listVars, procVars, bounds, Service!MakeDir, Service!Launch,
        Service!Reply, Service!Fail, Service!Exit, Service!Restart, Service!Move
<1>0. TypeOK /\ (\A q \in Procs : LocalsOf(q))
  BY DEF TInv, Locals
<1>1. ASSUME NEW i \in Ids, Launch(i) \/ VmExit(i) PROVE TInv'
  <2>1. TypeOK'
    BY <1>0, <1>1 DEF Launch, VmExit, TypeOK
  <2>2. UNCHANGED <<pc, vmId, rec, goal>>
    BY <1>1 DEF Launch, VmExit
  <2> QED
    BY <1>0, <2>1, <2>2 DEF TInv, Locals, LocalsOf
<1>2. ASSUME NEW i \in Ids, LaunchReply(i) \/ LaunchFail(i) PROVE TInv'
  <2>1. PICK s \in {"RUNNING", "STOPPED"} : Answer(i, s)
    BY <1>2 DEF LaunchReply, LaunchFail
  <2>2. TypeOK'
    <3>1. pc' \in [Procs -> Steps] /\ goal' \in [Procs -> States \cup {None}]
      BY <1>0, <2>1 DEF Answer, TypeOK, Steps
    <3>2. handler' \in [Ids -> {"idle", "accepted", "preparing", "launched"}]
      BY <1>0, <1>2 DEF LaunchReply, LaunchFail, TypeOK
    <3> QED
      BY <1>0, <1>2, <3>1, <3>2 DEF LaunchReply, LaunchFail, TypeOK
  <2>3. UNCHANGED <<vmId, rec>>
    BY <1>2 DEF LaunchReply, LaunchFail
  <2>4. \A q \in Procs : LocalsOf(q)'
    BY <1>0, <2>1, <2>3
    DEF Answer, TypeOK, LocalsOf, SetSteps, ThreadSteps, Procs
  <2> QED
    BY <2>2, <2>4 DEF TInv, Locals
<1>3. CASE ControllerRestart
  <2>1. TypeOK'
    BY <1>0, <1>3 DEF ControllerRestart, Pending, TypeOK, Steps
  <2>2. \A q \in Procs : LocalsOf(q)'
    BY <1>0, <1>3 DEF ControllerRestart, LocalsOf, SetSteps, ThreadSteps
  <2> QED
    BY <2>1, <2>2 DEF TInv, Locals
<1>4. CASE QemuRestart
  <2>1. TypeOK'
    <3>1. /\ handler' \in [Ids -> {"idle", "accepted", "preparing", "launched"}]
          /\ removing' \in [Ids -> Nat]
          /\ unclean' \subseteq Ids
          /\ crashes' \in 0 .. MaxCrashes
      BY <1>0, <1>4 DEF QemuRestart, TypeOK
    <3>2. pc' \in [Procs -> Steps] /\ goal' \in [Procs -> States \cup {None}]
      BY <1>0, <1>4 DEF QemuRestart, TypeOK, Steps, ThreadSteps
    <3> QED
      BY <1>0, <1>4, <3>1, <3>2 DEF QemuRestart, TypeOK
  <2>2. \A q \in Procs : LocalsOf(q)'
    BY <1>0, <1>4 DEF QemuRestart, TypeOK, LocalsOf, SetSteps, ThreadSteps, Procs
  <2> QED
    BY <2>1, <2>2 DEF TInv, Locals
<1>5. CASE UNCHANGED vars
  BY <1>0, <1>5 DEF vars, TypeOK, TInv, Locals, LocalsOf
<1>6. ASSUME NEW i \in Ids, RemoveReply(i) PROVE TInv'
  <2>1. /\ vm' \subseteq Ids /\ stray' \subseteq Ids /\ dirs' \subseteq Ids
        /\ removing' \in [Ids -> Nat]
        /\ unclean' \subseteq Ids
        /\ UNCHANGED handler
    BY <1>0, <1>6 DEF RemoveReply, Service!RemoveDelete, Service!RemoveFail, TypeOK
  <2>2. rpcErrors' \in 0 .. MaxRpcErrors
    BY <1>0, <1>6, RpcFailsTypes DEF RemoveReply
  <2>3. UNCHANGED <<vmId, rec, goal>>
    BY <1>6 DEF RemoveReply
  <2>4. \/ UNCHANGED pc
        \/ \E t \in Threads : pc[t] = "removing" /\ Goto(t, "remove_pub")
    BY <1>6 DEF RemoveReply
  <2>5. pc' \in [Procs -> Steps]
    BY <1>0, <2>4 DEF TypeOK, Goto, Steps, ThreadSteps
  <2>6. TypeOK'
    BY <1>0, <1>6, <2>1, <2>2, <2>3, <2>5 DEF RemoveReply, TypeOK
  <2>7. \A q \in Procs : LocalsOf(q)'
    BY <1>0, <2>3, <2>4
    DEF Goto, TypeOK, LocalsOf, SetSteps, ThreadSteps, Procs
  <2> QED
    BY <2>6, <2>7 DEF TInv, Locals
<1> QED
  BY <1>1, <1>2, <1>3, <1>4, <1>5, <1>6 DEF Handle

LEMMA NextTInv == TInv /\ [Next]_vars => TInv'
<1> SUFFICES ASSUME TInv, [Next]_vars PROVE TInv'
  OBVIOUS
<1>1. ASSUME NEW t \in Threads, Request(t) \/ Serve(t) PROVE TInv'
  BY <1>1, ThreadStepTypes, SetStepTypes DEF Serve, Procs
<1>2. ASSUME NEW p \in Reconcilers, Poll(p) PROVE TInv'
  BY <1>2, ReconcilerStepTypes, SetStepTypes DEF Poll, Procs
<1> QED
  BY <1>1, <1>2, EnvironmentStepTypes DEF Next

\* Type correctness of the node controller.
THEOREM ControllerTypeCorrect == Spec => []TypeOK
<1>1. Init => TInv
  BY InitTInv
<1>2. TInv /\ [Next]_vars => TInv'
  BY NextTInv
<1>3. TInv => TypeOK
  BY DEF TInv
<1> QED
  BY <1>1, <1>2, <1>3, PTL DEF Spec

-----------------------------------------------------------------------------
(* The database is used as the atomic table *)

\* Steps that do not call the database to write.
LEMMA ReadOnlySteps ==
    ASSUME [Next]_vars
    PROVE  \/ UNCHANGED db
           \/ \E p \in Procs : SetPut(p)
           \/ \E t \in Threads : CreatePut(t) \/ RemoveDelete(t)
<1>1. ASSUME NEW t \in Threads, Request(t), ~UNCHANGED db PROVE FALSE
  BY <1>1 DEF Request, CreateGet, StartRequest, RemoveGet, DbFails
<1>2. ASSUME NEW t \in Threads, Serve(t), ~UNCHANGED db
      PROVE  CreatePut(t) \/ RemoveDelete(t) \/ SetPut(t)
  BY <1>2
  DEF Serve, CreatePublish, StartGet, StartCall, GiveUp, RemoveCall, RemoveGiveUp,
      RemovePublish, SetGet, DbFails
<1>3. ASSUME NEW p \in Reconcilers, Poll(p), ~UNCHANGED db PROVE SetPut(p)
  BY <1>3 DEF Poll, List, QemuList, Reconcile, Publish, SetGet, DbFails
<1>4. ASSUME NEW i \in Ids, Handle(i) \/ VmExit(i), ~UNCHANGED db PROVE FALSE
  BY <1>4 DEF Handle, Launch, LaunchReply, LaunchFail, RemoveReply, VmExit
<1>5. ASSUME ControllerRestart \/ QemuRestart, ~UNCHANGED db PROVE FALSE
  BY <1>5 DEF ControllerRestart, QemuRestart
<1>6. UNCHANGED vars => UNCHANGED db
  BY DEF vars
<1> QED
  BY <1>1, <1>2, <1>3, <1>4, <1>5, <1>6 DEF Next, Procs

\* Whatever SetPut tries to store is a record, for an instance.
LEMMA SetPutRecord ==
    ASSUME TInv, NEW p \in Procs, SetPut(p)
    PROVE  vmId[p] \in Ids /\ [rec[p] EXCEPT !.state = goal[p]] \in Records
<1> USE StateFacts
<1>1. LocalsOf(p) /\ pc[p] = "set_put"
  BY DEF TInv, Locals, SetPut
<1> QED
  BY <1>1 DEF LocalsOf, SetSteps

LEMMA StepUsesTable ==
    ASSUME TInv, [Next]_vars
    PROVE  [Table!Next]_db
<1>0. TypeOK
  BY DEF TInv
<1>1. ASSUME NEW p \in Procs, SetPut(p) PROVE [Table!Next]_db
  BY <1>0, <1>1, SetPutRecord, StoreTypes DEF SetPut, Table!Next, Records
<1>2. ASSUME NEW t \in Threads, CreatePut(t) PROVE [Table!Next]_db
  <2>1. vmId[t] \in Ids
    BY <1>2 DEF TInv, Locals, LocalsOf, Procs, CreatePut, ThreadSteps
  <2>2. PICK m \in Macs :
           LET r == [mac |-> m, state |-> "STOPPED"]
           IN  Store(vmId[t], r) \/ StoreFails(vmId[t], r)
    BY <1>2 DEF CreatePut
  <2>3. [mac |-> m, state |-> "STOPPED"] \in Records
    BY StateFacts
  <2> QED
    BY <1>0, <2>1, <2>2, <2>3, StoreTypes DEF Table!Next, Records
<1>3. ASSUME NEW t \in Threads, RemoveDelete(t) PROVE [Table!Next]_db
  <2>1. vmId[t] \in Ids
    BY <1>3 DEF TInv, Locals, LocalsOf, Procs, RemoveDelete, ThreadSteps
  <2> QED
    BY <1>3, <2>1 DEF RemoveDelete, DbFails, Erase, Table!Next
<1> QED
  BY <1>1, <1>2, <1>3, ReadOnlySteps

-----------------------------------------------------------------------------
(* A STARTING record has a goroutine that will settle it *)

\* Where the owner of a start can be.
OwnerSteps == {"call", "waiting", "set_get", "set_put"}

\* Only goroutine p moves.
OnlyMoves(p) ==
    \A q \in Procs \ {p} : UNCHANGED <<pc[q], vmId[q], rec[q], goal[q]>>

\* A step of the table keeps addresses unique.
LEMMA TableKeepsMacs ==
    ASSUME TypeOK, TypeOK', MacsUnique, [Table!Next]_db
    PROVE  MacsUnique'
<1>1. CASE UNCHANGED db
  BY <1>1 DEF MacsUnique
<1>2. ASSUME NEW i \in Ids, Table!Delete(i) PROVE MacsUnique'
  BY <1>2 DEF Table!Delete, MacsUnique, TypeOK
<1>3. ASSUME NEW i \in Ids, NEW r \in Table!Records, Table!Put(i, r)
      PROVE  MacsUnique'
  BY <1>3 DEF Table!Put, Table!MacFree, Table!Present, MacsUnique, TypeOK
<1> QED
  BY <1>1, <1>2, <1>3 DEF Table!Next

\* An owner that does not move stays one while the record stays.
LEMMA OwnerStays ==
    ASSUME NEW t, NEW i \in Ids, SafeOwner(t, i), db'[i] = db[i],
           UNCHANGED <<pc[t], vmId[t], rec[t], goal[t]>>
    PROVE  SafeOwner(t, i)'
  BY DEF SafeOwner, OwnsStart

\* Restarts and failures are counted, never forgotten.
LEMMA CountersGrow ==
    ASSUME TypeOK, [Next]_vars, crashes' = 0, dbErrors' = 0
    PROVE  crashes = 0 /\ dbErrors = 0 /\ ~ControllerRestart /\ ~QemuRestart /\ ~DbFails
<1>0. crashes \in Nat /\ dbErrors \in Nat
  BY ControllerAssumption DEF TypeOK
<1>1. ~ControllerRestart /\ ~QemuRestart /\ ~DbFails
  BY <1>0 DEF ControllerRestart, QemuRestart, DbFails
<1>2. ASSUME NEW t \in Threads, Request(t) \/ Serve(t)
      PROVE  UNCHANGED <<crashes, dbErrors>>
  BY <1>1, <1>2
  DEF Request, Serve, CreateGet, StartRequest, RemoveGet, CreatePut, CreatePublish,
      StartGet, StartCall, GiveUp, RemoveDelete, RemoveCall, RemoveGiveUp,
      RemovePublish, SetGet, SetPut, Store, StoreFails, bounds
<1>3. ASSUME NEW p \in Reconcilers, Poll(p) PROVE UNCHANGED <<crashes, dbErrors>>
  BY <1>1, <1>3
  DEF Poll, List, QemuList, Reconcile, Publish, SetGet, SetPut, Store, StoreFails, bounds
<1>4. ASSUME NEW i \in Ids, Handle(i) \/ VmExit(i) PROVE UNCHANGED <<crashes, dbErrors>>
  BY <1>4 DEF Handle, Launch, LaunchReply, LaunchFail, RemoveReply, VmExit, bounds
<1>5. UNCHANGED vars => UNCHANGED <<crashes, dbErrors>>
  BY DEF vars
<1> QED
  BY <1>1, <1>2, <1>3, <1>4, <1>5 DEF Next

\* Steps of a goroutine that owns no start and writes no record.
LEMMA BystanderSteps ==
    ASSUME TypeOK, NEW p \in Procs,
           \/ p \in Threads /\ \/ Request(p) \/ CreatePublish(p) \/ StartGet(p)
                               \/ RemoveCall(p) \/ RemoveGiveUp(p) \/ RemovePublish(p)
           \/ p \in Reconcilers /\ (List(p) \/ QemuList(p) \/ Reconcile(p) \/ Publish(p))
    PROVE  UNCHANGED db /\ OnlyMoves(p) /\ pc[p] \notin OwnerSteps
<1> USE DEF Goto, Finish, SetState, OnlyMoves, OwnerSteps, TypeOK, DbFails
<1>1. CASE p \in Threads /\ (CreatePublish(p) \/ StartGet(p))
  BY <1>1 DEF CreatePublish, StartGet
<1>2. CASE p \in Threads /\ (RemoveCall(p) \/ RemoveGiveUp(p) \/ RemovePublish(p))
  BY <1>2 DEF RemoveCall, RemoveGiveUp, RemovePublish
<1>3. CASE p \in Threads /\ Request(p)
  BY <1>3 DEF Request, CreateGet, StartRequest, RemoveGet, Accept
<1>4. CASE p \in Reconcilers /\ (List(p) \/ QemuList(p) \/ Publish(p))
  BY <1>4 DEF List, QemuList, Publish
<1>5. CASE p \in Reconcilers /\ Reconcile(p)
  BY <1>5 DEF Reconcile, Correct
<1> QED
  BY <1>1, <1>2, <1>3, <1>4, <1>5

\* A bystander's step leaves every owner alone.
LEMMA BystandersKeepOwners ==
    ASSUME UNCHANGED db, NEW p \in Procs, OnlyMoves(p), pc[p] \notin OwnerSteps,
           NEW t \in Threads, NEW i \in Ids, SafeOwner(t, i)
    PROVE  SafeOwner(t, i)'
<1>1. t # p /\ t \in Procs
  BY DEF SafeOwner, OwnsStart, OwnerSteps, Procs
<1>2. UNCHANGED <<pc[t], vmId[t], rec[t], goal[t]>>
  BY <1>1 DEF OnlyMoves
<1> QED
  BY <1>2, OwnerStays

\* setInstanceState writes a record, or reads it, without losing the owner.
LEMMA SetStepsKeepOwners ==
    ASSUME TInv, MacsUnique, NEW p \in Procs, SetGet(p) \/ SetPut(p),
           NEW i \in Ids, db'[i] # None, db'[i].state = "STARTING", ~DbFails,
           db[i] # None /\ db[i].state = "STARTING"
              => \E t \in Threads : SafeOwner(t, i)
    PROVE  \E t \in Threads : SafeOwner(t, i)'
<1> USE ControllerAssumption, StateFacts
<1>0. /\ TypeOK /\ LocalsOf(p) /\ vmId[p] \in Ids /\ goal[p] \in States
      /\ p \in Threads \/ p \in Reconcilers
  BY DEF TInv, Locals, LocalsOf, SetGet, SetPut, SetSteps, Procs
<1>1. OnlyMoves(p)
  BY <1>0 DEF SetGet, SetPut, AfterSet, Goto, OnlyMoves, TypeOK
<1>2. ASSUME NEW t \in Threads, SafeOwner(t, i), t # p, db'[i] = db[i]
      PROVE  SafeOwner(t, i)'
  BY <1>1, <1>2, OwnerStays DEF OnlyMoves, Procs
<1>3. CASE SetGet(p)
  <2>1. UNCHANGED db
    BY <1>3 DEF SetGet, DbFails
  <2>2. PICK t \in Threads : SafeOwner(t, i)
    BY <2>1
  <2>3. CASE t = p
    <3>1. pc[p] = "set_get" /\ vmId[p] = i /\ goal[p] # "STARTING"
      BY <1>3, <2>2, <2>3 DEF SetGet, SafeOwner, OwnsStart
    <3>2. db[i] # None /\ db[i].state # goal[p]
      BY <2>1, <3>1
    <3>3. /\ rec' = [rec EXCEPT ![p] = db[i]]
          /\ pc' = [pc EXCEPT ![p] = "set_put"]
          /\ UNCHANGED <<vmId, goal>>
      BY <1>0, <1>3, <3>1, <3>2 DEF SetGet, StateIn, Goto
    <3>4. SafeOwner(p, i)'
      BY <1>0, <2>1, <3>1, <3>3 DEF SafeOwner, OwnsStart, TypeOK
    <3> QED
      BY <2>3, <3>4
  <2> QED
    BY <1>2, <2>1, <2>2, <2>3
<1>4. CASE SetPut(p)
  <2> DEFINE r == [rec[p] EXCEPT !.state = goal[p]]
  <2>1. pc[p] = "set_put" /\ AfterSet(p) /\ (Store(vmId[p], r) \/ StoreFails(vmId[p], r))
    BY <1>4 DEF SetPut
  <2>2. rec[p] \in Records /\ r.mac = rec[p].mac /\ r.state = goal[p]
    BY <1>0, <2>1 DEF LocalsOf
  <2>3. CASE Store(vmId[p], r) /\ vmId[p] = i
    <3>1. db'[i] = r
      BY <1>0, <2>3 DEF Store, Table!Put, TypeOK
    <3>2. goal[p] = "STARTING"
      BY <2>2, <3>1
    <3>3. p \in Threads /\ p \notin Reconcilers
      BY <1>0, <2>1, <3>2 DEF LocalsOf, SetSteps
    <3>4. pc'[p] = "call" /\ vmId'[p] = i
      BY <1>0, <2>1, <2>3, <3>2, <3>3 DEF AfterSet, Goto, TypeOK
    <3> QED
      BY <3>3, <3>4 DEF SafeOwner, OwnsStart
  <2>4. CASE Store(vmId[p], r) /\ vmId[p] # i
    <3>1. db'[i] = db[i]
      BY <1>0, <2>4 DEF Store, Table!Put, TypeOK
    <3>2. PICK t \in Threads : SafeOwner(t, i)
      BY <3>1
    <3>3. t # p
      BY <2>4, <3>2 DEF SafeOwner, OwnsStart
    <3> QED
      BY <1>2, <3>1, <3>2, <3>3
  <2>5. CASE StoreFails(vmId[p], r)
    <3>1. UNCHANGED db /\ ~Table!MacFree(rec[p].mac, vmId[p])
      BY <2>2, <2>5 DEF StoreFails
    <3>2. PICK t \in Threads : SafeOwner(t, i)
      BY <3>1
    <3>3. t # p
      <4>1. SUFFICES ASSUME t = p PROVE FALSE
        OBVIOUS
      <4>2. vmId[p] = i /\ rec[p].mac = db[i].mac
        BY <2>1, <3>2, <4>1 DEF SafeOwner, OwnsStart
      <4>3. Table!MacFree(rec[p].mac, vmId[p])
        BY <3>1, <4>2 DEF MacsUnique, Table!MacFree, Table!Present
      <4> QED
        BY <3>1, <4>3
    <3> QED
      BY <1>2, <3>1, <3>2, <3>3
  <2> QED
    BY <2>1, <2>3, <2>4, <2>5
<1> QED
  BY <1>3, <1>4

\* Create and Remove move no owner, and what they write is not STARTING.
LEMMA WritersKeepOwners ==
    ASSUME TInv, NEW p \in Threads, CreatePut(p) \/ RemoveDelete(p),
           NEW i \in Ids, db'[i] # None, db'[i].state = "STARTING",
           db[i] # None /\ db[i].state = "STARTING"
              => \E t \in Threads : SafeOwner(t, i)
    PROVE  \E t \in Threads : SafeOwner(t, i)'
<1> USE ControllerAssumption, StateFacts
<1>0. TypeOK /\ p \in Procs /\ vmId[p] \in Ids
  BY DEF TInv, Locals, LocalsOf, CreatePut, RemoveDelete, ThreadSteps, Procs
<1>1. pc[p] \notin OwnerSteps
  BY DEF CreatePut, RemoveDelete, OwnerSteps
<1>2. OnlyMoves(p)
  BY <1>0 DEF CreatePut, RemoveDelete, Finish, Goto, OnlyMoves, TypeOK
<1>3. db'[i] = db[i]
  <2>1. CASE CreatePut(p)
    <3>1. PICK m \in Macs :
             LET r == [mac |-> m, state |-> "STOPPED"]
             IN  Store(vmId[p], r) \/ StoreFails(vmId[p], r)
      BY <2>1 DEF CreatePut
    <3>2. CASE StoreFails(vmId[p], [mac |-> m, state |-> "STOPPED"])
      BY <3>2 DEF StoreFails, DbFails
    <3>3. CASE Store(vmId[p], [mac |-> m, state |-> "STOPPED"])
      BY <1>0, <3>3 DEF Store, Table!Put, TypeOK
    <3> QED
      BY <3>1, <3>2, <3>3
  <2>2. CASE RemoveDelete(p)
    BY <1>0, <2>2 DEF RemoveDelete, Erase, Table!Delete, DbFails, TypeOK
  <2> QED
    BY <2>1, <2>2
<1>4. PICK t \in Threads : SafeOwner(t, i)
  BY <1>3
<1>5. t # p /\ t \in Procs
  BY <1>1, <1>4 DEF SafeOwner, OwnsStart, OwnerSteps, Procs
<1> QED
  BY <1>2, <1>3, <1>4, <1>5, OwnerStays DEF OnlyMoves

\* The call to the QEMU service, and the caller giving up on it, keep the
\* caller the owner.
LEMMA CallsKeepOwners ==
    ASSUME TypeOK, NEW p \in Threads, StartCall(p) \/ GiveUp(p),
           NEW t \in Threads, NEW i \in Ids, SafeOwner(t, i)
    PROVE  SafeOwner(t, i)'
<1>0. p \in Procs /\ t \in Procs /\ UNCHANGED <<db, vmId, rec>>
  BY DEF Procs, StartCall, GiveUp
<1>1. CASE t = p
  <2>1. \/ pc'[t] = "waiting"
        \/ pc'[t] = "set_get" /\ goal'[t] = "STOPPED"
    BY <1>0, <1>1 DEF StartCall, GiveUp, SetState, Goto, TypeOK
  <2> QED
    BY <1>0, <2>1 DEF SafeOwner, OwnsStart
<1>2. CASE t # p
  <2>1. UNCHANGED <<pc[t], goal[t]>>
    BY <1>0, <1>2 DEF StartCall, GiveUp, SetState, Goto, TypeOK
  <2> QED
    BY <1>0, <2>1, OwnerStays
<1> QED
  BY <1>1, <1>2

\* The handler's answer turns a waiting owner into one that writes.
LEMMA HandlersKeepOwners ==
    ASSUME TypeOK, NEW j \in Ids, Handle(j) \/ VmExit(j),
           NEW t \in Threads, NEW i \in Ids, SafeOwner(t, i)
    PROVE  SafeOwner(t, i)'
<1>1. CASE Launch(j) \/ VmExit(j)
  BY <1>1 DEF Launch, VmExit, procVars, SafeOwner, OwnsStart
<1>2. CASE LaunchReply(j) \/ LaunchFail(j)
  <2>1. PICK s \in {"RUNNING", "STOPPED"} : Answer(j, s)
    BY <1>2 DEF LaunchReply, LaunchFail
  <2>2. UNCHANGED <<db, vmId, rec>> /\ t \in Procs
    BY <1>2 DEF LaunchReply, LaunchFail, Procs
  <2>3. \/ UNCHANGED <<pc[t], goal[t]>>
        \/ pc'[t] = "set_get" /\ goal'[t] # "STARTING"
    BY <2>1, <2>2 DEF Answer
  <2> QED
    BY <2>2, <2>3 DEF SafeOwner, OwnsStart
<1>3. CASE RemoveReply(j)
  <2>1. UNCHANGED <<db, vmId, rec, goal>> /\ t \in Procs
    BY <1>3 DEF RemoveReply, Procs
  <2>2. \/ UNCHANGED pc
        \/ \E q \in Threads : pc[q] = "removing" /\ Goto(q, "remove_pub")
    BY <1>3 DEF RemoveReply
  <2>3. UNCHANGED pc[t]
    BY <2>1, <2>2 DEF Goto, TypeOK, Procs, SafeOwner, OwnsStart
  <2> QED
    BY <2>1, <2>3 DEF SafeOwner, OwnsStart
<1> QED
  BY <1>1, <1>2, <1>3 DEF Handle

LEMMA NextStartingIsSafe ==
    ASSUME IInv, [Next]_vars
    PROVE  StartingIsSafe'
<1>0. TInv /\ TypeOK /\ MacsUnique
  BY DEF IInv, TInv
<1> SUFFICES ASSUME crashes' = 0, dbErrors' = 0,
                    NEW i \in Ids, db'[i] # None, db'[i].state = "STARTING"
             PROVE  \E t \in Threads : SafeOwner(t, i)'
  BY DEF StartingIsSafe
<1>1. crashes = 0 /\ dbErrors = 0 /\ ~ControllerRestart /\ ~QemuRestart /\ ~DbFails
  BY <1>0, CountersGrow
<1>2. db[i] # None /\ db[i].state = "STARTING" => \E t \in Threads : SafeOwner(t, i)
  BY <1>1 DEF IInv, StartingIsSafe
<1>3. ASSUME NEW p \in Procs, SetGet(p) \/ SetPut(p)
      PROVE  \E t \in Threads : SafeOwner(t, i)'
  BY <1>0, <1>1, <1>2, <1>3, SetStepsKeepOwners
<1>4. ASSUME NEW p \in Threads, CreatePut(p) \/ RemoveDelete(p)
      PROVE  \E t \in Threads : SafeOwner(t, i)'
  BY <1>0, <1>2, <1>4, WritersKeepOwners
<1>5. ASSUME NEW p \in Threads, StartCall(p) \/ GiveUp(p)
      PROVE  \E t \in Threads : SafeOwner(t, i)'
  <2>1. UNCHANGED db
    BY <1>5 DEF StartCall, GiveUp
  <2> QED
    BY <1>0, <1>2, <1>5, <2>1, CallsKeepOwners
<1>6. ASSUME NEW p \in Procs, UNCHANGED db, OnlyMoves(p), pc[p] \notin OwnerSteps
      PROVE  \E t \in Threads : SafeOwner(t, i)'
  BY <1>2, <1>6, BystandersKeepOwners
<1>7. ASSUME NEW p \in Threads, Request(p) \/ Serve(p)
      PROVE  \E t \in Threads : SafeOwner(t, i)'
  BY <1>0, <1>3, <1>4, <1>5, <1>6, <1>7, BystanderSteps DEF Serve, Procs
<1>8. ASSUME NEW p \in Reconcilers, Poll(p)
      PROVE  \E t \in Threads : SafeOwner(t, i)'
  BY <1>0, <1>3, <1>6, <1>8, BystanderSteps DEF Poll, Procs
<1>9. ASSUME NEW j \in Ids, Handle(j) \/ VmExit(j)
      PROVE  \E t \in Threads : SafeOwner(t, i)'
  <2>1. UNCHANGED db
    BY <1>9 DEF Handle, Launch, LaunchReply, LaunchFail, RemoveReply, VmExit
  <2> QED
    BY <1>0, <1>2, <1>9, <2>1, HandlersKeepOwners
<1>10. CASE UNCHANGED vars
  BY <1>2, <1>10 DEF vars, SafeOwner, OwnsStart
<1> QED
  BY <1>1, <1>7, <1>8, <1>9, <1>10 DEF Next

LEMMA InitIInv == Init => IInv
<1> SUFFICES ASSUME Init PROVE IInv
  OBVIOUS
<1>1. MacsUnique
  BY DEF Init, Found, MacsUnique
<1>2. \A i \in Ids : db[i] = None \/ db[i].state = "STOPPED"
  BY DEF Init, Found
<1> QED
  BY <1>1, <1>2, InitTInv DEF IInv, StartingIsSafe

LEMMA NextIInv == IInv /\ [Next]_vars => IInv'
<1> SUFFICES ASSUME IInv, [Next]_vars PROVE IInv'
  OBVIOUS
<1>1. TInv'
  BY NextTInv DEF IInv
<1>2. MacsUnique'
  BY <1>1, StepUsesTable, TableKeepsMacs DEF IInv, TInv
<1>3. StartingIsSafe'
  BY NextStartingIsSafe
<1> QED
  BY <1>1, <1>2, <1>3 DEF IInv

\* As long as nothing crashes and no write fails, a record that says STARTING
\* has a goroutine that will still write how the start ended, for any number of
\* overlapping starts, removals and reconcilers.
THEOREM ControllerStartingIsOwned == Spec => []StartingIsOwned
<1>1. Init => IInv
  BY InitIInv
<1>2. IInv /\ [Next]_vars => IInv'
  BY NextIInv
<1>3. IInv => StartingIsOwned
  BY DEF IInv, StartingIsSafe, StartingIsOwned, SafeOwner
<1> QED
  BY <1>1, <1>2, <1>3, PTL DEF Spec

-----------------------------------------------------------------------------
(* What a removal leaves behind *)

LaunchSteps == {"set_get", "set_put", "call", "waiting"}

\* Nothing of instance i is left but a directory that is still to be deleted.
Clean(i) ==
    /\ AtRest(i)
    /\ i \in dirs => removing[i] > 0 \/ i \in Pending({"remove_rpc"})

CleanInv == \A i \in Ids : db[i] = None /\ i \notin unclean => Clean(i)

\* No goroutine begins to launch instance i, or forgets to clean up after it.
Keeps(i) ==
    \A t \in Threads :
        /\ vmId'[t] = i /\ pc'[t] \in LaunchSteps => vmId[t] = i /\ pc[t] \in LaunchSteps
        /\ vmId[t] = i /\ pc[t] = "remove_rpc" => vmId'[t] = i /\ pc'[t] = "remove_rpc"

\* Instance i stays clean while the QEMU service does nothing for it.
LEMMA CleanStays ==
    ASSUME NEW i \in Ids, Clean(i), Keeps(i),
           i \in (vm \cup stray)' => i \in vm \cup stray,
           i \in dirs' => i \in dirs,
           handler'[i] = handler[i], removing'[i] = removing[i]
    PROVE  Clean(i)'
  BY DEF Clean, Keeps, AtRest, Launching, Pending, LaunchSteps

\* Goroutines that neither call the QEMU service nor delete a record.
LEMMA CallersKeepClean ==
    ASSUME TInv, NEW i \in Ids, db[i] = None, NEW p \in Procs,
           \/ SetGet(p) \/ SetPut(p)
           \/ p \in Threads /\ \/ Request(p) \/ CreatePut(p) \/ CreatePublish(p)
                               \/ StartGet(p) \/ GiveUp(p) \/ RemoveGiveUp(p)
                               \/ RemovePublish(p)
           \/ p \in Reconcilers /\ (List(p) \/ QemuList(p) \/ Reconcile(p) \/ Publish(p))
    PROVE  /\ Keeps(i)
           /\ UNCHANGED <<vm, stray, dirs, handler, removing, unclean>>
<1> USE ControllerAssumption DEF Goto, Finish, SetState, qemuVars, bounds
<1>0. TypeOK /\ Threads \subseteq Procs /\ LocalsOf(p)
  BY DEF TInv, Locals, Procs
<1>1. CASE SetGet(p) \/ SetPut(p)
  <2>1. /\ pc[p] \in SetSteps /\ OnlyMoves(p)
        /\ UNCHANGED <<vm, stray, dirs, handler, removing, unclean>>
    BY <1>0, <1>1 DEF SetGet, SetPut, AfterSet, OnlyMoves, SetSteps, TypeOK
  <2>2. p \in Threads => \/ vmId'[p] = vmId[p]
                         \/ pc'[p] \notin LaunchSteps
    BY <1>0, <1>1 DEF SetGet, SetPut, AfterSet, LaunchSteps, TypeOK
  <2> QED
    BY <1>0, <2>1, <2>2 DEF Keeps, OnlyMoves, SetSteps, LaunchSteps
<1>2. CASE p \in Threads /\ (CreatePublish(p) \/ RemovePublish(p) \/ RemoveGiveUp(p))
  BY <1>0, <1>2
  DEF CreatePublish, RemovePublish, RemoveGiveUp, Keeps, LaunchSteps, TypeOK
<1>3. CASE p \in Threads /\ Request(p)
  BY <1>0, <1>3
  DEF Request, CreateGet, StartRequest, RemoveGet, Accept, Keeps, LaunchSteps, TypeOK
<1>4. CASE p \in Threads /\ CreatePut(p)
  BY <1>0, <1>4 DEF CreatePut, Keeps, LaunchSteps, TypeOK
<1>5. CASE p \in Threads /\ StartGet(p)
  BY <1>0, <1>5 DEF StartGet, MayStart, Stopped, Keeps, LaunchSteps, TypeOK
<1>6. CASE p \in Threads /\ GiveUp(p)
  BY <1>0, <1>6 DEF GiveUp, Keeps, LaunchSteps, TypeOK
<1>7. CASE p \in Reconcilers /\ (List(p) \/ QemuList(p) \/ Publish(p))
  BY <1>0, <1>7 DEF List, QemuList, Publish, Keeps, LaunchSteps, TypeOK
<1>8. CASE p \in Reconcilers /\ Reconcile(p)
  BY <1>0, <1>8 DEF Reconcile, Correct, Keeps, LaunchSteps, TypeOK
<1> QED
  BY <1>1, <1>2, <1>3, <1>4, <1>5, <1>6, <1>7, <1>8

\* A removal that leaves the instance out of unclean met it at rest.
LEMMA DeleteKeepsClean ==
    ASSUME TInv, CleanInv, NEW t \in Threads, RemoveDelete(t),
           NEW i \in Ids, db'[i] = None, i \notin unclean'
    PROVE  Clean(i)'
<1>0. /\ TypeOK /\ t \in Procs /\ vmId[t] \in Ids /\ pc[t] = "remove_del"
      /\ Threads \subseteq Procs
      /\ UNCHANGED <<vm, stray, dirs, handler, removing>>
  BY DEF TInv, Locals, LocalsOf, ThreadSteps, Procs, RemoveDelete, qemuVars
<1>1. pc'[t] \notin LaunchSteps /\ (\A q \in Procs \ {t} : UNCHANGED <<pc[q], vmId[q]>>)
  BY <1>0 DEF RemoveDelete, Goto, Finish, LaunchSteps, TypeOK
<1>2. Keeps(i)
  BY <1>0, <1>1 DEF Keeps
<1>3. CASE db[i] = None
  <2>1. i \notin unclean
    BY <1>3 DEF RemoveDelete
  <2> QED
    BY <1>0, <1>2, <1>3, <2>1, CleanStays DEF CleanInv
<1>4. CASE db[i] # None
  <2>1. Erase(vmId[t]) /\ vmId[t] = i
    BY <1>0, <1>4 DEF RemoveDelete, Erase, Table!Delete, DbFails, TypeOK
  <2>2. ~UNCHANGED db
    BY <1>4
  <2>3. /\ AtRest(i)
        /\ pc'[t] = "remove_rpc" /\ vmId'[t] = i
    BY <1>0, <2>1, <2>2 DEF RemoveDelete, DbFails, Goto, TypeOK
  <2>4. AtRest(i)'
    BY <1>0, <1>2, <2>3 DEF AtRest, Launching, Keeps, LaunchSteps
  <2> QED
    BY <2>3, <2>4 DEF Clean, Pending
<1> QED
  BY <1>3, <1>4

\* The calls to the QEMU service.
LEMMA CallsKeepClean ==
    ASSUME TInv, NEW t \in Threads, StartCall(t) \/ RemoveCall(t),
           NEW i \in Ids, i \notin unclean', Clean(i)
    PROVE  Clean(i)'
<1> USE DEF Service!Accept, Service!Move, Service!RemoveCheck, qemuVars
<1>0. /\ TypeOK /\ t \in Procs /\ vmId[t] \in Ids /\ Threads \subseteq Procs
      /\ UNCHANGED vmId
      /\ \A q \in Procs \ {t} : UNCHANGED pc[q]
  BY DEF TInv, Locals, LocalsOf, ThreadSteps, Procs, StartCall, RemoveCall, SetState,
         Goto, TypeOK
<1>1. CASE StartCall(t)
  <2>1. pc[t] = "call"
    BY <1>1 DEF StartCall
  <2>2. vmId[t] # i
    BY <2>1 DEF Clean, AtRest, Launching
  <2>3. Keeps(i)
    BY <1>0, <2>2 DEF Keeps
  <2>4. UNCHANGED <<vm, stray, dirs, removing>> /\ handler'[i] = handler[i]
    BY <1>0, <1>1, <2>2 DEF StartCall, TypeOK
  <2> QED
    BY <2>3, <2>4, CleanStays
<1>2. CASE RemoveCall(t)
  <2>1. pc[t] = "remove_rpc" /\ pc'[t] \in {"removing", "remove_pub"}
    BY <1>0, <1>2 DEF RemoveCall, Goto, TypeOK
  <2>2. UNCHANGED <<vm, stray, dirs, handler>>
    BY <1>2 DEF RemoveCall
  <2>3. CASE vmId[t] = i
    <3>1. removing'[i] = removing[i] + 1 /\ removing[i] \in Nat
      BY <1>0, <1>2, <2>3 DEF RemoveCall, TypeOK
    <3>2. AtRest(i)'
      BY <1>0, <2>1, <2>2 DEF Clean, AtRest, Launching
    <3> QED
      BY <3>1, <3>2 DEF Clean
  <2>4. CASE vmId[t] # i
    <3>1. Keeps(i)
      BY <1>0, <2>4 DEF Keeps
    <3>2. removing'[i] = removing[i]
      BY <1>0, <1>2, <2>4 DEF RemoveCall, TypeOK
    <3> QED
      BY <2>2, <3>1, <3>2, CleanStays
  <2> QED
    BY <2>3, <2>4
<1> QED
  BY <1>1, <1>2

\* The handlers of the QEMU service and the end of a process.
LEMMA HandlersKeepClean ==
    ASSUME TInv, CleanInv, NEW j \in Ids, Handle(j) \/ VmExit(j),
           NEW i \in Ids, db[i] = None, i \notin unclean'
    PROVE  Clean(i)'
<1> USE DEF Service!MakeDir, Service!Launch, Service!Reply, Service!Fail, Service!Exit,
            Service!RemoveDelete, Service!RemoveFail, Service!Move, qemuVars
<1>0. TypeOK /\ Threads \subseteq Procs
  BY DEF TInv, Procs
<1>1. CASE Launch(j) \/ VmExit(j)
  <2>1. /\ UNCHANGED <<unclean, pc, vmId, removing>>
        /\ Clean(i)
    BY <1>1 DEF Launch, VmExit, procVars, CleanInv
  <2>2. Keeps(i)
    BY <2>1 DEF Keeps
  <2>3. CASE Launch(j)
    <3>1. j # i
      BY <2>1, <2>3 DEF Launch, Clean, AtRest
    <3>2. /\ i \in vm' => i \in vm
          /\ i \in dirs' => i \in dirs
          /\ UNCHANGED stray /\ handler'[i] = handler[i]
      BY <1>0, <2>3, <3>1 DEF Launch, TypeOK
    <3> QED
      BY <2>1, <2>2, <3>2, CleanStays
  <2>4. CASE VmExit(j)
    <3>1. /\ i \in (vm \cup stray)' => i \in vm \cup stray
          /\ UNCHANGED <<dirs, handler>>
      BY <2>4 DEF VmExit
    <3> QED
      BY <2>1, <2>2, <3>1, CleanStays
  <2> QED
    BY <1>1, <2>3, <2>4
<1>2. CASE LaunchReply(j) \/ LaunchFail(j)
  <2>1. /\ UNCHANGED <<unclean, vmId, removing, vm, stray, dirs>>
        /\ Clean(i)
    BY <1>2 DEF LaunchReply, LaunchFail, bounds, CleanInv
  <2>2. j # i
    BY <1>2, <2>1 DEF LaunchReply, LaunchFail, Clean, AtRest
  <2>3. handler'[i] = handler[i]
    BY <1>0, <1>2, <2>2 DEF LaunchReply, LaunchFail, TypeOK
  <2>4. \A t \in Threads : vmId[t] = i => pc'[t] = pc[t]
    BY <1>0, <1>2, <2>2 DEF LaunchReply, LaunchFail, Answer
  <2>5. Keeps(i)
    BY <2>1, <2>4 DEF Keeps
  <2> QED
    BY <2>1, <2>3, <2>5, CleanStays
<1>3. CASE RemoveReply(j)
  <2>1. UNCHANGED vmId /\ UNCHANGED handler
    BY <1>3 DEF RemoveReply
  <2>2. \A t \in Threads : \/ pc'[t] = pc[t]
                           \/ pc[t] = "removing" /\ pc'[t] = "remove_pub"
    <3>1. \/ UNCHANGED pc
          \/ \E t \in Threads : pc[t] = "removing" /\ Goto(t, "remove_pub")
      BY <1>3 DEF RemoveReply
    <3>2. ASSUME NEW q \in Threads, pc[q] = "removing", Goto(q, "remove_pub"),
                 NEW t \in Threads
          PROVE  \/ pc'[t] = pc[t]
                 \/ pc[t] = "removing" /\ pc'[t] = "remove_pub"
      BY <1>0, <3>2 DEF Goto, TypeOK
    <3> QED
      BY <3>1, <3>2
  <2>3. Keeps(i)
    BY <2>1, <2>2 DEF Keeps, LaunchSteps
  <2>4. i \in (vm \cup stray)' => i \in vm \cup stray
    BY <1>3 DEF RemoveReply
  <2>5. CASE j # i
    <3>1. i \notin unclean /\ removing'[i] = removing[i] /\ (i \in dirs' => i \in dirs)
      BY <1>0, <1>3, <2>5 DEF RemoveReply, TypeOK
    <3> QED
      BY <2>1, <2>3, <2>4, <3>1, CleanStays DEF CleanInv
  <2>6. CASE j = i
    <3>1. Service!RemoveDelete(i) /\ unclean' = IF AtRest(i) THEN unclean \ {i} ELSE unclean
      BY <1>3, <2>6 DEF RemoveReply
    <3>2. AtRest(i)
      BY <3>1 DEF CleanInv, Clean
    <3>3. i \notin dirs'
      BY <3>1
    <3>4. AtRest(i)'
      BY <2>1, <2>3, <2>4, <3>2 DEF AtRest, Launching, Keeps, LaunchSteps
    <3> QED
      BY <3>3, <3>4 DEF Clean
  <2> QED
    BY <2>5, <2>6
<1> QED
  BY <1>1, <1>2, <1>3 DEF Handle

\* What a restart cuts short it counts.
LEMMA RestartsKeepClean ==
    ASSUME TInv, CleanInv, ControllerRestart \/ QemuRestart,
           NEW i \in Ids, db[i] = None, i \notin unclean'
    PROVE  Clean(i)'
<1>0. TypeOK /\ Threads \subseteq Procs
  BY DEF TInv, Procs
<1>1. i \notin unclean
  BY DEF ControllerRestart, QemuRestart
<1>2. Clean(i)
  BY <1>1 DEF CleanInv
<1>3. CASE ControllerRestart
  <2>1. i \notin Pending({"remove_rpc"}) /\ UNCHANGED <<vm, stray, dirs, handler, removing>>
    BY <1>3 DEF ControllerRestart, qemuVars
  <2>2. \A t \in Threads : pc'[t] = "idle"
    BY <1>0, <1>3 DEF ControllerRestart
  <2> QED
    BY <1>2, <2>1, <2>2 DEF Clean, AtRest, Launching
<1>4. CASE QemuRestart
  <2>1. /\ UNCHANGED <<vm, stray, dirs, vmId>>
        /\ handler'[i] = "idle"
        /\ ~(removing[i] > 0)
    BY <1>4 DEF QemuRestart, Service!Restart
  <2>2. \A t \in Threads : \/ pc[t] = "waiting" /\ pc'[t] = "set_get"
                           \/ pc[t] = "removing" /\ pc'[t] = "remove_pub"
                           \/ pc'[t] = pc[t]
    BY <1>0, <1>4 DEF QemuRestart
  <2>3. Keeps(i)
    BY <2>1, <2>2 DEF Keeps, LaunchSteps
  <2>4. AtRest(i)'
    BY <1>2, <2>1, <2>3 DEF Clean, AtRest, Launching, Keeps, LaunchSteps
  <2>5. i \in dirs' => i \in Pending({"remove_rpc"})'
    BY <1>2, <2>1, <2>3 DEF Clean, Pending, Keeps
  <2> QED
    BY <2>4, <2>5 DEF Clean
<1> QED
  BY <1>3, <1>4

\* Only a removal makes a record go.
LEMMA OnlyRemovalErases ==
    ASSUME TInv, [Next]_vars, NEW i \in Ids, db'[i] = None,
           \A t \in Threads : ~RemoveDelete(t)
    PROVE  db[i] = None
<1> USE ControllerAssumption
<1>0. TypeOK
  BY DEF TInv
<1>1. CASE UNCHANGED db
  BY <1>1
<1>2. ASSUME NEW j \in Ids, NEW r \in Records, Table!Put(j, r) PROVE db[i] = None
  BY <1>0, <1>2 DEF Table!Put, TypeOK
<1>3. ASSUME NEW p \in Procs, SetPut(p) PROVE db[i] = None
  BY <1>0, <1>1, <1>2, <1>3, SetPutRecord, StoreTypes DEF SetPut
<1>4. ASSUME NEW t \in Threads, CreatePut(t) PROVE db[i] = None
  <2>1. vmId[t] \in Ids
    BY <1>4 DEF TInv, Locals, LocalsOf, Procs, CreatePut, ThreadSteps
  <2>2. PICK m \in Macs :
           LET r == [mac |-> m, state |-> "STOPPED"]
           IN  Store(vmId[t], r) \/ StoreFails(vmId[t], r)
    BY <1>4 DEF CreatePut
  <2>3. [mac |-> m, state |-> "STOPPED"] \in Records
    BY StateFacts
  <2> QED
    BY <1>0, <1>1, <1>2, <2>1, <2>2, <2>3, StoreTypes
<1> QED
  BY <1>1, <1>3, <1>4, ReadOnlySteps

LEMMA NextCleanInv ==
    ASSUME TInv, CleanInv, [Next]_vars
    PROVE  CleanInv'
<1> SUFFICES ASSUME NEW i \in Ids, db'[i] = None, i \notin unclean' PROVE Clean(i)'
  BY DEF CleanInv
<1>1. ASSUME NEW t \in Threads, RemoveDelete(t) PROVE Clean(i)'
  BY <1>1, DeleteKeepsClean
<1>2. CASE \A t \in Threads : ~RemoveDelete(t)
  <2>1. db[i] = None
    BY <1>2, OnlyRemovalErases
  <2>2. ASSUME NEW p \in Procs, Keeps(i),
               UNCHANGED <<vm, stray, dirs, handler, removing, unclean>>
        PROVE  Clean(i)'
    BY <2>1, <2>2, CleanStays DEF CleanInv
  <2>3. ASSUME NEW t \in Threads, StartCall(t) \/ RemoveCall(t) PROVE Clean(i)'
    <3>1. i \notin unclean
      BY <2>3 DEF StartCall, RemoveCall
    <3> QED
      BY <2>1, <2>3, <3>1, CallsKeepClean DEF CleanInv
  <2>4. ASSUME NEW t \in Threads, Request(t) \/ Serve(t) PROVE Clean(i)'
    BY <1>2, <2>1, <2>2, <2>3, <2>4, CallersKeepClean DEF Serve, Procs
  <2>5. ASSUME NEW p \in Reconcilers, Poll(p) PROVE Clean(i)'
    BY <2>1, <2>2, <2>5, CallersKeepClean DEF Poll, Procs
  <2>6. ASSUME NEW j \in Ids, Handle(j) \/ VmExit(j) PROVE Clean(i)'
    BY <2>1, <2>6, HandlersKeepClean
  <2>7. CASE ControllerRestart \/ QemuRestart
    BY <2>1, <2>7, RestartsKeepClean
  <2>8. CASE UNCHANGED vars
    BY <2>1, <2>8 DEF vars, CleanInv, Clean, AtRest, Launching, Pending
  <2> QED
    BY <2>4, <2>5, <2>6, <2>7, <2>8 DEF Next
<1> QED
  BY <1>1, <1>2

\* Whatever a removal leaves behind has a cause that was there when it was made,
\* for any number of overlapping starts, removals, creations and reconcilers,
\* with late handlers, failing calls and restarts of both processes.
THEOREM ControllerLeftoversHaveACause == Spec => []LeftoversHaveACause
<1>1. Init => TInv /\ CleanInv
  <2> SUFFICES ASSUME Init PROVE CleanInv
    BY InitTInv
  <2>1. \A t \in Threads : pc[t] = "idle"
    BY DEF Init, Procs
  <2> QED
    BY <2>1 DEF Init, Service!Init, CleanInv, Clean, AtRest, Launching
<1>2. TInv /\ CleanInv /\ [Next]_vars => (TInv /\ CleanInv)'
  BY NextTInv, NextCleanInv
<1>3. TInv /\ CleanInv => LeftoversHaveACause
  <2> SUFFICES ASSUME TInv, CleanInv, Quiet,
                      NEW i \in vm \cup stray \cup dirs, db[i] = None
               PROVE  i \in unclean
    BY DEF LeftoversHaveACause
  <2>1. i \in Ids /\ removing[i] = 0 /\ (\A t \in Threads : pc[t] = "idle")
    BY DEF TInv, TypeOK, Quiet, Procs
  <2> QED
    BY <2>1 DEF CleanInv, Clean, AtRest, Pending
<1> QED
  BY <1>1, <1>2, <1>3, PTL DEF Spec

=============================================================================
