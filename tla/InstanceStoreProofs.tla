------------------------- MODULE InstanceStoreProofs -------------------------
(***************************************************************************)
(* Proofs about InstanceStore for any sets of ids, addresses and clients.  *)
(* The argument: a transaction that can still commit (not stale) has read  *)
(* what is current now (SnapshotCurrent), so the checks it made on its     *)
(* snapshot hold at its commit; hence the commit keeps the index exact,    *)
(* and an exact index makes addresses unique.                              *)
(***************************************************************************)
EXTENDS InstanceStore, TLAPS

\* A commit on an instance, or on an index entry, that another transaction
\* has read makes that transaction stale.
LEMMA OverlapMarksStale ==
    ASSUME IInv, NEW c \in Clients, NEW d \in Clients \ {c},
           call[c] # None, call[d] # None, MarkStale(c), ~stale'[d]
    PROVE  /\ ~stale[d]
           /\ call[d].id # call[c].id
           /\ call[d].op = "update" =>
                 /\ call[c].op = "update" => call[d].rec.mac # call[c].rec.mac
                 /\ ~HeldBefore(c, call[d].rec.mac)
<1> USE NoneAssumption
<1>1. /\ ~stale[d]
      /\ Reads(call[d]) \cap Writes(call[c], seen[c].inst) = {}
  BY DEF MarkStale, IInv, TypeOK
<1>2. InstanceKey(call[d].id) \in Reads(call[d])
  BY DEF Reads
<1>3. InstanceKey(call[c].id) \in Writes(call[c], seen[c].inst)
  BY DEF Reads, Writes
<1>4. call[d].id # call[c].id
  BY <1>1, <1>2, <1>3
<1>5. ASSUME call[d].op = "update"
      PROVE  /\ call[c].op = "update" => call[d].rec.mac # call[c].rec.mac
             /\ ~HeldBefore(c, call[d].rec.mac)
  <2>1. HwaddrKey(call[d].rec.mac) \in Reads(call[d])
    BY <1>5 DEF Reads
  <2>2. call[c].op = "update"
            => HwaddrKey(call[c].rec.mac) \in Writes(call[c], seen[c].inst)
    BY DEF Reads, Writes
  <2>3. seen[c].inst # None
            => HwaddrKey(seen[c].inst.mac) \in Writes(call[c], seen[c].inst)
    BY DEF Writes, OldHwaddrKeys
  <2> QED
    BY <1>1, <2>1, <2>2, <2>3 DEF HeldBefore
<1> QED
  BY <1>1, <1>4, <1>5

\* Initially the store is empty and nobody is in a transaction.
THEOREM InitIInv == Init => IInv
<1> SUFFICES ASSUME Init PROVE IInv
  OBVIOUS
<1>1. TypeOK
  BY DEF Init, TypeOK, Snapshots
<1>2. IndexExact
  BY NoneAssumption DEF Init, IndexExact
<1>3. SnapshotCurrent
  BY DEF Init, SnapshotCurrent
<1> QED
  BY <1>1, <1>2, <1>3 DEF IInv

\* What a committing update knows: its snapshot is current.
LEMMA UpdateKnows ==
    ASSUME IInv, NEW c \in Clients, CommitUpdate(c)
    PROVE  /\ call[c] \in UpdateCalls
           /\ call[c].id \in Ids /\ call[c].rec \in Records
           /\ call[c].rec.mac \in Macs
           /\ seen[c].inst = inst[call[c].id]
           /\ owner[call[c].rec.mac] \in {None, call[c].id}
<1>1. call[c] \in Calls /\ call[c].op = "update" /\ call[c] # None
  BY DEF IInv, TypeOK, CommitUpdate, Running
<1>2. call[c] \in UpdateCalls
  BY <1>1 DEF Calls, UpdateCalls, RemoveCalls
<1>3. call[c].id \in Ids /\ call[c].rec \in Records /\ call[c].rec.mac \in Macs
  BY <1>2 DEF UpdateCalls, Records, Table!Records
<1>4. seen[c].inst = inst[call[c].id] /\ seen[c].owner = owner[call[c].rec.mac]
  BY <1>1 DEF IInv, SnapshotCurrent, CommitUpdate, NoConflict
<1> QED
  BY <1>2, <1>3, <1>4 DEF CommitUpdate, HwaddrAvailable

\* What a committing removal knows: the record is there and is stopped now.
LEMMA RemoveKnows ==
    ASSUME IInv, NEW c \in Clients, CommitRemove(c)
    PROVE  /\ call[c] \in RemoveCalls
           /\ call[c].id \in Ids
           /\ seen[c].inst = inst[call[c].id]
           /\ inst[call[c].id] # None
           /\ inst[call[c].id].state = "STOPPED"
<1>1. call[c] \in Calls /\ call[c].op = "remove" /\ call[c] # None
  BY DEF IInv, TypeOK, CommitRemove, Running
<1>2. call[c] \in RemoveCalls
  BY <1>1 DEF Calls, UpdateCalls, RemoveCalls
<1>3. call[c].id \in Ids
  BY <1>2 DEF RemoveCalls
<1>4. seen[c].inst = inst[call[c].id]
  BY <1>1 DEF IInv, SnapshotCurrent, CommitRemove, NoConflict
<1> QED
  BY <1>2, <1>3, <1>4 DEF CommitRemove, Removable

\* Every step keeps the types.
LEMMA TypeStep == IInv /\ [Next]_vars => TypeOK'
<1> SUFFICES ASSUME IInv, [Next]_vars PROVE TypeOK'
  OBVIOUS
<1> USE NoneAssumption
<1>0. TypeOK
  BY DEF IInv
<1>1. ASSUME NEW c \in Clients, NEW i \in Ids, NEW r \in Records,
             BeginUpdate(c, i, r)
      PROVE  TypeOK'
  <2>1. r.mac \in Macs
    BY DEF Records, Table!Records
  <2>2. [op |-> "update", id |-> i, rec |-> r] \in Calls
    BY DEF Calls, UpdateCalls
  <2>3. [inst |-> inst[i], owner |-> owner[r.mac]] \in Snapshots
    BY <1>0, <2>1 DEF TypeOK, Snapshots
  <2> QED
    BY <1>0, <1>1, <2>2, <2>3 DEF TypeOK, BeginUpdate
<1>2. ASSUME NEW c \in Clients, NEW i \in Ids, BeginRemove(c, i)
      PROVE  TypeOK'
  <2>1. [op |-> "remove", id |-> i] \in Calls
    BY DEF Calls, RemoveCalls
  <2>2. [inst |-> inst[i], owner |-> None] \in Snapshots
    BY <1>0 DEF TypeOK, Snapshots
  <2> QED
    BY <1>0, <1>2, <2>1, <2>2 DEF TypeOK, BeginRemove
<1>3. ASSUME NEW c \in Clients, CommitUpdate(c)
      PROVE  TypeOK'
  <2>1. call[c].id \in Ids /\ call[c].rec \in Records
    BY <1>3, UpdateKnows
  <2>2. IndexAfterUpdate(c) \in [Macs -> Ids \cup {None}]
    BY <1>0, <2>1 DEF TypeOK, IndexAfterUpdate
  <2>3. stale' \in [Clients -> BOOLEAN]
    BY <1>0, <1>3 DEF TypeOK, CommitUpdate, MarkStale
  <2> QED
    BY <1>0, <1>3, <2>1, <2>2, <2>3 DEF TypeOK, CommitUpdate, Return
<1>4. ASSUME NEW c \in Clients, CommitRemove(c)
      PROVE  TypeOK'
  <2>1. IndexAfterRemove(c) \in [Macs -> Ids \cup {None}]
    BY <1>0 DEF TypeOK, IndexAfterRemove
  <2>2. stale' \in [Clients -> BOOLEAN]
    BY <1>0, <1>4 DEF TypeOK, CommitRemove, MarkStale
  <2> QED
    BY <1>0, <1>4, <2>1, <2>2 DEF TypeOK, CommitRemove, Return
<1>5. ASSUME NEW c \in Clients, Discard(c) \/ Conflict(c)
      PROVE  TypeOK'
  BY <1>0, <1>5 DEF TypeOK, Discard, Conflict, Return
<1>6. CASE Restart
  BY <1>0, <1>6 DEF TypeOK, Restart
<1>7. CASE UNCHANGED vars
  BY <1>0, <1>7 DEF TypeOK, vars
<1> QED
  BY <1>1, <1>2, <1>3, <1>4, <1>5, <1>6, <1>7 DEF Next

\* Every step keeps the index exact.
LEMMA IndexStep == IInv /\ [Next]_vars => IndexExact'
<1> SUFFICES ASSUME IInv, [Next]_vars, NEW i \in Ids, NEW m \in Macs
             PROVE  owner'[m] = i <=> inst'[i] # None /\ inst'[i].mac = m
  BY DEF IndexExact
<1> USE NoneAssumption
<1>0. TypeOK /\ (\A j \in Ids, n \in Macs :
                     owner[n] = j <=> inst[j] # None /\ inst[j].mac = n)
  BY DEF IInv, IndexExact
<1>1. CASE UNCHANGED <<inst, owner>>
  BY <1>0, <1>1
<1>2. ASSUME NEW c \in Clients, CommitUpdate(c)
      PROVE  owner'[m] = i <=> inst'[i] # None /\ inst'[i].mac = m
  <2> DEFINE k == call[c]
  <2>1. /\ k.id \in Ids /\ k.rec \in Records /\ k.rec.mac \in Macs
        /\ seen[c].inst = inst[k.id]
        /\ owner[k.rec.mac] \in {None, k.id}
    BY <1>2, UpdateKnows
  <2>2. /\ inst' = [inst EXCEPT ![k.id] = k.rec]
        /\ owner' = IndexAfterUpdate(c)
    BY <1>2 DEF CommitUpdate
  <2>3. CASE m = k.rec.mac
    <3>1. owner'[m] = k.id
      BY <2>2, <2>3 DEF IndexAfterUpdate
    <3>2. i # k.id => ~(inst[i] # None /\ inst[i].mac = m)
      BY <1>0, <2>1, <2>3
    <3> QED
      BY <1>0, <2>1, <2>2, <2>3, <3>1, <3>2 DEF TypeOK
  <2>4. CASE m # k.rec.mac /\ HeldBefore(c, m)
    <3>1. owner'[m] = None
      BY <2>2, <2>4 DEF IndexAfterUpdate
    <3>2. owner[m] = k.id
      BY <1>0, <2>1, <2>4 DEF HeldBefore
    <3> QED
      BY <1>0, <2>1, <2>2, <2>4, <3>1, <3>2 DEF TypeOK
  <2>5. CASE m # k.rec.mac /\ ~HeldBefore(c, m)
    <3>1. owner'[m] = owner[m]
      BY <2>2, <2>5 DEF IndexAfterUpdate
    <3>2. owner[m] # k.id
      BY <1>0, <2>1, <2>5 DEF HeldBefore
    <3> QED
      BY <1>0, <2>1, <2>2, <2>5, <3>1, <3>2 DEF TypeOK
  <2> QED
    BY <2>3, <2>4, <2>5
<1>3. ASSUME NEW c \in Clients, CommitRemove(c)
      PROVE  owner'[m] = i <=> inst'[i] # None /\ inst'[i].mac = m
  <2> DEFINE k == call[c]
  <2>1. k.id \in Ids /\ seen[c].inst = inst[k.id] /\ inst[k.id] # None
    BY <1>3, RemoveKnows
  <2>2. /\ inst' = [inst EXCEPT ![k.id] = None]
        /\ owner' = IndexAfterRemove(c)
    BY <1>3 DEF CommitRemove
  <2>3. CASE HeldBefore(c, m)
    <3>1. owner'[m] = None
      BY <2>2, <2>3 DEF IndexAfterRemove
    <3>2. owner[m] = k.id
      BY <1>0, <2>1, <2>3 DEF HeldBefore
    <3> QED
      BY <1>0, <2>1, <2>2, <3>1, <3>2 DEF TypeOK
  <2>4. CASE ~HeldBefore(c, m)
    <3>1. owner'[m] = owner[m]
      BY <2>2, <2>4 DEF IndexAfterRemove
    <3>2. owner[m] # k.id
      BY <1>0, <2>1, <2>4 DEF HeldBefore
    <3> QED
      BY <1>0, <2>1, <2>2, <3>1, <3>2 DEF TypeOK
  <2> QED
    BY <2>3, <2>4
<1> QED
  BY <1>1, <1>2, <1>3
  DEF Next, vars, BeginUpdate, BeginRemove, Discard, Conflict, Restart

\* Every step keeps the snapshots of committable transactions current.
LEMMA SnapshotStep == IInv /\ [Next]_vars => SnapshotCurrent'
<1> SUFFICES ASSUME IInv, [Next]_vars, NEW d \in Clients,
                    call'[d] # None, ~stale'[d]
             PROVE  /\ seen'[d].inst = inst'[call'[d].id]
                    /\ call'[d].op = "update"
                          => seen'[d].owner = owner'[call'[d].rec.mac]
  BY DEF SnapshotCurrent
<1> DEFINE Goal == /\ seen'[d].inst = inst'[call'[d].id]
                   /\ call'[d].op = "update"
                         => seen'[d].owner = owner'[call'[d].rec.mac]
<1> USE NoneAssumption
<1>0. /\ TypeOK
      /\ call[d] # None /\ ~stale[d] =>
            /\ seen[d].inst = inst[call[d].id]
            /\ call[d].op = "update" => seen[d].owner = owner[call[d].rec.mac]
  BY DEF IInv, SnapshotCurrent
<1>1. ASSUME NEW c \in Clients, NEW i \in Ids, NEW r \in Records,
             BeginUpdate(c, i, r)
      PROVE  Goal
  BY <1>0, <1>1 DEF BeginUpdate, TypeOK
<1>2. ASSUME NEW c \in Clients, NEW i \in Ids, BeginRemove(c, i)
      PROVE  Goal
  BY <1>0, <1>2 DEF BeginRemove, TypeOK
<1>3. ASSUME NEW c \in Clients, CommitUpdate(c)
      PROVE  Goal
  <2>1. d # c /\ call'[d] = call[d] /\ call[c] # None /\ call[c].op = "update"
    BY <1>0, <1>3 DEF CommitUpdate, Return, Running, TypeOK
  <2>2. MarkStale(c) /\ seen' = seen
    BY <1>3 DEF CommitUpdate
  <2>3. /\ ~stale[d]
        /\ call[d].id # call[c].id
        /\ call[d].op = "update" =>
              /\ call[d].rec.mac # call[c].rec.mac
              /\ ~HeldBefore(c, call[d].rec.mac)
    BY <2>1, <2>2, OverlapMarksStale
  <2>4. inst' = [inst EXCEPT ![call[c].id] = call[c].rec]
        /\ owner' = IndexAfterUpdate(c)
    BY <1>3 DEF CommitUpdate
  <2>5. call[d].id \in Ids
    BY <1>0, <2>1 DEF TypeOK, Calls, UpdateCalls, RemoveCalls
  <2>6. call[d].op = "update" => call[d].rec.mac \in Macs
    BY <1>0, <2>1
    DEF TypeOK, Calls, UpdateCalls, RemoveCalls, Records, Table!Records
  <2>7. inst'[call[d].id] = inst[call[d].id]
    BY <1>0, <2>3, <2>4, <2>5 DEF TypeOK
  <2>8. call[d].op = "update" => owner'[call[d].rec.mac] = owner[call[d].rec.mac]
    BY <2>3, <2>4, <2>6 DEF IndexAfterUpdate
  <2> QED
    BY <1>0, <2>1, <2>2, <2>3, <2>7, <2>8
<1>4. ASSUME NEW c \in Clients, CommitRemove(c)
      PROVE  Goal
  <2>1. d # c /\ call'[d] = call[d] /\ call[c] # None
    BY <1>0, <1>4 DEF CommitRemove, Return, Running, TypeOK
  <2>2. MarkStale(c) /\ seen' = seen
    BY <1>4 DEF CommitRemove
  <2>3. /\ ~stale[d]
        /\ call[d].id # call[c].id
        /\ call[d].op = "update" => ~HeldBefore(c, call[d].rec.mac)
    BY <2>1, <2>2, OverlapMarksStale
  <2>4. inst' = [inst EXCEPT ![call[c].id] = None]
        /\ owner' = IndexAfterRemove(c)
    BY <1>4 DEF CommitRemove
  <2>5. call[d].id \in Ids
    BY <1>0, <2>1 DEF TypeOK, Calls, UpdateCalls, RemoveCalls
  <2>6. call[d].op = "update" => call[d].rec.mac \in Macs
    BY <1>0, <2>1
    DEF TypeOK, Calls, UpdateCalls, RemoveCalls, Records, Table!Records
  <2>7. inst'[call[d].id] = inst[call[d].id]
    BY <1>0, <2>3, <2>4, <2>5 DEF TypeOK
  <2>8. call[d].op = "update" => owner'[call[d].rec.mac] = owner[call[d].rec.mac]
    BY <2>3, <2>4, <2>6 DEF IndexAfterRemove
  <2> QED
    BY <1>0, <2>1, <2>2, <2>3, <2>7, <2>8
<1>5. ASSUME NEW c \in Clients, Discard(c) \/ Conflict(c)
      PROVE  Goal
  BY <1>0, <1>5 DEF Discard, Conflict, Return, TypeOK
<1>6. CASE Restart
  BY <1>6 DEF Restart
<1>7. CASE UNCHANGED vars
  BY <1>0, <1>7 DEF vars
<1> QED
  BY <1>1, <1>2, <1>3, <1>4, <1>5, <1>6, <1>7 DEF Next

\* Every step keeps the whole strengthening.
THEOREM NextIInv == IInv /\ [Next]_vars => IInv'
  BY TypeStep, IndexStep, SnapshotStep DEF IInv

\* The inductive invariant of the store holds in every behaviour: an exact
\* index, and snapshots that are current as long as they can commit.
THEOREM StoreInvariant == Spec => []IInv
<1>1. Init => IInv
  BY InitIInv
<1>2. IInv /\ [Next]_vars => IInv'
  BY NextIInv
<1> QED
  BY <1>1, <1>2, PTL DEF Spec

\* Type correctness of the store for any ids, addresses and clients.
THEOREM StoreTypeCorrect == Spec => []TypeOK
<1>1. IInv => TypeOK
  BY DEF IInv
<1> QED
  BY <1>1, StoreInvariant, PTL

\* The index stays the exact inverse of the records (persistence.go keeps two
\* key families and must never let them drift apart).
THEOREM StoreIndexExact == Spec => []IndexExact
<1>1. IInv => IndexExact
  BY DEF IInv
<1> QED
  BY <1>1, StoreInvariant, PTL

\* An exact index makes hardware addresses unique.
LEMMA ExactIndexUnique == TypeOK /\ IndexExact => HwaddrUnique
<1> SUFFICES ASSUME TypeOK, IndexExact, NEW i \in Ids, NEW j \in Ids,
                    inst[i] # None, inst[j] # None, inst[i].mac = inst[j].mac
             PROVE  i = j
  BY DEF HwaddrUnique
<1>1. inst[i].mac \in Macs
  BY DEF TypeOK, Records, Table!Records
<1> QED
  BY <1>1 DEF IndexExact

\* No two instances ever hold one hardware address.
THEOREM StoreHwaddrUnique == Spec => []HwaddrUnique
<1>1. IInv => HwaddrUnique
  BY ExactIndexUnique DEF IInv
<1> QED
  BY <1>1, StoreInvariant, PTL

\* Under the invariant a step deletes only a record that is stopped now.
LEMMA RemovalStep ==
    ASSUME IInv, [Next]_vars, NEW i \in Ids, inst[i] # None, inst'[i] = None
    PROVE  inst[i].state = "STOPPED"
<1>1. CASE UNCHANGED inst
  BY <1>1
<1>2. ASSUME NEW c \in Clients, CommitUpdate(c) PROVE inst'[i] # None
  BY <1>2, UpdateKnows, NoneAssumption DEF CommitUpdate, IInv, TypeOK
<1>3. ASSUME NEW c \in Clients, CommitRemove(c) PROVE inst[i].state = "STOPPED"
  BY <1>3, RemoveKnows DEF CommitRemove, IInv, TypeOK
<1> QED
  BY <1>1, <1>2, <1>3
  DEF Next, vars, BeginUpdate, BeginRemove, Discard, Conflict, Restart

\* A record disappears only while it is stopped, although the state was
\* checked on a snapshot.
THEOREM StoreRemovedWhenStopped == Spec => RemovedWhenStopped
<1>1. IInv /\ [Next]_vars =>
        [\A i \in Ids : inst[i] # None /\ inst'[i] = None
                            => inst[i].state = "STOPPED"]_vars
  BY RemovalStep
<1> QED
  BY <1>1, StoreInvariant, PTL DEF RemovedWhenStopped, Spec

\* A committing update is a Put of the abstract table.
LEMMA UpdateIsPut ==
    ASSUME IInv, NEW c \in Clients, CommitUpdate(c)
    PROVE  Table!Put(call[c].id, call[c].rec)
<1>1. /\ call[c].id \in Ids /\ call[c].rec.mac \in Macs
      /\ owner[call[c].rec.mac] \in {None, call[c].id}
  BY UpdateKnows
<1>2. \A j \in Ids \ {call[c].id} : inst[j] # None => inst[j].mac # call[c].rec.mac
  BY <1>1, NoneAssumption DEF IInv, IndexExact
<1> QED
  BY <1>2 DEF CommitUpdate, Table!Put, Table!MacFree, Table!Present

\* A committing removal is a Delete of the abstract table.
LEMMA RemoveIsDelete ==
    ASSUME IInv, NEW c \in Clients, CommitRemove(c)
    PROVE  Table!Delete(call[c].id)
  BY RemoveKnows DEF CommitRemove, Table!Delete, Table!Present

\* The store implements the atomic table: every commit is one of its steps,
\* everything else (begins, failures, conflicts, a restart) a stutter.
THEOREM StoreImplementsTable == Spec => ImplementsTable
<1>1. Init => Table!Init
  BY DEF Init, Table!Init
<1>2. IInv /\ [Next]_vars => [Table!Next]_inst
  <2> SUFFICES ASSUME IInv, [Next]_vars PROVE [Table!Next]_inst
    OBVIOUS
  <2>1. ASSUME NEW c \in Clients, CommitUpdate(c) PROVE Table!Next
    BY <2>1, UpdateIsPut, UpdateKnows DEF Table!Next, Records
  <2>2. ASSUME NEW c \in Clients, CommitRemove(c) PROVE Table!Next
    BY <2>2, RemoveIsDelete, RemoveKnows DEF Table!Next
  <2> QED
    BY <2>1, <2>2
    DEF Next, vars, BeginUpdate, BeginRemove, Discard, Conflict, Restart
<1> QED
  BY <1>1, <1>2, StoreInvariant, PTL DEF Spec, ImplementsTable, Table!Spec
=============================================================================
