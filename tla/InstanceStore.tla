---------------------------- MODULE InstanceStore ----------------------------
(***************************************************************************)
(* The controller's database (pkg/controller/db/persistence.go): instance  *)
(* records under "instance:<id>" and a secondary index "hwaddr:<mac>" that *)
(* makes hardware addresses unique.  Update and Remove each run in one      *)
(* badger transaction: it reads from the snapshot of its start, buffers its *)
(* writes, and at commit fails with ErrConflict when a key it has read was  *)
(* written by a transaction that committed since.  The code never retries.  *)
(***************************************************************************)
CONSTANTS
    Ids,      \* instance ids
    Macs,     \* hardware addresses
    Clients,  \* goroutines that may have a database call in progress
    None      \* "no such key", "no call in progress"

VARIABLES
    inst,     \* the "instance:" keys: id -> record or None
    owner,    \* the "hwaddr:" keys: hardware address -> id or None
    call,     \* the call each client is executing, or None
    seen,     \* the values its transaction has read from its snapshot
    stale     \* whether a key it has read was committed by another since

vars == <<inst, owner, call, seen, stale>>

Table == INSTANCE InstanceTable WITH table <- inst

Records == Table!Records

UpdateCalls == [op : {"update"}, id : Ids, rec : Records]
RemoveCalls == [op : {"remove"}, id : Ids]
Calls == UpdateCalls \cup RemoveCalls

Snapshots == [inst : Records \cup {None}, owner : Ids \cup {None}]

ASSUME NoneAssumption ==
    None \notin Ids /\ None \notin Records /\ None \notin Calls

-----------------------------------------------------------------------------
(* Keys and the read and write sets of a transaction *)

InstanceKey(i) == <<"instance:", i>>
HwaddrKey(m) == <<"hwaddr:", m>>

Reads(k) ==
    IF k.op = "update" THEN {InstanceKey(k.id), HwaddrKey(k.rec.mac)}
                       ELSE {InstanceKey(k.id)}

\* The index key of the record the transaction has read: Update deletes it
\* when the address changes, Remove deletes it with the record.
OldHwaddrKeys(old) == IF old = None THEN {} ELSE {HwaddrKey(old.mac)}

Writes(k, old) == Reads(k) \cup OldHwaddrKeys(old)

\* The commit of client c makes every overlapping transaction stale.
MarkStale(c) ==
    stale' = [d \in Clients |->
                 \/ stale[d]
                 \/ /\ d # c
                    /\ call[d] # None
                    /\ Reads(call[d]) \cap Writes(call[c], seen[c].inst) # {}]

Return(c) == call' = [call EXCEPT ![c] = None]

-----------------------------------------------------------------------------
Init ==
    /\ inst = [i \in Ids |-> None]
    /\ owner = [m \in Macs |-> None]
    /\ call = [c \in Clients |-> None]
    /\ seen = [c \in Clients |-> [inst |-> None, owner |-> None]]
    /\ stale = [c \in Clients |-> FALSE]

\* The closure's reads all come from the snapshot taken here.
BeginUpdate(c, i, r) ==
    /\ call[c] = None
    /\ call' = [call EXCEPT ![c] = [op |-> "update", id |-> i, rec |-> r]]
    /\ seen' = [seen EXCEPT ![c] = [inst |-> inst[i], owner |-> owner[r.mac]]]
    /\ stale' = [stale EXCEPT ![c] = FALSE]
    /\ UNCHANGED <<inst, owner>>

BeginRemove(c, i) ==
    /\ call[c] = None
    /\ call' = [call EXCEPT ![c] = [op |-> "remove", id |-> i]]
    /\ seen' = [seen EXCEPT ![c] = [inst |-> inst[i], owner |-> None]]
    /\ stale' = [stale EXCEPT ![c] = FALSE]
    /\ UNCHANGED <<inst, owner>>

Running(c, op) == call[c] # None /\ call[c].op = op

\* Faulty variant: no state check.
RemovableInAnyState(c) == seen[c].inst # None

\* The hardware address is free or already this instance's own.
HwaddrAvailable(c) == seen[c].owner \in {None, call[c].id}

\* Only a stopped instance may be removed.
Removable(c) == seen[c].inst # None /\ seen[c].inst.state = "STOPPED"

\* badger's commit-time check of the keys the transaction has read.
NoConflict(c) == ~stale[c]

\* Does the record the transaction has read hold address m?
HeldBefore(c, m) == seen[c].inst # None /\ seen[c].inst.mac = m

\* Faulty variant: the address an update replaces is left in the index.
IndexKeepsOld(c) ==
    [m \in Macs |-> IF m = call[c].rec.mac THEN call[c].id ELSE owner[m]]

\* The index after an update: the new address points at the instance, the
\* address of the record it replaces points nowhere.
IndexAfterUpdate(c) ==
    [m \in Macs |-> IF m = call[c].rec.mac THEN call[c].id
                    ELSE IF HeldBefore(c, m) THEN None
                    ELSE owner[m]]

CommitUpdate(c) ==
    /\ Running(c, "update")
    /\ HwaddrAvailable(c)
    /\ NoConflict(c)
    /\ inst' = [inst EXCEPT ![call[c].id] = call[c].rec]
    /\ owner' = IndexAfterUpdate(c)
    /\ MarkStale(c)
    /\ Return(c)
    /\ UNCHANGED seen

IndexAfterRemove(c) ==
    [m \in Macs |-> IF HeldBefore(c, m) THEN None ELSE owner[m]]

CommitRemove(c) ==
    /\ Running(c, "remove")
    /\ Removable(c)
    /\ NoConflict(c)
    /\ inst' = [inst EXCEPT ![call[c].id] = None]
    /\ owner' = IndexAfterRemove(c)
    /\ MarkStale(c)
    /\ Return(c)
    /\ UNCHANGED seen

\* ErrConstraint, or ErrNoInstanceRemoved: the closure returns an error and
\* the transaction is discarded, without a conflict check.
Discard(c) ==
    /\ \/ Running(c, "update") /\ ~HwaddrAvailable(c)
       \/ Running(c, "remove") /\ ~Removable(c)
    /\ Return(c)
    /\ UNCHANGED <<inst, owner, seen, stale>>

\* badger.ErrConflict reaches the caller.
Conflict(c) ==
    /\ \/ Running(c, "update") /\ HwaddrAvailable(c)
       \/ Running(c, "remove") /\ Removable(c)
    /\ stale[c]
    /\ Return(c)
    /\ UNCHANGED <<inst, owner, seen, stale>>

\* The process dies: calls in progress are gone, what was committed stays.
Restart ==
    /\ call' = [c \in Clients |-> None]
    /\ UNCHANGED <<inst, owner, seen, stale>>

Next ==
    \/ \E c \in Clients :
          \/ \E i \in Ids, r \in Records : BeginUpdate(c, i, r)
          \/ \E i \in Ids : BeginRemove(c, i)
          \/ CommitUpdate(c)
          \/ CommitRemove(c)
          \/ Discard(c)
          \/ Conflict(c)
    \/ Restart

Spec == Init /\ [][Next]_vars

-----------------------------------------------------------------------------
(* Properties *)

\* Type invariant of the store and of the transactions in progress.
TypeOK ==
    /\ inst \in [Ids -> Records \cup {None}]
    /\ owner \in [Macs -> Ids \cup {None}]
    /\ call \in [Clients -> Calls \cup {None}]
    /\ seen \in [Clients -> Snapshots]
    /\ stale \in [Clients -> BOOLEAN]

\* The hardware-address index is exactly the inverse of the records: no
\* dangling entry keeps an address of a removed or re-addressed instance
\* taken, and no record lacks the entry that protects its address.
IndexExact ==
    \A i \in Ids, m \in Macs :
        owner[m] = i <=> inst[i] # None /\ inst[i].mac = m

\* Two instances never hold the same hardware address, whatever updates and
\* removals overlap.
HwaddrUnique ==
    \A i, j \in Ids :
        inst[i] # None /\ inst[j] # None /\ inst[i].mac = inst[j].mac => i = j

\* A transaction that can still commit has read the values that are current
\* now: what a check saw is what holds when its writes are applied.
SnapshotCurrent ==
    \A c \in Clients :
        call[c] # None /\ ~stale[c] =>
            /\ seen[c].inst = inst[call[c].id]
            /\ call[c].op = "update" => seen[c].owner = owner[call[c].rec.mac]

\* The strengthening that is inductive: the index is right now, and what the
\* transactions in progress rely on is right until they commit.
IInv == TypeOK /\ IndexExact /\ SnapshotCurrent

\* A record disappears only while it is stopped, although Remove checked the
\* state in a snapshot that may be older than the commit.
RemovedWhenStopped ==
    [][\A i \in Ids : inst[i] # None /\ inst'[i] = None
                          => inst[i].state = "STOPPED"]_vars

\* The store with its index and its transactions is an atomic table.
ImplementsTable == Table!Spec
=============================================================================
