---------------------------- MODULE InstanceTable ----------------------------
(***************************************************************************)
(* What the node controller may assume of its persistent state (the        *)
(* controller.State interface): one table from instance ids to records, in *)
(* which every hardware address belongs to at most one instance and from   *)
(* which only a stopped instance can be deleted.  Every operation is one   *)
(* atomic step.  InstanceStore implements it with optimistic transactions  *)
(* over two key families; NodeController is written on top of it.          *)
(***************************************************************************)
CONSTANTS
    Ids,    \* instance ids
    Macs,   \* hardware addresses
    None    \* "no such key"

VARIABLE table

\* The states of vm/statemachine/v1 that the controller ever writes.
States == {"STOPPED", "STARTING", "RUNNING"}

\* The fields of an instance record that an operation tells apart.
Records == [mac : Macs, state : States]

Present(i) == table[i] # None

\* No instance but i holds hardware address m.
MacFree(m, i) == \A j \in Ids \ {i} : Present(j) => table[j].mac # m

Put(i, r) ==
    /\ MacFree(r.mac, i)
    /\ table' = [table EXCEPT ![i] = r]

Delete(i) ==
    /\ Present(i)
    /\ table[i].state = "STOPPED"
    /\ table' = [table EXCEPT ![i] = None]

Init == table = [i \in Ids |-> None]

Next == \E i \in Ids : Delete(i) \/ \E r \in Records : Put(i, r)

Spec == Init /\ [][Next]_table
=============================================================================
