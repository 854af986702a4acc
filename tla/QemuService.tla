------------------------------ MODULE QemuService ------------------------------
(***************************************************************************)
(* What a node's controller may assume of its QEMU service (the gRPC       *)
(* service that pkg/protos/process.go implements): which instances have a  *)
(* process, which have a directory, and how far a Start is.  Every         *)
(* operation is one atomic step, but Start, whose progress is visible, and *)
(* Remove, which checks in one step and deletes in another: a Start may    *)
(* come in between.  NodeController is written on top of it and            *)
(* QemuLifecycle implements it.                                            *)
(***************************************************************************)
EXTENDS Naturals

CONSTANT Ids   \* instance ids

VARIABLES
    vm,       \* ids whose directory names a live QEMU process
    stray,    \* ids with a live QEMU process that no directory names
    dirs,     \* ids with an instance directory
    handler,  \* progress of the Start handler of an id
    removing  \* id -> Remove handlers that have checked and not yet deleted

Init ==
    /\ vm = {}
    /\ stray = {}
    /\ dirs = {}
    /\ handler = [i \in Ids |-> "idle"]
    /\ removing = [i \in Ids |-> 0]

Move(i, from, to) ==
    /\ handler[i] \in from
    /\ handler' = [handler EXCEPT ![i] = to]
    /\ UNCHANGED removing

\* A Start is let in while no other one of that id is under way.
Accept(i) == Move(i, {"idle"}, "accepted") /\ UNCHANGED <<vm, stray, dirs>>

MakeDir(i) ==
    /\ Move(i, {"accepted"}, "preparing")
    /\ dirs' = dirs \cup {i}
    /\ UNCHANGED <<vm, stray>>

\* QEMU holds a lock on the disk image in the directory: a second process
\* cannot start from it.
Launch(i) ==
    /\ i \in dirs \ vm
    /\ Move(i, {"preparing"}, "launched")
    /\ vm' = vm \cup {i}
    /\ UNCHANGED <<stray, dirs>>

\* The handler returns.
Reply(i) == Move(i, {"launched"}, "idle") /\ UNCHANGED <<vm, stray, dirs>>
Fail(i) == Move(i, {"accepted", "preparing"}, "idle") /\ UNCHANGED <<vm, stray, dirs>>

\* The process ends, by force, by request or by itself.
Exit(i) ==
    /\ \/ i \in vm /\ vm' = vm \ {i} /\ UNCHANGED stray
       \/ i \in stray /\ stray' = stray \ {i} /\ UNCHANGED vm
    /\ UNCHANGED <<dirs, handler, removing>>

\* Remove is refused while the directory names a live process.
RemoveCheck(i) ==
    /\ i \notin vm
    /\ removing' = [removing EXCEPT ![i] = @ + 1]
    /\ UNCHANGED <<vm, stray, dirs, handler>>

\* The directory is deleted, whatever has become of the process since.
RemoveDelete(i) ==
    /\ removing[i] > 0
    /\ removing' = [removing EXCEPT ![i] = @ - 1]
    /\ dirs' = dirs \ {i}
    /\ vm' = vm \ {i}
    /\ stray' = stray \cup (vm \cap {i})
    /\ UNCHANGED handler

\* Or it cannot be deleted.
RemoveFail(i) ==
    /\ removing[i] > 0
    /\ removing' = [removing EXCEPT ![i] = @ - 1]
    /\ UNCHANGED <<vm, stray, dirs, handler>>

\* The service restarts: its handlers die, processes and directories stay.
Restart ==
    /\ handler' = [i \in Ids |-> "idle"]
    /\ removing' = [i \in Ids |-> 0]
    /\ UNCHANGED <<vm, stray, dirs>>

Next ==
    \/ \E i \in Ids :
          \/ Accept(i) \/ MakeDir(i) \/ Launch(i) \/ Reply(i) \/ Fail(i)
          \/ Exit(i) \/ RemoveCheck(i) \/ RemoveDelete(i) \/ RemoveFail(i)
    \/ Restart

Spec == Init /\ [][Next]_<<vm, stray, dirs, handler, removing>>
=============================================================================
