----------------------------- MODULE MCRequests -----------------------------
(***************************************************************************)
(* Requests that overlap, at the controller of a node and at the           *)
(* orchestrator above it, side by side: in a behaviour one of the two      *)
(* moves and the other stays at its beginning.  All properties are safety. *)
(***************************************************************************)
EXTENDS NodeController, ImageDistribution, TLC

VARIABLE server   \* the one that moves

requestVars == <<server, vars, distributionVars>>

\* A part that does not move begins in one state.
RequestInit ==
    /\ server \in {"controller", "orchestrator"}
    /\ Init /\ DistributionInit
    /\ server # "controller" => db = [i \in Ids |-> None]

RequestNext ==
    /\ UNCHANGED server
    /\ \/ server = "controller" /\ Next /\ UNCHANGED distributionVars
       \/ server = "orchestrator" /\ DistributionNext /\ UNCHANGED vars

RequestSpec == RequestInit /\ [][RequestNext]_requestVars

\* Type invariant of both.
RequestTypeOK == TypeOK /\ DistributionTypeOK

\* Goroutines and creations are interchangeable.
Symmetry == Permutations(Threads) \cup Permutations(Creations)
=============================================================================
