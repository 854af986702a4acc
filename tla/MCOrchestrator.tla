---------------------------- MODULE MCOrchestrator ----------------------------
(***************************************************************************)
(* The parts of the orchestrator side by side: its image registry, which   *)
(* is that of a node as well, the creation and start of an instance, and   *)
(* the broadcast of events to its clients.  In a behaviour one moves and   *)
(* the others stay at their beginning, where their fairness asks for no    *)
(* step.                                                                   *)
(***************************************************************************)
EXTENDS ImageStore, ImageDistribution, Broadcaster

VARIABLE part   \* the one that moves

orchestratorVars == <<part, vars, distributionVars, broadcastVars>>

OrchestratorInit ==
    /\ part \in {"registry", "creation", "broadcast"}
    /\ Init /\ DistributionInit /\ BroadcastInit

OrchestratorNext ==
    /\ UNCHANGED part
    /\ \/ part = "registry" /\ Next /\ UNCHANGED <<distributionVars, broadcastVars>>
       \/ part = "creation" /\ DistributionNext /\ UNCHANGED <<vars, broadcastVars>>
       \/ part = "broadcast" /\ BroadcastNext /\ UNCHANGED <<vars, distributionVars>>

OrchestratorSpec ==
    /\ OrchestratorInit /\ [][OrchestratorNext]_orchestratorVars
    /\ Fairness /\ DistributionFairness /\ BroadcastFairness

\* Type invariant of the three.
OrchestratorTypeOK == TypeOK /\ DistributionTypeOK /\ BroadcastTypeOK
=============================================================================
