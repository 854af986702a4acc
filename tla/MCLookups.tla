------------------------------ MODULE MCLookups ------------------------------
(***************************************************************************)
(* What is looked up rather than driven, side by side: the instance        *)
(* database with its indices, the addresses of the VMs, the signing key    *)
(* and the sessions signed with it.  In a behaviour one of them moves and  *)
(* the others stay at their beginning.  All properties are safety.         *)
(***************************************************************************)
EXTENDS InstanceStore, AddressResolver, SessionSecret, Session, TLC

VARIABLE part   \* the one that moves

lookupVars == <<part, vars, resolverVars, secretVars, sessionVars>>

LookupInit ==
    /\ part \in {"store", "resolver", "secret", "session"}
    /\ Init /\ ResolverInit /\ SecretInit /\ SessionInit
    /\ part # "resolver" => holds = [m \in Hosts |-> NoAddress]

LookupNext ==
    /\ UNCHANGED part
    /\ \/ part = "store" /\ Next
          /\ UNCHANGED <<resolverVars, secretVars, sessionVars>>
       \/ part = "resolver" /\ ResolverNext
          /\ UNCHANGED <<vars, secretVars, sessionVars>>
       \/ part = "secret" /\ SecretNext
          /\ UNCHANGED <<vars, resolverVars, sessionVars>>
       \/ part = "session" /\ SessionNext
          /\ UNCHANGED <<vars, resolverVars, secretVars>>

LookupSpec == LookupInit /\ [][LookupNext]_lookupVars

\* Type invariant of all of them.
LookupTypeOK == TypeOK /\ ResolverTypeOK /\ SecretTypeOK /\ SessionTypeOK

Symmetry ==
    Permutations(Ids) \cup Permutations(Macs) \cup Permutations(Clients)
        \cup Permutations(Starters) \cup Permutations(Visits)
=============================================================================
