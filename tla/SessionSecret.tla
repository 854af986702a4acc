---------------------------- MODULE SessionSecret ----------------------------
(***************************************************************************)
(* The key that signs the session cookies (auth/secret.go): orchestrators  *)
(* that share a configuration directory read it from one file, and the     *)
(* first of them creates that file.  They may start at the same time, stop *)
(* at any point and be started again.  A key is named by who made it.      *)
(***************************************************************************)

CONSTANT Starters   \* orchestrator processes

VARIABLES
    exists,   \* the file is there
    content,  \* maker of the key in it; none while it is shorter than a key
    at,       \* process -> step of LoadOrCreateSecret
    issued    \* makers of the keys the calls have returned

secretVars == <<exists, content, at, issued>>

SecretInit ==
    /\ exists = FALSE
    /\ content = {}
    /\ at = [p \in Starters |-> "down"]
    /\ issued = {}

SecretStep(p, from, to) ==
    /\ at[p] = from
    /\ at' = [at EXCEPT ![p] = to]

Launch(p) ==
    /\ SecretStep(p, "down", "read")
    /\ UNCHANGED <<exists, content, issued>>

\* The process ends, be it between creating the file and writing it.
End(p) ==
    /\ at[p] # "down"
    /\ at' = [at EXCEPT ![p] = "down"]
    /\ UNCHANGED <<exists, content, issued>>

\* A key that is there is used; without a file, one is made; a short file and
\* any other error end the start.
ReadSecret(p) ==
    /\ \/ exists /\ content # {} /\ SecretStep(p, "read", "up")
          /\ issued' = issued \cup content
       \/ ~exists /\ SecretStep(p, "read", "create") /\ UNCHANGED issued
       \/ exists /\ content = {} /\ SecretStep(p, "read", "failed")
          /\ UNCHANGED issued
    /\ UNCHANGED <<exists, content>>

\* Faulty variant: a file that has appeared meanwhile is opened all the same.
CreateAlways(p) ==
    /\ SecretStep(p, "create", "write")
    /\ exists' = TRUE
    /\ UNCHANGED <<content, issued>>

\* Only one process creates the file; the others read it.
CreateSecret(p) ==
    /\ IF exists THEN SecretStep(p, "create", "read") ELSE SecretStep(p, "create", "write")
    /\ exists' = TRUE
    /\ UNCHANGED <<content, issued>>

WriteSecret(p) ==
    /\ SecretStep(p, "write", "up")
    /\ content' = {p}
    /\ issued' = issued \cup {p}
    /\ UNCHANGED exists

\* Reading, making, opening or writing fails: what is on the disk stays.
StartFails(p) ==
    /\ \E step \in {"read", "create", "write"} : SecretStep(p, step, "failed")
    /\ UNCHANGED <<exists, content, issued>>

LoadOrCreateSecret(p) ==
    ReadSecret(p) \/ CreateSecret(p) \/ WriteSecret(p) \/ StartFails(p)

SecretNext == \E p \in Starters : Launch(p) \/ End(p) \/ LoadOrCreateSecret(p)

SecretSpec == SecretInit /\ [][SecretNext]_secretVars

-----------------------------------------------------------------------------
(* Properties *)

\* Type invariant.
SecretTypeOK ==
    /\ exists \in BOOLEAN
    /\ content \subseteq Starters /\ issued \subseteq Starters
    /\ at \in [Starters -> {"down", "read", "create", "write", "up", "failed"}]

\* All processes sign with one key, those that start together and those that
\* start later: a session that one of them has issued is never unknown to
\* another, nor to the same after a restart.
OneSecret == \A k, l \in issued : k = l
=============================================================================
