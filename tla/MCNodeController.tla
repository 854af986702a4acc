-------------------------- MODULE MCNodeController --------------------------
(* Model values for NodeController: see README, "Bounds". *)
EXTENDS NodeController, TLC

\* Instances, addresses, threads and readers are interchangeable.
Symmetry == Permutations(Ids) \cup Permutations(Macs)
                \cup Permutations(Threads) \cup Permutations(Readers)
=============================================================================
