-------------------------- MODULE MCContractEscrow --------------------------
(* Instances of ContractEscrow for TLC. *)
EXTENDS ContractEscrow, TLC

CONSTANTS j1, a1, a2, p1, p2

SameJob == [a \in Applications |-> j1]

WorkerSymmetry == Permutations(Workers)
Symmetry == Permutations(Workers) \cup Permutations(Applications)
=============================================================================
