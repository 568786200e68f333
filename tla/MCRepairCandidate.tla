------------------------- MODULE MCRepairCandidate --------------------------
(* Instances of RepairCandidate for TLC. *)
EXTENDS RepairCandidate, TLC

CONSTANTS r1, r2

\* Runs are interchangeable.
Symmetry == Permutations(Runs)
=============================================================================
