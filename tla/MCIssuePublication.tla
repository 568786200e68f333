------------------------ MODULE MCIssuePublication --------------------------
(* Instances of IssuePublication for TLC. *)
EXTENDS IssuePublication, TLC

CONSTANTS p1, p2, p3

\* Workers are interchangeable.
Symmetry == Permutations(Publishers)
=============================================================================
