---------------------- MODULE MCPullRequestPublication ----------------------
(* Instances of PullRequestPublication for TLC. *)
EXTENDS PullRequestPublication

CONSTANTS p1, p2
=============================================================================
