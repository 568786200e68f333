------------------------ MODULE MCConsoleDashboard --------------------------
(* Instances of ConsoleDashboard for TLC. *)
EXTENDS ConsoleDashboard

CONSTANTS k1, k2, s1, h1, h2
=============================================================================
