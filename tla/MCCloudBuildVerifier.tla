------------------------ MODULE MCCloudBuildVerifier ------------------------
(* Instances of CloudBuildVerifier for TLC. *)
EXTENDS CloudBuildVerifier
=============================================================================
