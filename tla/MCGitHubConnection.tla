------------------------ MODULE MCGitHubConnection --------------------------
(* Instances of GitHubConnection for TLC. *)
EXTENDS GitHubConnection, TLC

CONSTANTS f1, f2, c1, c2, i1, i2, ra, rb, x1

\* Names are interchangeable.
Symmetry ==
    Permutations(Flows) \cup Permutations(Callbacks) \cup Permutations(Installations)
        \cup Permutations(Repositories)
=============================================================================
