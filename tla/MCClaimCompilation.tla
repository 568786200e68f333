------------------------- MODULE MCClaimCompilation -------------------------
(* Instances of ClaimCompilation for TLC. *)
EXTENDS ClaimCompilation

\* The promise, the promise with an exception added to it, and another sentence.
Said == {"promise", "qualified", "slogan"}
Binding == {"promise", "qualified"}

\* The reference page, the page without markers, a page that marks something else, and a
\* page whose promise got its exception.
Sources ==
    {[text |-> {"promise", "slogan"}, deletion |-> "promise", other |-> "none"],
     [text |-> {"promise", "slogan"}, deletion |-> "none", other |-> "none"],
     [text |-> {"promise", "slogan"}, deletion |-> "none", other |-> "slogan"],
     [text |-> {"qualified"}, deletion |-> "qualified", other |-> "none"]}
=============================================================================
