---------------------------- MODULE Publication -----------------------------
(***************************************************************************)
(* What the audit workflow relies on when it calls a publisher of          *)
(* github.py: however many calls report the same finding, GitHub gets at   *)
(* most one artifact, and a call answers with a receipt only for that      *)
(* artifact.  Any call may instead answer that it does not know, was       *)
(* refused or failed, and the artifact may appear at any time.  The        *)
(* promise of one artifact ends when the world does what a publisher       *)
(* cannot guard against: a person edits the draft, an intent expires under *)
(* a request, or an error does not say that it is one.                     *)
(***************************************************************************)
EXTENDS Naturals

CONSTANT Publishers

VARIABLES
    artifacts,  \* how many artifacts of the finding GitHub holds
    answer,     \* how each publisher's last call ended, "none" while it runs
    receipt,    \* the artifact named by a "receipt" answer, 0 otherwise
    touched     \* the world interfered

vars == <<artifacts, answer, receipt, touched>>

Init ==
    /\ artifacts = 0
    /\ answer = [p \in Publishers |-> "none"]
    /\ receipt = [p \in Publishers |-> 0]
    /\ touched = FALSE

Appear ==
    /\ artifacts = 0 \/ touched
    /\ artifacts' = artifacts + 1
    /\ UNCHANGED <<answer, receipt, touched>>

Call(p) ==
    /\ answer' = [answer EXCEPT ![p] = "none"]
    /\ receipt' = [receipt EXCEPT ![p] = 0]
    /\ UNCHANGED <<artifacts, touched>>

Confirm(p) ==
    /\ answer[p] = "none"
    /\ answer' = [answer EXCEPT ![p] = "receipt"]
    /\ \E n \in 1 .. artifacts : receipt' = [receipt EXCEPT ![p] = n]
    /\ UNCHANGED <<artifacts, touched>>

Fail(p) ==
    /\ \E failure \in {"uncertain", "refused", "raised"} :
          answer' = [answer EXCEPT ![p] = failure]
    /\ receipt[p] = 0
    /\ UNCHANGED <<artifacts, receipt, touched>>

Interfere == touched' = TRUE /\ UNCHANGED <<artifacts, answer, receipt>>

Next == Appear \/ Interfere \/ \E p \in Publishers : Call(p) \/ Confirm(p) \/ Fail(p)

Spec == Init /\ [][Next]_vars
=============================================================================
