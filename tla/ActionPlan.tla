----------------------------- MODULE ActionPlan -----------------------------
(***************************************************************************)
(* The action planner of services/agent/src/ipromise_agent/actions.py: a   *)
(* pure function from a verdict and a verification receipt to one draft    *)
(* PR, one issue and one email action, and the validator that refuses an   *)
(* unsafe plan.  Titles and reasons are left out; the order "PR, issue,    *)
(* email" is the record's field names.                                     *)
(***************************************************************************)
EXTENDS Naturals, FiniteSets

Verdicts == {"PENDING", "SUPPORTED", "CONTRADICTED", "INCONCLUSIVE", "NOT_TESTED"}

\* "NONE" stands for an empty action list: the planner has not run.
ActionStates == {"NONE", "PLANNED", "BLOCKED", "READY", "OPENED", "SENT", "SKIPPED"}

VerificationResults == {"PASS", "FAIL", "NOT_RUN"}

\* The fields of VerificationReceipt that a gate reads; "present" is FALSE for None.
Receipts == [present : BOOLEAN, publishable : BOOLEAN, isolated : BOOLEAN, exact_tree_verified : BOOLEAN,
             baseline_control : VerificationResults,
             candidate_control : VerificationResults,
             regression_suite : VerificationResults]

Plans == [pr : ActionStates, issue : ActionStates, email : ActionStates,
          pr_verified : BOOLEAN]

\* The states in which an action counts as a selected external route.
SelectedStates == {"PLANNED", "READY", "OPENED", "SENT"}

receipt_proves_candidate(receipt) ==
    /\ receipt.present
    /\ receipt.publishable
    /\ receipt.isolated
    /\ receipt.exact_tree_verified
    /\ receipt.baseline_control = "FAIL"
    /\ receipt.candidate_control = "PASS"
    /\ receipt.regression_suite = "PASS"

\* Email replaces the issue from the second contradiction in a row, when it is enabled.
EscalatesToEmail(consecutive, email_enabled) == email_enabled /\ consecutive >= 2

\* The plan for a contradiction; "proven" is _receipt_proves_candidate(receipt).
ContradictionPlan(proven, consecutive, email_enabled) ==
    LET escalates == EscalatesToEmail(consecutive, email_enabled)
    IN [pr          |-> IF proven THEN "READY" ELSE "BLOCKED",
        issue       |-> IF proven \/ escalates THEN "SKIPPED" ELSE "PLANNED",
        email       |-> IF escalates /\ ~proven THEN "PLANNED" ELSE "SKIPPED",
        pr_verified |-> proven]

SkippedPlan ==
    [pr |-> "SKIPPED", issue |-> "SKIPPED", email |-> "SKIPPED", pr_verified |-> FALSE]

plan_actions(verdict, proven, consecutive, email_enabled) ==
    IF verdict = "CONTRADICTED"
    THEN ContradictionPlan(proven, consecutive, email_enabled)
    ELSE SkippedPlan

\* TRUE iff validate_action_plan returns without raising UnsafeActionPlan.
validate_action_plan(plan, proven) ==
    /\ \A kind \in {"pr", "issue", "email"} : plan[kind] \notin {"OPENED", "SENT"}
    /\ Cardinality({kind \in {"pr", "issue", "email"} : plan[kind] \in SelectedStates}) <= 1
    /\ IF plan.pr = "READY" THEN plan.pr_verified /\ proven ELSE ~plan.pr_verified

\* The routes a plan selects.
Selected(plan) == {kind \in {"pr", "issue", "email"} : plan[kind] \in SelectedStates}

\* plan_actions never raises UnsafeActionPlan, selects exactly one route for a
\* contradiction and none for any other verdict, and the draft PR only with proof.
PlanIsSafe(verdict, proven, consecutive, email_enabled) ==
    LET plan == plan_actions(verdict, proven, consecutive, email_enabled)
    IN /\ validate_action_plan(plan, proven)
       /\ verdict = "CONTRADICTED" => \E kind \in {"pr", "issue", "email"} : Selected(plan) = {kind}
       /\ verdict # "CONTRADICTED" => Selected(plan) = {}
       /\ "pr" \in Selected(plan) => proven
=============================================================================
