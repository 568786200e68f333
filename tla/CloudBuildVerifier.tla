------------------------- MODULE CloudBuildVerifier -------------------------
(***************************************************************************)
(* CloudBuildVerifier.verify (cloudbuild_verifier.py) and the build it     *)
(* submits: submission, polling, the deadline and the cancellation of the  *)
(* build, the seven trusted steps, the interpretation of the last          *)
(* snapshot, and the receipt that the audit workflow gives to its planner. *)
(*                                                                         *)
(* Cloud Build works on its own: the verifier sees it through polls that   *)
(* may fail, hang or miss parts, and may give up on it at any time.        *)
(***************************************************************************)
EXTENDS ActionPlan, Sequences

CONSTANT MaxFaults  \* bound on failing calls, infrastructure failures and crashes

ASSUME FaultAssumption == MaxFaults \in Nat

VARIABLES
    facts,     \* what is true of the artifact, the source and the two versions
    build,     \* Cloud Build: the build
    tree,      \* Cloud Build: what the build's workspace holds
    late,      \* a submission that nobody waits for and Cloud Build may still accept
    pc,        \* the await at which verify stands
    expired,   \* the clock is past the deadline
    snapshot,  \* last_snapshot
    outcome,   \* the VerificationOutcome returned
    faults     \* faults so far

cloud == <<build, tree, late>>
vars == <<facts, cloud, pc, expired, snapshot, outcome, faults>>

Steps == <<"source-integrity", "install-locked-dependencies", "baseline-hidden-control",
           "materialize-candidate", "candidate-hidden-control", "demo-saas-regression",
           "candidate-integrity">>

StepIds == DOMAIN Steps

TERMINAL == {"SUCCESS", "FAILURE", "INTERNAL_ERROR", "TIMEOUT", "CANCELLED", "EXPIRED"}

StepStates == {"PENDING", "SUCCESS", "FAILURE", "TIMEOUT", "CANCELLED"}

BadStates == {"FAILURE", "TIMEOUT", "CANCELLED"}

Facts == [valid : BOOLEAN,      \* the artifact is the approved template
          source : BOOLEAN,     \* the fetched source is the requested base
          defective : BOOLEAN,  \* the base leaves the analytics record behind
          fixes : BOOLEAN,      \* the candidate does not
          passes : BOOLEAN]     \* the regression suite passes on the candidate

Builds == [status : TERMINAL \cup {"NONE", "QUEUED", "WORKING"}, steps : [StepIds -> StepStates]]

NoBuild == [status |-> "NONE", steps |-> [i \in StepIds |-> "PENDING"]]

Snapshots == [status : TERMINAL \cup {"NONE", "QUEUED", "WORKING"},
              steps : [StepIds -> StepStates], source : BOOLEAN, log : BOOLEAN]

NoSnapshot == [status |-> "NONE", steps |-> [i \in StepIds |-> "PENDING"],
               source |-> FALSE, log |-> FALSE]

Decisions == {"NONE", "VERIFIED", "REJECTED", "UNAVAILABLE"}

Codes == {"NONE", "INVALID_ARTIFACT", "SUBMISSION_FAILED", "POLL_FAILED", "DEADLINE_EXCEEDED",
          "SOURCE_MISMATCH", "BASELINE_MISMATCH", "CANDIDATE_MISMATCH",
          "CANDIDATE_CONTROL_FAILED", "REGRESSION_FAILED", "BUILD_FAILED",
          "BUILD_INTERNAL_ERROR", "BUILD_CANCELLED", "BUILD_EXPIRED", "EVIDENCE_INCOMPLETE"}

CheckResults == {"EXPECTED_FAILURE", "PASS", "FAIL", "NOT_RUN"}

Outcomes == [decision : Decisions, code : Codes, baseline : CheckResults,
             candidate : CheckResults, regression : CheckResults,
             exact_candidate : BOOLEAN, evidence : BOOLEAN]

Points == {"prepare", "submit", "submitting", "loop", "getting", "cancelling",
           "stopping", "done", "gone"}

Trees == {"empty", "base", "wrong", "candidate", "tampered"}

TypeOK ==
    /\ facts \in Facts /\ build \in Builds /\ tree \in Trees /\ late \in BOOLEAN
    /\ pc \in Points /\ expired \in BOOLEAN
    /\ snapshot \in Snapshots /\ outcome \in Outcomes
    /\ faults \in 0 .. MaxFaults

-----------------------------------------------------------------------------
(* Interpretation *)

Result(decision, code) ==
    [decision |-> decision, code |-> code, baseline |-> "NOT_RUN", candidate |-> "NOT_RUN",
     regression |-> "NOT_RUN", exact_candidate |-> FALSE, evidence |-> FALSE]

NoOutcome == Result("NONE", "NONE")

baseline_result(state) ==
    CASE state = "SUCCESS"    -> "EXPECTED_FAILURE"
      [] state \in BadStates  -> "FAIL"
      [] OTHER                -> "NOT_RUN"

pass_result(state) ==
    CASE state = "SUCCESS"    -> "PASS"
      [] state \in BadStates  -> "FAIL"
      [] OTHER                -> "NOT_RUN"

\* The steps whose failure speaks about the candidate, with what it says.
LogicalFailures == [i \in StepIds \ {2} |->
    CASE i = 1 -> "SOURCE_MISMATCH"
      [] i = 3 -> "BASELINE_MISMATCH"
      [] i = 5 -> "CANDIDATE_CONTROL_FAILED"
      [] i = 6 -> "REGRESSION_FAILED"
      [] OTHER -> "CANDIDATE_MISMATCH"]

FailedStep(steps, i) ==
    /\ steps[i] \in BadStates
    /\ \A j \in StepIds : j < i => steps[j] \notin BadStates

failed_step_outcome(steps) ==
    IF \E i \in DOMAIN LogicalFailures : FailedStep(steps, i)
    THEN LET i == CHOOSE i \in DOMAIN LogicalFailures : FailedStep(steps, i)
         IN <<"REJECTED", LogicalFailures[i]>>
    ELSE <<"UNAVAILABLE", "BUILD_FAILED">>

\* Statuses that Cloud Build reports for itself, not for a step.
OwnStatus == [s \in {"TIMEOUT", "INTERNAL_ERROR", "CANCELLED", "EXPIRED"} |->
    CASE s = "TIMEOUT"        -> "DEADLINE_EXCEEDED"
      [] s = "INTERNAL_ERROR" -> "BUILD_INTERNAL_ERROR"
      [] s = "CANCELLED"      -> "BUILD_CANCELLED"
      [] OTHER                -> "BUILD_EXPIRED"]

Complete(s) == s.status = "SUCCESS" /\ \A i \in StepIds : s.steps[i] = "SUCCESS"

\* The decision and failure code of _interpret, in the order of its tests.
Judgement(s) ==
    IF s.status \in DOMAIN OwnStatus THEN <<"UNAVAILABLE", OwnStatus[s.status]>>
    ELSE IF s.status # "SUCCESS" THEN failed_step_outcome(s.steps)
    ELSE IF ~Complete(s) THEN <<"UNAVAILABLE", "EVIDENCE_INCOMPLETE">>
    ELSE IF ~s.source THEN <<"REJECTED", "SOURCE_MISMATCH">>
    ELSE IF ~s.log THEN <<"UNAVAILABLE", "EVIDENCE_INCOMPLETE">>
    ELSE <<"VERIFIED", "NONE">>

interpret(s) ==
    [decision |-> Judgement(s)[1], code |-> Judgement(s)[2],
     baseline |-> baseline_result(s.steps[3]), candidate |-> pass_result(s.steps[5]),
     regression |-> pass_result(s.steps[6]),
     exact_candidate |-> Judgement(s)[1] = "VERIFIED", evidence |-> TRUE]

\* VerificationOutcome.publishable.
publishable(o) ==
    /\ o.decision = "VERIFIED" /\ o.code = "NONE"
    /\ o.baseline = "EXPECTED_FAILURE" /\ o.candidate = "PASS" /\ o.regression = "PASS"
    /\ o.exact_candidate

\* Mutant: a control that did not run counts as passed.
to_verification_receipt_inflated(o) ==
    [present |-> TRUE, publishable |-> publishable(o), isolated |-> o.evidence,
     exact_tree_verified |-> o.exact_candidate,
     baseline_control |-> IF o.baseline = "EXPECTED_FAILURE" THEN "FAIL" ELSE "NOT_RUN",
     candidate_control |-> IF o.candidate = "FAIL" THEN "FAIL" ELSE "PASS",
     regression_suite |-> IF o.regression = "FAIL" THEN "FAIL" ELSE "PASS"]

to_verification_receipt(o) ==
    [present |-> TRUE, publishable |-> publishable(o), isolated |-> o.evidence,
     exact_tree_verified |-> o.exact_candidate,
     baseline_control |-> IF o.baseline = "EXPECTED_FAILURE" THEN "FAIL" ELSE "NOT_RUN",
     candidate_control |-> IF o.candidate \in {"PASS", "FAIL"} THEN o.candidate ELSE "NOT_RUN",
     regression_suite |-> IF o.regression \in {"PASS", "FAIL"} THEN o.regression ELSE "NOT_RUN"]

-----------------------------------------------------------------------------
(* Steps of verify *)

Init ==
    /\ facts \in Facts
    /\ build = NoBuild /\ tree = "empty" /\ late = FALSE
    /\ pc = "prepare" /\ expired = FALSE
    /\ snapshot = NoSnapshot /\ outcome = NoOutcome
    /\ faults = 0

Fault == faults < MaxFaults /\ faults' = faults + 1

Running == build.status \in {"QUEUED", "WORKING"}

Return(o) == pc' = "done" /\ outcome' = o

\* build_trusted_cloud_build validates the artifact before anything is executed.
Prepare ==
    /\ pc = "prepare"
    /\ \/ facts.valid /\ pc' = "submit" /\ UNCHANGED outcome
       \/ ~facts.valid /\ Return(Result("REJECTED", "INVALID_ARTIFACT"))
    /\ UNCHANGED <<facts, cloud, expired, snapshot, faults>>

Submit ==
    /\ pc = "submit"
    /\ pc' = "submitting"
    /\ UNCHANGED <<facts, cloud, expired, snapshot, outcome, faults>>

\* The receipt of the submission names the build.
SubmissionAnswered ==
    /\ pc = "submitting" /\ build.status # "NONE"
    /\ pc' = "loop"
    /\ UNCHANGED <<facts, cloud, expired, snapshot, outcome, faults>>

\* No receipt: the build may exist, or the request may still arrive.
SubmissionFails ==
    /\ pc = "submitting"
    /\ Fault
    /\ Return(Result("UNAVAILABLE", "SUBMISSION_FAILED"))
    /\ late' \in {FALSE, build.status = "NONE"}
    /\ UNCHANGED <<facts, build, tree, expired, snapshot>>

\* Mutant: only the single poll has a timeout.
Loop_forever ==
    /\ pc = "loop"
    /\ pc' = "getting"
    /\ UNCHANGED <<facts, cloud, expired, snapshot, outcome, faults>>

\* The top of the polling loop.
Loop ==
    /\ pc = "loop"
    /\ pc' = IF expired THEN "cancelling" ELSE "getting"
    /\ UNCHANGED <<facts, cloud, expired, snapshot, outcome, faults>>

\* What a poll may read: the build as it is, possibly with a step or the log left out,
\* and the provenance of the source once it was fetched.
Readings ==
    {[status |-> build.status, steps |-> steps, source |-> tree \notin {"empty", "wrong"}, log |-> log]
        : steps \in {build.steps} \cup {[build.steps EXCEPT ![i] = "PENDING"] : i \in StepIds},
          log \in BOOLEAN}

Final(s) == s.status \in TERMINAL

GetAnswered ==
    /\ pc = "getting"
    /\ \E s \in Readings :
          /\ snapshot' = s
          /\ \/ Final(s) /\ Return(interpret(s))
             \/ ~Final(s) /\ pc' = "loop" /\ UNCHANGED outcome
    /\ UNCHANGED <<facts, cloud, expired, faults>>

\* The poll hangs until its own timeout, or until the deadline.
GetTimesOut ==
    /\ pc = "getting"
    /\ \/ expired /\ UNCHANGED faults
       \/ Fault
    /\ pc' = "cancelling"
    /\ UNCHANGED <<facts, cloud, expired, snapshot, outcome>>

\* Any other error of a poll gives up without cancelling the build.
GetFails ==
    /\ pc = "getting"
    /\ Fault
    /\ Return([Result("UNAVAILABLE", "POLL_FAILED") EXCEPT !.evidence = TRUE])
    /\ UNCHANGED <<facts, cloud, expired, snapshot>>

\* The steps that a cancelled build did not begin stay as they are.
Stopped(b) == IF b.status \in TERMINAL THEN b ELSE [b EXCEPT !.status = "CANCELLED"]

\* gateway.cancel, whose errors are ignored.
Cancel ==
    \/ build' = Stopped(build) /\ UNCHANGED faults
    \/ Fault /\ build' \in {build, Stopped(build)}

\* _cancelled_timeout.
CancelledTimeout ==
    /\ pc = "cancelling"
    /\ Cancel
    /\ Return([Result("UNAVAILABLE", "DEADLINE_EXCEEDED") EXCEPT !.evidence = TRUE])
    /\ UNCHANGED <<facts, tree, late, expired, snapshot>>

\* The task is cancelled: a submission is abandoned, a submitted build is cancelled.
TaskCancelled ==
    /\ pc \in {"submitting", "loop", "getting", "cancelling"}
    /\ Fault
    /\ pc' = IF pc = "submitting" THEN "gone" ELSE "stopping"
    /\ late' \in {FALSE, pc = "submitting" /\ build.status = "NONE"}
    /\ UNCHANGED <<facts, build, tree, expired, snapshot, outcome>>

CancelOnTheWayOut ==
    /\ pc = "stopping"
    /\ Cancel
    /\ pc' = "gone"
    /\ UNCHANGED <<facts, tree, late, expired, snapshot, outcome>>

\* The instance stops.
Crash ==
    /\ pc \notin {"done", "gone"}
    /\ Fault
    /\ pc' = "gone"
    /\ late' \in {FALSE, pc = "submitting" /\ build.status = "NONE"}
    /\ UNCHANGED <<facts, build, tree, expired, snapshot, outcome>>

Expire ==
    /\ pc \in {"loop", "getting"} /\ ~expired
    /\ expired' = TRUE
    /\ UNCHANGED <<facts, cloud, pc, snapshot, outcome, faults>>

-----------------------------------------------------------------------------
(* Cloud Build *)

\* The submission arrives, awaited or not.
Accept ==
    /\ build.status = "NONE"
    /\ pc = "submitting" \/ late
    /\ build' = [build EXCEPT !.status = "QUEUED"]
    /\ late' = FALSE
    /\ UNCHANGED <<facts, tree, pc, expired, snapshot, outcome, faults>>

\* The build leaves the queue and fetches the source.
StartBuild ==
    /\ build.status = "QUEUED"
    /\ build' = [build EXCEPT !.status = "WORKING"]
    /\ tree' = IF facts.source THEN "base" ELSE "wrong"
    /\ UNCHANGED <<facts, late, pc, expired, snapshot, outcome, faults>>

\* The step that a working build executes.
Current(i) ==
    /\ build.status = "WORKING"
    /\ build.steps[i] = "PENDING"
    /\ \A j \in StepIds : j < i => build.steps[j] = "SUCCESS"

\* Mutant: the final integrity step is left out of the build.
StepHolds_unfinished(i) ==
    CASE i = 1 -> tree = "base"
      [] i = 3 -> facts.defective
      [] i = 4 -> tree = "base"
      [] i = 5 -> facts.fixes
      [] i = 6 -> facts.passes
      [] OTHER -> TRUE

\* What each step requires; dependencies are installed in any case.  The workspace is what
\* the integrity steps can see: tracked files and the two hashed candidate files.  Files
\* that git ignores or does not track are outside of it.
StepHolds(i) ==
    CASE i = 1 -> tree = "base"
      [] i = 3 -> facts.defective
      [] i = 4 -> tree = "base"
      [] i = 5 -> facts.fixes
      [] i = 6 -> facts.passes
      [] i = 7 -> tree = "candidate"
      [] OTHER -> TRUE

Ended(i, state, status) == build' = [status |-> status, steps |-> [build.steps EXCEPT ![i] = state]]

\* A step ends as its script says; the code under test may change the workspace.
FinishStep ==
    \E i \in StepIds :
        /\ Current(i)
        /\ \/ /\ StepHolds(i)
              /\ Ended(i, "SUCCESS", IF i = Len(Steps) THEN "SUCCESS" ELSE "WORKING")
              /\ CASE i = 4 -> tree' = "candidate"
                   [] i \in {3, 5, 6} -> tree' \in {tree, "tampered"}
                   [] OTHER -> tree' = tree
           \/ ~StepHolds(i) /\ Ended(i, "FAILURE", "FAILURE") /\ UNCHANGED tree
        /\ UNCHANGED <<facts, late, pc, expired, snapshot, outcome, faults>>

\* A machine or a timeout of Cloud Build ends the build.
BuildBreaks ==
    /\ Running
    /\ Fault
    /\ \/ build.status = "QUEUED" /\ build' = [build EXCEPT !.status = "EXPIRED"]
       \/ build' = [build EXCEPT !.status = "INTERNAL_ERROR"]
       \/ \E i \in StepIds : /\ Current(i)
                             /\ \/ Ended(i, "TIMEOUT", "TIMEOUT")
                                \/ Ended(i, "CANCELLED", "CANCELLED")
                                \/ Ended(i, "FAILURE", "FAILURE")
    /\ UNCHANGED <<facts, tree, late, pc, expired, snapshot, outcome>>

Verifier ==
    \/ Prepare \/ Submit \/ SubmissionAnswered \/ SubmissionFails \/ Loop \/ GetAnswered
    \/ GetTimesOut \/ GetFails \/ CancelledTimeout \/ CancelOnTheWayOut

CloudBuild == Accept \/ StartBuild \/ FinishStep

\* The verification and its build are over.
Over == pc \in {"done", "gone"} /\ ~Running /\ ~late

Next == Verifier \/ CloudBuild \/ TaskCancelled \/ Crash \/ Expire \/ BuildBreaks
        \/ (Over /\ UNCHANGED vars)

Spec == Init /\ [][Next]_vars

\* The call goes on, the clock runs, and Cloud Build accepts what it was sent.  Builds need
\* not make progress.
FairSpec == Spec /\ WF_vars(Verifier) /\ WF_vars(Expire) /\ WF_vars(Accept)

-----------------------------------------------------------------------------
\* What a draft pull request may rely on: the approved artifact, on the exact base, which
\* fails the control, with the candidate passing both, and the bytes unchanged at the end.
Proven ==
    /\ facts = [valid |-> TRUE, source |-> TRUE, defective |-> TRUE, fixes |-> TRUE, passes |-> TRUE]
    /\ build.status = "SUCCESS" /\ tree = "candidate"

\* The planner takes a receipt for a proof only if the build proved the candidate, whatever
\* polls miss, and whenever the verifier gives up or the build breaks.
ReceiptProvesCandidate == receipt_proves_candidate(to_verification_receipt(outcome)) => Proven

\* "without inflating claims": every result of a receipt is the result of a step that ran,
\* and a build that Cloud Build stopped for its own reasons is no evidence against the
\* candidate either.
ReceiptNotInflated ==
    LET receipt == to_verification_receipt(outcome)
    IN /\ receipt.baseline_control = "FAIL" => facts.defective /\ build.steps[3] = "SUCCESS"
       /\ receipt.candidate_control = "PASS" => facts.fixes /\ build.steps[5] = "SUCCESS"
       /\ receipt.regression_suite = "PASS" => facts.passes /\ build.steps[6] = "SUCCESS"
       /\ receipt.isolated => build.status # "NONE"
       /\ outcome.decision = "REJECTED" => build.status \in {"NONE", "SUCCESS", "FAILURE"}

\* The overall deadline ends every verification, also when its build never does.
EventuallyOver == <>(pc \in {"done", "gone"})
=============================================================================
