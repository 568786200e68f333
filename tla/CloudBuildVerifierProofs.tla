---------------------- MODULE CloudBuildVerifierProofs ----------------------
(***************************************************************************)
(* Theorems about CloudBuildVerifier, for every number of faults: what a   *)
(* verification receipt says is true of the build and of the candidate.    *)
(***************************************************************************)
EXTENDS CloudBuildVerifier, TLAPS

\* There are seven steps.
LEMMA SevenSteps == StepIds = 1 .. 7 /\ Len(Steps) = 7
BY DEF StepIds, Steps

-----------------------------------------------------------------------------
(* Interpretation *)

\* A failing step is reported with one of the failure codes.
LEMMA FailedStepType ==
    ASSUME NEW steps
    PROVE  \/ \E code \in Codes : failed_step_outcome(steps) = <<"REJECTED", code>>
           \/ failed_step_outcome(steps) = <<"UNAVAILABLE", "BUILD_FAILED">>
<1>1. \A i \in DOMAIN LogicalFailures : LogicalFailures[i] \in Codes
  BY DEF LogicalFailures, Codes
<1>2. CASE \E i \in DOMAIN LogicalFailures : FailedStep(steps, i)
  <2> DEFINE first == CHOOSE i \in DOMAIN LogicalFailures : FailedStep(steps, i)
  <2>1. first \in DOMAIN LogicalFailures
    BY <1>2
  <2>2. failed_step_outcome(steps) = <<"REJECTED", LogicalFailures[first]>>
    BY <1>2 DEF failed_step_outcome
  <2> HIDE DEF first
  <2> QED BY <1>1, <2>1, <2>2
<1>3. CASE ~\E i \in DOMAIN LogicalFailures : FailedStep(steps, i)
  BY <1>3 DEF failed_step_outcome
<1> QED BY <1>2, <1>3

\* _interpret decides with a code of its own; it verifies only a complete snapshot, and
\* rejects only what a step or the provenance of a finished build says.
LEMMA JudgementIs ==
    ASSUME NEW s
    PROVE  \E decision \in Decisions : \E code \in Codes :
              /\ Judgement(s) = <<decision, code>>
              /\ decision = "VERIFIED" => Complete(s)
              /\ decision = "REJECTED" => s.status \notin DOMAIN OwnStatus
<1>0. /\ {"UNAVAILABLE", "REJECTED", "VERIFIED"} \subseteq Decisions
      /\ {"NONE", "BUILD_FAILED", "EVIDENCE_INCOMPLETE", "SOURCE_MISMATCH"} \subseteq Codes
      /\ \A status \in DOMAIN OwnStatus : OwnStatus[status] \in Codes
  BY DEF Decisions, Codes, OwnStatus
<1>1. CASE s.status \in DOMAIN OwnStatus
  <2>1. Judgement(s) = <<"UNAVAILABLE", OwnStatus[s.status]>>
    BY <1>1 DEF Judgement
  <2> QED BY <1>0, <1>1, <2>1
<1>2. CASE s.status \notin DOMAIN OwnStatus /\ s.status # "SUCCESS"
  <2>1. Judgement(s) = failed_step_outcome(s.steps)
    BY <1>2 DEF Judgement
  <2> QED BY <1>0, <1>2, <2>1, FailedStepType
<1>3. CASE s.status \notin DOMAIN OwnStatus /\ s.status = "SUCCESS"
  <2>1. \/ Judgement(s) = <<"UNAVAILABLE", "EVIDENCE_INCOMPLETE">>
        \/ Judgement(s) = <<"REJECTED", "SOURCE_MISMATCH">>
        \/ Judgement(s) = <<"VERIFIED", "NONE">> /\ Complete(s)
    BY <1>3 DEF Judgement
  <2> QED BY <1>0, <1>3, <2>1
<1> QED BY <1>1, <1>2, <1>3

\* The results of the three controls are those of their steps.
LEMMA ResultsAre ==
    ASSUME NEW state
    PROVE  /\ baseline_result(state) \in CheckResults /\ pass_result(state) \in CheckResults
           /\ baseline_result(state) = "EXPECTED_FAILURE" => state = "SUCCESS"
           /\ pass_result(state) = "PASS" => state = "SUCCESS"
BY DEF baseline_result, pass_result, CheckResults, BadStates

\* What the interpretation of a snapshot claims.
LEMMA InterpretIs ==
    ASSUME NEW s
    PROVE  /\ interpret(s) \in Outcomes
           /\ interpret(s).decision = "VERIFIED" => Complete(s)
           /\ interpret(s).decision = "REJECTED" => s.status \notin DOMAIN OwnStatus
           /\ interpret(s).baseline = "EXPECTED_FAILURE" => s.steps[3] = "SUCCESS"
           /\ interpret(s).candidate = "PASS" => s.steps[5] = "SUCCESS"
           /\ interpret(s).regression = "PASS" => s.steps[6] = "SUCCESS"
<1>1. PICK decision \in Decisions, code \in Codes :
        /\ Judgement(s) = <<decision, code>>
        /\ decision = "VERIFIED" => Complete(s)
        /\ decision = "REJECTED" => s.status \notin DOMAIN OwnStatus
  BY JudgementIs
<1>2. Judgement(s)[1] = decision /\ Judgement(s)[2] = code
  BY <1>1
<1>3. (decision = "VERIFIED") \in BOOLEAN
  OBVIOUS
<1> QED BY <1>1, <1>2, <1>3, ResultsAre DEF interpret, Outcomes

\* The outcomes that no build is interpreted for.
LEMMA ResultType ==
    ASSUME NEW decision \in Decisions, NEW code \in Codes
    PROVE  /\ Result(decision, code) \in Outcomes
           /\ [Result(decision, code) EXCEPT !.evidence = TRUE] \in Outcomes
BY DEF Result, Outcomes, CheckResults

-----------------------------------------------------------------------------
(* Types *)

\* A counted fault stays within its bound.
LEMMA FaultType ==
    ASSUME faults \in 0 .. MaxFaults, Fault
    PROVE  faults' \in 0 .. MaxFaults
BY FaultAssumption DEF Fault

\* What a poll reads is a snapshot, whose successful steps succeeded in the build.
LEMMA ReadingIs ==
    ASSUME build \in Builds, NEW s \in Readings
    PROVE  /\ s \in Snapshots /\ s.status = build.status
           /\ \A i \in StepIds : s.steps[i] = "SUCCESS" => build.steps[i] = "SUCCESS"
<1>1. PICK steps \in {build.steps} \cup {[build.steps EXCEPT ![i] = "PENDING"] : i \in StepIds},
           log \in BOOLEAN :
        s = [status |-> build.status, steps |-> steps,
             source |-> tree \notin {"empty", "wrong"}, log |-> log]
  BY DEF Readings
<1>2. build.steps \in [StepIds -> StepStates] /\ "PENDING" \in StepStates
  BY DEF Builds, StepStates
<1>3. /\ steps \in [StepIds -> StepStates]
      /\ \A i \in StepIds : steps[i] = "SUCCESS" => build.steps[i] = "SUCCESS"
  BY <1>1, <1>2
<1>4. (tree \notin {"empty", "wrong"}) \in BOOLEAN
  OBVIOUS
<1> QED BY <1>1, <1>3, <1>4 DEF Snapshots, Builds

\* A cancelled build is a build with the same steps, and an ended one stays as it is.
LEMMA StoppedIs ==
    ASSUME build \in Builds
    PROVE  /\ Stopped(build) \in Builds /\ Stopped(build).steps = build.steps
           /\ Stopped(build).status \in {build.status, "CANCELLED"}
           /\ build.status \in TERMINAL => Stopped(build) = build
           /\ build.status \notin TERMINAL => Stopped(build).status = "CANCELLED"
BY DEF Stopped, Builds, TERMINAL

\* A step that ends leaves a build.
LEMMA EndedType ==
    ASSUME build \in Builds, NEW i \in StepIds, NEW state \in StepStates,
           NEW status \in TERMINAL \cup {"WORKING"}, Ended(i, state, status)
    PROVE  build' \in Builds
BY DEF Builds, Ended

\* The steps of the verifier keep the types.
LEMMA VerifierType ==
    ASSUME TypeOK, Verifier
    PROVE  TypeOK'
<1>0. /\ {"REJECTED", "UNAVAILABLE"} \subseteq Decisions
      /\ {"INVALID_ARTIFACT", "SUBMISSION_FAILED", "POLL_FAILED", "DEADLINE_EXCEEDED"} \subseteq Codes
      /\ {"submit", "submitting", "loop", "getting", "cancelling", "done", "gone"} \subseteq Points
  BY DEF Decisions, Codes, Points
<1>1. CASE Prepare
  <2>1. pc' \in Points /\ outcome' \in Outcomes
    BY <1>0, <1>1, ResultType DEF Prepare, Return, TypeOK
  <2> QED BY <1>1, <2>1 DEF Prepare, cloud, TypeOK
<1>2. CASE Submit \/ SubmissionAnswered \/ Loop
  <2>1. pc' \in Points
    BY <1>0, <1>2 DEF Submit, SubmissionAnswered, Loop
  <2> QED BY <1>2, <2>1 DEF Submit, SubmissionAnswered, Loop, cloud, TypeOK
<1>3. CASE SubmissionFails
  <2>1. pc' \in Points /\ outcome' \in Outcomes /\ faults' \in 0 .. MaxFaults
    BY <1>0, <1>3, ResultType, FaultType DEF SubmissionFails, Return, TypeOK
  <2>2. late' \in BOOLEAN
    BY <1>3 DEF SubmissionFails
  <2> QED BY <1>3, <2>1, <2>2 DEF SubmissionFails, TypeOK
<1>4. CASE GetAnswered
  <2>1. PICK s \in Readings :
          /\ snapshot' = s
          /\ \/ Final(s) /\ Return(interpret(s))
             \/ ~Final(s) /\ pc' = "loop" /\ UNCHANGED outcome
    BY <1>4 DEF GetAnswered
  <2>2. snapshot' \in Snapshots
    BY <2>1, ReadingIs DEF TypeOK
  <2>3. pc' \in Points /\ outcome' \in Outcomes
    BY <1>0, <2>1, InterpretIs DEF Return, TypeOK
  <2> QED BY <1>4, <2>2, <2>3 DEF GetAnswered, cloud, TypeOK
<1>5. CASE GetTimesOut
  <2>1. pc' \in Points /\ faults' \in 0 .. MaxFaults
    BY <1>0, <1>5, FaultType DEF GetTimesOut, TypeOK
  <2> QED BY <1>5, <2>1 DEF GetTimesOut, cloud, TypeOK
<1>6. CASE GetFails
  <2>1. pc' \in Points /\ outcome' \in Outcomes /\ faults' \in 0 .. MaxFaults
    BY <1>0, <1>6, ResultType, FaultType DEF GetFails, Return, TypeOK
  <2> QED BY <1>6, <2>1 DEF GetFails, cloud, TypeOK
<1>7. ASSUME Cancel PROVE build' \in Builds /\ faults' \in 0 .. MaxFaults
  BY <1>7, StoppedIs, FaultType DEF Cancel, TypeOK
<1>8. CASE CancelledTimeout
  <2>1. pc' \in Points /\ outcome' \in Outcomes
    BY <1>0, <1>8, ResultType DEF CancelledTimeout, Return
  <2> QED BY <1>7, <1>8, <2>1 DEF CancelledTimeout, TypeOK
<1>9. CASE CancelOnTheWayOut
  BY <1>0, <1>7, <1>9 DEF CancelOnTheWayOut, TypeOK
<1> QED BY <1>1, <1>2, <1>3, <1>4, <1>5, <1>6, <1>8, <1>9 DEF Verifier

\* So do the steps of Cloud Build, crashes and the clock.
LEMMA EnvironmentType ==
    ASSUME TypeOK, CloudBuild \/ TaskCancelled \/ Crash \/ Expire \/ BuildBreaks \/ UNCHANGED vars
    PROVE  TypeOK'
<1>0. {"gone", "stopping"} \subseteq Points
  BY DEF Points
<1>a. \A status \in TERMINAL \cup {"QUEUED", "WORKING"} :
         [build EXCEPT !.status = status] \in Builds
  BY DEF TypeOK, Builds
<1>b. /\ {"EXPIRED", "INTERNAL_ERROR", "TIMEOUT", "CANCELLED", "FAILURE", "SUCCESS"} \subseteq TERMINAL
      /\ {"TIMEOUT", "CANCELLED", "FAILURE", "SUCCESS"} \subseteq StepStates
  BY DEF TERMINAL, StepStates
<1>1. CASE Accept
  BY <1>1, <1>a DEF Accept, TypeOK
<1>2. CASE StartBuild
  <2>1. tree' \in Trees
    BY <1>2 DEF StartBuild, Trees
  <2> QED BY <1>2, <1>a, <2>1 DEF StartBuild, TypeOK
<1>3. CASE FinishStep
  <2>1. PICK i \in StepIds :
          /\ \/ /\ Ended(i, "SUCCESS", IF i = Len(Steps) THEN "SUCCESS" ELSE "WORKING")
                /\ tree' \in {"candidate", "tampered", tree}
             \/ Ended(i, "FAILURE", "FAILURE") /\ UNCHANGED tree
          /\ UNCHANGED <<facts, late, pc, expired, snapshot, outcome, faults>>
    BY <1>3 DEF FinishStep
  <2>2. build' \in Builds
    BY <1>b, <2>1, EndedType DEF TypeOK
  <2>3. tree' \in Trees
    BY <2>1 DEF TypeOK, Trees
  <2> QED BY <2>1, <2>2, <2>3 DEF TypeOK
<1>4. CASE BuildBreaks
  <2>1. build' \in Builds
    BY <1>4, <1>a, <1>b, EndedType DEF BuildBreaks, TypeOK
  <2>2. faults' \in 0 .. MaxFaults
    BY <1>4, FaultType DEF BuildBreaks, TypeOK
  <2> QED BY <1>4, <2>1, <2>2 DEF BuildBreaks, TypeOK
<1>5. CASE TaskCancelled \/ Crash
  <2>1. pc' \in Points /\ late' \in BOOLEAN
    BY <1>0, <1>5 DEF TaskCancelled, Crash
  <2>2. faults' \in 0 .. MaxFaults
    BY <1>5, FaultType DEF TaskCancelled, Crash, TypeOK
  <2> QED BY <1>5, <2>1, <2>2 DEF TaskCancelled, Crash, TypeOK
<1>6. CASE Expire
  BY <1>6 DEF Expire, cloud, TypeOK
<1>7. CASE UNCHANGED vars
  BY <1>7 DEF vars, cloud, TypeOK
<1> QED BY <1>1, <1>2, <1>3, <1>4, <1>5, <1>6, <1>7 DEF CloudBuild

\* Every outcome has the decisions, codes and results of the verifier's enumerations,
\* also when the code of a build's own status is translated.
THEOREM TypeCorrect == Spec => []TypeOK
<1>1. Init => TypeOK
  <2> SUFFICES ASSUME Init PROVE TypeOK
    OBVIOUS
  <2>1. NoOutcome \in Outcomes
    BY ResultType DEF NoOutcome, Decisions, Codes
  <2>2. NoBuild \in Builds /\ NoSnapshot \in Snapshots
    BY DEF NoBuild, Builds, NoSnapshot, Snapshots, StepStates
  <2>3. 0 \in 0 .. MaxFaults
    BY FaultAssumption
  <2>4. "empty" \in Trees /\ "prepare" \in Points
    BY DEF Trees, Points
  <2> QED BY <2>1, <2>2, <2>3, <2>4 DEF Init, TypeOK
<1>2. TypeOK /\ [Next]_vars => TypeOK'
  BY VerifierType, EnvironmentType DEF Next
<1> QED BY <1>1, <1>2, PTL DEF Spec

-----------------------------------------------------------------------------
(* What a build's steps say, and what an outcome says about its build.      *)

\* The build's side.  A step succeeds after all before it, and only if what its script
\* tests is true; the last one finds the exact candidate.
BuildTruthful ==
    /\ tree = "base" => facts.source
    /\ \A i, j \in StepIds : j < i /\ build.steps[i] = "SUCCESS" => build.steps[j] = "SUCCESS"
    /\ build.steps[1] = "SUCCESS" => facts.source
    /\ build.steps[3] = "SUCCESS" => facts.defective
    /\ build.steps[5] = "SUCCESS" => facts.fixes
    /\ build.steps[6] = "SUCCESS" => facts.passes
    /\ build.status = "SUCCESS" => build.steps[7] = "SUCCESS" /\ tree = "candidate"

\* The verifier's side.  Nothing is executed for an invalid artifact, and the polling loop
\* works on a build that exists.
Engaged == pc \notin {"prepare", "done", "gone"} \/ late \/ build.status # "NONE"

CallTruthful ==
    /\ Engaged => facts.valid
    /\ pc \in {"loop", "getting", "cancelling", "stopping"} => build.status # "NONE"

\* The outcome's side.  A rejection without a build is one of the artifact, after which no
\* build appears.
OutcomeTruthful ==
    /\ outcome.decision = "VERIFIED" => build.status = "SUCCESS"
    /\ outcome.decision = "REJECTED" =>
          \/ build.status \in {"SUCCESS", "FAILURE"}
          \/ build.status = "NONE" /\ pc = "done" /\ ~late
    /\ outcome.baseline = "EXPECTED_FAILURE" => build.steps[3] = "SUCCESS"
    /\ outcome.candidate = "PASS" => build.steps[5] = "SUCCESS"
    /\ outcome.regression = "PASS" => build.steps[6] = "SUCCESS"
    /\ outcome.evidence => build.status # "NONE"

VerifierInv == BuildTruthful /\ CallTruthful /\ OutcomeTruthful

\* Between two states of a build nothing that an outcome relies on is taken back.
Persists ==
    /\ \A i \in StepIds : build.steps[i] = "SUCCESS" => build'.steps[i] = "SUCCESS"
    /\ build.status \in TERMINAL => build'.status = build.status
    /\ build.status # "NONE" => build'.status # "NONE"

\* The build as it is, or cancelled, with the same workspace.
LEMMA CancelKeeps ==
    ASSUME TypeOK, BuildTruthful, build' \in {build, Stopped(build)}, UNCHANGED <<facts, tree>>
    PROVE  BuildTruthful' /\ Persists
<1>1. /\ build'.steps = build.steps
      /\ build'.status = build.status \/ (build'.status = "CANCELLED" /\ build.status \notin TERMINAL)
  BY StoppedIs DEF TypeOK
<1> QED BY <1>1 DEF BuildTruthful, Persists

\* An unchanged or persisting build bears out an unchanged outcome.
LEMMA OutcomeStays ==
    ASSUME TypeOK, OutcomeTruthful, Persists, UNCHANGED outcome,
           build.status = "NONE" /\ pc = "done" /\ ~late =>
               build'.status = "NONE" /\ pc' = "done" /\ ~late'
    PROVE  OutcomeTruthful'
<1>1. {3, 5, 6} \subseteq StepIds
  BY SevenSteps
<1>2. {"SUCCESS", "FAILURE"} \subseteq TERMINAL
  BY DEF TERMINAL
<1> QED BY <1>1, <1>2 DEF OutcomeTruthful, Persists

\* An outcome that was not interpreted claims no result.
LEMMA ResultTruthful ==
    ASSUME NEW decision, NEW code, NEW o \in {Result(decision, code), [Result(decision, code) EXCEPT !.evidence = TRUE]},
           outcome' = o, decision # "VERIFIED",
           decision = "REJECTED" => build'.status = "NONE" /\ pc' = "done" /\ ~late',
           o.evidence => build'.status # "NONE"
    PROVE  OutcomeTruthful'
<1>1. /\ o.decision = decision /\ o.baseline = "NOT_RUN" /\ o.candidate = "NOT_RUN"
      /\ o.regression = "NOT_RUN"
  BY DEF Result
<1> QED BY <1>1 DEF OutcomeTruthful

\* The verifier's steps keep the invariant: an interpretation claims what the build's own
\* steps say, and a build that has ended is final.
LEMMA VerifierTruthful ==
    ASSUME TypeOK, VerifierInv, Verifier
    PROVE  VerifierInv'
<1>0. BuildTruthful /\ CallTruthful /\ OutcomeTruthful
  BY DEF VerifierInv
<1>a. ASSUME UNCHANGED <<facts, build, tree>> PROVE BuildTruthful' /\ Persists
  BY <1>0, <1>a DEF BuildTruthful, Persists
<1>1. CASE Prepare
  <2>1. UNCHANGED <<facts, build, tree, late>>
    BY <1>1 DEF Prepare, cloud
  <2>2. CASE facts.valid /\ pc' = "submit" /\ UNCHANGED outcome
    <3>1. CallTruthful'
      BY <1>0, <2>1, <2>2 DEF CallTruthful, Engaged
    <3>2. OutcomeTruthful'
      BY <1>0, <1>1, <1>a, <2>1, <2>2, OutcomeStays DEF Prepare
    <3> QED BY <1>a, <2>1, <3>1, <3>2 DEF VerifierInv
  <2>3. CASE ~facts.valid /\ Return(Result("REJECTED", "INVALID_ARTIFACT"))
    <3>1. build.status = "NONE" /\ ~late
      BY <1>0, <2>3 DEF CallTruthful, Engaged
    <3>2. ~Result("REJECTED", "INVALID_ARTIFACT").evidence
      BY DEF Result
    <3>3. OutcomeTruthful'
      BY <2>1, <2>3, <3>1, <3>2, ResultTruthful DEF Return
    <3>4. CallTruthful'
      BY <2>1, <2>3, <3>1 DEF CallTruthful, Engaged, Return
    <3> QED BY <1>a, <2>1, <3>3, <3>4 DEF VerifierInv
  <2> QED BY <1>1, <2>2, <2>3 DEF Prepare
<1>2. CASE Submit \/ SubmissionAnswered \/ Loop \/ GetTimesOut
  <2>1. UNCHANGED <<facts, build, tree, late, outcome>> /\ pc \notin {"prepare", "done", "gone"}
    BY <1>2 DEF Submit, SubmissionAnswered, Loop, GetTimesOut, cloud
  <2>2. pc' \in {"loop", "getting", "cancelling", "stopping"} => build.status # "NONE"
    BY <1>0, <1>2 DEF Submit, SubmissionAnswered, Loop, GetTimesOut, CallTruthful
  <2>3. CallTruthful'
    BY <1>0, <2>1, <2>2 DEF CallTruthful, Engaged
  <2>4. OutcomeTruthful'
    BY <1>0, <1>a, <2>1, OutcomeStays
  <2> QED BY <1>a, <2>1, <2>3, <2>4 DEF VerifierInv
<1>3. CASE SubmissionFails
  <2>1. /\ UNCHANGED <<facts, build, tree>> /\ pc = "submitting" /\ pc' = "done"
        /\ outcome' = Result("UNAVAILABLE", "SUBMISSION_FAILED")
    BY <1>3 DEF SubmissionFails, Return
  <2>2. ~Result("UNAVAILABLE", "SUBMISSION_FAILED").evidence
    BY DEF Result
  <2>3. OutcomeTruthful'
    BY <2>1, <2>2, ResultTruthful
  <2>4. CallTruthful'
    BY <1>0, <2>1 DEF CallTruthful, Engaged
  <2> QED BY <1>a, <2>1, <2>3, <2>4 DEF VerifierInv
<1>4. CASE GetAnswered
  <2>1. PICK s \in Readings :
          \/ Final(s) /\ Return(interpret(s))
          \/ ~Final(s) /\ pc' = "loop" /\ UNCHANGED outcome
    BY <1>4 DEF GetAnswered
  <2>2. UNCHANGED <<facts, build, tree, late>> /\ pc = "getting"
    BY <1>4 DEF GetAnswered, cloud
  <2>3. CallTruthful'
    BY <1>0, <2>1, <2>2 DEF CallTruthful, Engaged, Return
  <2>4. CASE ~Final(s) /\ pc' = "loop" /\ UNCHANGED outcome
    BY <1>0, <1>a, <2>2, <2>3, <2>4, OutcomeStays DEF VerifierInv
  <2>5. CASE Final(s) /\ Return(interpret(s))
    <3>1. /\ s.status = build.status
          /\ \A i \in StepIds : s.steps[i] = "SUCCESS" => build.steps[i] = "SUCCESS"
      BY ReadingIs DEF TypeOK
    <3>2. {3, 5, 6} \subseteq StepIds
      BY SevenSteps
    <3>3. s.status \in TERMINAL /\ s.status # "NONE" /\ outcome' = interpret(s)
      BY <2>5 DEF Final, Return, TERMINAL
    <3>4. s.status \notin DOMAIN OwnStatus => s.status \in {"SUCCESS", "FAILURE"}
      BY <3>3 DEF OwnStatus, TERMINAL
    <3>5. OutcomeTruthful'
      BY <2>2, <3>1, <3>2, <3>3, <3>4, InterpretIs DEF OutcomeTruthful, Complete
    <3> QED BY <1>a, <2>2, <2>3, <3>5 DEF VerifierInv
  <2> QED BY <2>1, <2>4, <2>5
<1>5. CASE GetFails
  <2>1. /\ UNCHANGED <<facts, build, tree, late>> /\ pc = "getting" /\ pc' = "done"
        /\ outcome' = [Result("UNAVAILABLE", "POLL_FAILED") EXCEPT !.evidence = TRUE]
    BY <1>5 DEF GetFails, Return, cloud
  <2>2. build.status # "NONE"
    BY <1>0, <2>1 DEF CallTruthful
  <2>3. OutcomeTruthful'
    BY <2>1, <2>2, ResultTruthful
  <2>4. CallTruthful'
    BY <1>0, <2>1 DEF CallTruthful, Engaged
  <2> QED BY <1>a, <2>1, <2>3, <2>4 DEF VerifierInv
<1>6. ASSUME Cancel PROVE build' \in {build, Stopped(build)}
  BY <1>6 DEF Cancel
<1>7. CASE CancelledTimeout
  <2>1. /\ Cancel /\ UNCHANGED <<facts, tree, late>> /\ pc = "cancelling" /\ pc' = "done"
        /\ outcome' = [Result("UNAVAILABLE", "DEADLINE_EXCEEDED") EXCEPT !.evidence = TRUE]
    BY <1>7 DEF CancelledTimeout, Return
  <2>2. BuildTruthful' /\ Persists
    BY <1>0, <1>6, <2>1, CancelKeeps
  <2>3. build'.status # "NONE"
    BY <1>0, <2>1, <2>2 DEF CallTruthful, Persists
  <2>4. OutcomeTruthful'
    BY <2>1, <2>3, ResultTruthful
  <2>5. CallTruthful'
    BY <1>0, <2>1 DEF CallTruthful, Engaged
  <2> QED BY <2>2, <2>4, <2>5 DEF VerifierInv
<1>8. CASE CancelOnTheWayOut
  <2>1. /\ Cancel /\ UNCHANGED <<facts, tree, late, outcome>> /\ pc = "stopping" /\ pc' = "gone"
    BY <1>8 DEF CancelOnTheWayOut
  <2>2. BuildTruthful' /\ Persists
    BY <1>0, <1>6, <2>1, CancelKeeps
  <2>3. CallTruthful'
    BY <1>0, <2>1 DEF CallTruthful, Engaged
  <2>4. OutcomeTruthful'
    BY <1>0, <2>1, <2>2, OutcomeStays
  <2> QED BY <2>2, <2>3, <2>4 DEF VerifierInv
<1> QED BY <1>1, <1>2, <1>3, <1>4, <1>5, <1>7, <1>8 DEF Verifier

\* The steps of Cloud Build keep it.  A build appears only for a valid artifact.
LEMMA CloudTruthful ==
    ASSUME TypeOK, VerifierInv, CloudBuild \/ BuildBreaks
    PROVE  VerifierInv'
<1>0. /\ BuildTruthful /\ CallTruthful /\ OutcomeTruthful
      /\ UNCHANGED <<facts, pc, outcome>>
      /\ build.steps \in [StepIds -> StepStates]
  BY DEF VerifierInv, TypeOK, Builds, CloudBuild, BuildBreaks, Accept, StartBuild, FinishStep
<1>a. ASSUME BuildTruthful', Persists, build'.status # "NONE",
             late' => late, pc = "submitting" \/ late \/ build.status # "NONE"
      PROVE  VerifierInv'
  <2>1. CallTruthful'
    BY <1>0, <1>a DEF CallTruthful, Engaged
  <2>2. ~(build.status = "NONE" /\ pc = "done" /\ ~late)
    BY <1>a
  <2>3. OutcomeTruthful'
    BY <1>0, <1>a, <2>2, OutcomeStays
  <2> QED BY <1>a, <2>1, <2>3 DEF VerifierInv
<1>b. ASSUME NEW status, build' = [build EXCEPT !.status = status],
             status \notin {"NONE", "SUCCESS"}, build.status \notin TERMINAL,
             tree' = "base" => facts.source
      PROVE  BuildTruthful' /\ Persists /\ build'.status # "NONE"
  <2>1. build'.steps = build.steps /\ build'.status = status
    BY <1>b DEF TypeOK, Builds
  <2> QED BY <1>0, <1>b, <2>1 DEF BuildTruthful, Persists
<1>1. CASE Accept
  <2>1. BuildTruthful' /\ Persists /\ build'.status # "NONE"
    BY <1>0, <1>1, <1>b DEF Accept, TERMINAL, BuildTruthful
  <2> QED BY <1>1, <1>a, <2>1 DEF Accept
<1>2. CASE StartBuild
  <2>1. BuildTruthful' /\ Persists /\ build'.status # "NONE"
    BY <1>2, <1>b DEF StartBuild, TERMINAL
  <2> QED BY <1>2, <1>a, <2>1 DEF StartBuild
<1>c. ASSUME NEW i \in StepIds, Current(i), NEW state, NEW status, Ended(i, state, status)
      PROVE  /\ build.status = "WORKING" /\ build'.status = status
             /\ build.steps[i] = "PENDING" /\ build'.steps[i] = state
             /\ \A j \in StepIds : j < i => build.steps[j] = "SUCCESS"
             /\ \A j \in StepIds \ {i} : build'.steps[j] = build.steps[j]
  BY <1>0, <1>c DEF Current, Ended
<1>d. ASSUME NEW i \in StepIds, Current(i), NEW state \in BadStates, NEW status \in TERMINAL \ {"SUCCESS"},
             Ended(i, state, status), UNCHANGED <<tree, late>>
      PROVE  VerifierInv'
  <2>1. state # "SUCCESS" /\ status \notin {"NONE", "SUCCESS"}
    BY <1>d DEF BadStates, TERMINAL
  <2>2. build.status = "WORKING" /\ "WORKING" \notin TERMINAL
    BY <1>d DEF Current, TERMINAL
  <2>3. \A j \in StepIds : build'.steps[j] = "SUCCESS" <=> build.steps[j] = "SUCCESS"
    BY <1>c, <1>d, <2>1
  <2>4. build'.status = status
    BY <1>d DEF Ended
  <2>5. {1, 3, 5, 6, 7} \subseteq StepIds
    BY SevenSteps
  <2>6. BuildTruthful' /\ Persists
    BY <1>0, <1>d, <2>1, <2>2, <2>3, <2>4, <2>5 DEF BuildTruthful, Persists
  <2> QED BY <1>a, <1>d, <2>1, <2>2, <2>4, <2>6
<1>3. CASE FinishStep
  <2>1. PICK i \in StepIds :
          /\ Current(i)
          /\ \/ /\ StepHolds(i)
                /\ Ended(i, "SUCCESS", IF i = Len(Steps) THEN "SUCCESS" ELSE "WORKING")
                /\ CASE i = 4 -> tree' = "candidate"
                     [] i \in {3, 5, 6} -> tree' \in {tree, "tampered"}
                     [] OTHER -> tree' = tree
             \/ ~StepHolds(i) /\ Ended(i, "FAILURE", "FAILURE") /\ UNCHANGED tree
          /\ UNCHANGED late
    BY <1>3 DEF FinishStep
  <2>2. CASE Ended(i, "FAILURE", "FAILURE") /\ UNCHANGED tree
    BY <1>d, <2>1, <2>2 DEF BadStates, TERMINAL
  <2>3. CASE /\ StepHolds(i)
             /\ Ended(i, "SUCCESS", IF i = Len(Steps) THEN "SUCCESS" ELSE "WORKING")
             /\ CASE i = 4 -> tree' = "candidate"
                  [] i \in {3, 5, 6} -> tree' \in {tree, "tampered"}
                  [] OTHER -> tree' = tree
    <3>0. StepIds = 1 .. 7 /\ i \in 1 .. 7 /\ Len(Steps) = 7
      BY SevenSteps
    <3>1. /\ build.status = "WORKING" /\ build'.status = (IF i = 7 THEN "SUCCESS" ELSE "WORKING")
          /\ build.steps[i] = "PENDING" /\ build'.steps[i] = "SUCCESS"
          /\ \A j \in 1 .. 7 : j < i => build.steps[j] = "SUCCESS"
          /\ \A j \in 1 .. 7 : j # i => build'.steps[j] = build.steps[j]
      BY <1>c, <2>1, <2>3, <3>0
    <3>2. Persists /\ build'.status # "NONE"
      BY <3>0, <3>1 DEF Persists, TERMINAL
    <3>3. /\ tree' = "base" => tree = "base"
          /\ i = 1 => facts.source
          /\ i = 3 => facts.defective
          /\ i = 5 => facts.fixes
          /\ i = 6 => facts.passes
          /\ i = 7 => tree = "candidate" /\ tree' = tree
      BY <1>0, <2>3, <3>0 DEF StepHolds, BuildTruthful
    <3>4. \A m, j \in 1 .. 7 : j < m /\ build'.steps[m] = "SUCCESS" => build'.steps[j] = "SUCCESS"
      <4> SUFFICES ASSUME NEW m \in 1 .. 7, NEW j \in 1 .. 7, j < m, build'.steps[m] = "SUCCESS"
                   PROVE  build'.steps[j] = "SUCCESS"
        OBVIOUS
      <4>1. CASE m = i
        BY <3>1, <4>1
      <4>2. CASE m # i
        BY <1>0, <3>0, <3>1, <4>2 DEF BuildTruthful
      <4> QED BY <4>1, <4>2
    <3>5. \A j \in {1, 3, 5, 6} : build'.steps[j] = "SUCCESS" => j = i \/ build.steps[j] = "SUCCESS"
      BY <3>1
    <3>6. BuildTruthful'
      BY <1>0, <3>0, <3>1, <3>3, <3>4, <3>5 DEF BuildTruthful
    <3> QED BY <1>a, <2>1, <3>1, <3>2, <3>6
  <2> QED BY <2>1, <2>2, <2>3
<1>4. CASE BuildBreaks
  <2>0. UNCHANGED <<tree, late>> /\ build.status \in {"QUEUED", "WORKING"}
    BY <1>4 DEF BuildBreaks, Running
  <2>1. CASE \E status \in {"EXPIRED", "INTERNAL_ERROR"} : build' = [build EXCEPT !.status = status]
    <3>1. BuildTruthful' /\ Persists /\ build'.status # "NONE"
      BY <1>0, <1>b, <2>0, <2>1 DEF TERMINAL, BuildTruthful
    <3> QED BY <1>a, <2>0, <3>1
  <2>2. CASE \E i \in StepIds : /\ Current(i)
                                /\ \/ Ended(i, "TIMEOUT", "TIMEOUT")
                                   \/ Ended(i, "CANCELLED", "CANCELLED")
                                   \/ Ended(i, "FAILURE", "FAILURE")
    BY <1>d, <2>0, <2>2 DEF BadStates, TERMINAL
  <2> QED BY <1>4, <2>1, <2>2 DEF BuildBreaks
<1> QED BY <1>1, <1>2, <1>3, <1>4 DEF CloudBuild

\* So do a cancelled task, a crash and the clock: none of them touches the build.
LEMMA InterruptionTruthful ==
    ASSUME TypeOK, VerifierInv, TaskCancelled \/ Crash \/ Expire \/ UNCHANGED vars
    PROVE  VerifierInv'
<1>0. /\ BuildTruthful /\ CallTruthful /\ OutcomeTruthful
      /\ UNCHANGED <<facts, build, tree, outcome>>
  BY DEF VerifierInv, TaskCancelled, Crash, Expire, vars, cloud
<1>1. BuildTruthful' /\ Persists
  BY <1>0 DEF BuildTruthful, Persists
<1>2. CASE TaskCancelled \/ Crash
  <2>1. /\ pc # "done" /\ (late' => late \/ pc = "submitting")
        /\ pc' \in {"gone", "stopping"}
        /\ pc' = "stopping" => pc \in {"loop", "getting", "cancelling"}
    BY <1>2 DEF TaskCancelled, Crash
  <2>2. CallTruthful'
    BY <1>0, <2>1 DEF CallTruthful, Engaged
  <2>3. OutcomeTruthful'
    BY <1>0, <1>1, <2>1, OutcomeStays
  <2> QED BY <1>1, <2>2, <2>3 DEF VerifierInv
<1>3. CASE Expire \/ UNCHANGED vars
  <2>1. UNCHANGED <<pc, late>>
    BY <1>3 DEF Expire, vars, cloud
  <2>2. CallTruthful'
    BY <1>0, <2>1 DEF CallTruthful, Engaged
  <2>3. OutcomeTruthful'
    BY <1>0, <1>1, <2>1, OutcomeStays
  <2> QED BY <1>1, <2>2, <2>3 DEF VerifierInv
<1> QED BY <1>2, <1>3

\* The invariant holds in every reachable state.
LEMMA VerifierInvariant == Spec => []VerifierInv
<1>1. Init => VerifierInv
  <2> SUFFICES ASSUME Init PROVE VerifierInv
    OBVIOUS
  <2>1. /\ build.status = "NONE" /\ \A i \in StepIds : build.steps[i] = "PENDING"
        /\ StepIds = 1 .. 7
    BY SevenSteps DEF Init, NoBuild
  <2>2. BuildTruthful
    BY <2>1 DEF Init, BuildTruthful
  <2>3. CallTruthful
    BY <2>1 DEF Init, CallTruthful, Engaged
  <2>4. OutcomeTruthful
    BY DEF Init, OutcomeTruthful, NoOutcome, Result
  <2> QED BY <2>2, <2>3, <2>4 DEF VerifierInv
<1>2. TypeOK /\ VerifierInv /\ [Next]_vars => VerifierInv'
  BY VerifierTruthful, CloudTruthful, InterruptionTruthful DEF Next
<1> QED BY <1>1, <1>2, TypeCorrect, PTL DEF Spec

\* A receipt that the planner takes for a proof proves the candidate: _interpret verifies
\* only a build whose seven steps succeeded, the last of them on the exact candidate, and
\* a build that has ended does not change any more.
THEOREM ReceiptsProveCandidates == Spec => []ReceiptProvesCandidate
<1>1. TypeOK /\ VerifierInv => ReceiptProvesCandidate
  <2> SUFFICES ASSUME TypeOK, VerifierInv,
                      receipt_proves_candidate(to_verification_receipt(outcome))
               PROVE  Proven
    BY DEF ReceiptProvesCandidate
  <2>1. outcome.decision = "VERIFIED"
    BY DEF receipt_proves_candidate, to_verification_receipt, publishable
  <2>2. build.status = "SUCCESS" /\ build.steps[7] = "SUCCESS" /\ tree = "candidate"
    BY <2>1 DEF VerifierInv, OutcomeTruthful, BuildTruthful
  <2>3. \A j \in {1, 3, 5, 6} : build.steps[j] = "SUCCESS"
    BY <2>2, SevenSteps DEF VerifierInv, BuildTruthful
  <2>4. facts.source /\ facts.defective /\ facts.fixes /\ facts.passes
    BY <2>3 DEF VerifierInv, BuildTruthful
  <2>5. facts.valid
    BY <2>2 DEF VerifierInv, CallTruthful, Engaged
  <2>6. facts \in Facts
    BY DEF TypeOK
  <2> QED BY <2>2, <2>4, <2>5, <2>6 DEF Proven, Facts
<1> QED BY <1>1, TypeCorrect, VerifierInvariant, PTL

\* Every result of a receipt is that of a step that ran, and a build that Cloud Build
\* stopped for its own reasons is never reported as a rejection of the candidate.
THEOREM ReceiptsAreNotInflated == Spec => []ReceiptNotInflated
<1>1. VerifierInv => ReceiptNotInflated
  <2> SUFFICES ASSUME VerifierInv PROVE ReceiptNotInflated
    OBVIOUS
  <2> DEFINE receipt == to_verification_receipt(outcome)
  <2>1. /\ receipt.baseline_control = "FAIL" => outcome.baseline = "EXPECTED_FAILURE"
        /\ receipt.candidate_control = "PASS" => outcome.candidate = "PASS"
        /\ receipt.regression_suite = "PASS" => outcome.regression = "PASS"
        /\ receipt.isolated = outcome.evidence
    BY DEF to_verification_receipt
  <2> HIDE DEF receipt
  <2>2. /\ receipt.baseline_control = "FAIL" => facts.defective /\ build.steps[3] = "SUCCESS"
        /\ receipt.candidate_control = "PASS" => facts.fixes /\ build.steps[5] = "SUCCESS"
        /\ receipt.regression_suite = "PASS" => facts.passes /\ build.steps[6] = "SUCCESS"
        /\ receipt.isolated => build.status # "NONE"
        /\ outcome.decision = "REJECTED" => build.status \in {"NONE", "SUCCESS", "FAILURE"}
    BY <2>1 DEF VerifierInv, OutcomeTruthful, BuildTruthful
  <2> QED BY <2>2 DEF ReceiptNotInflated, receipt
<1> QED BY <1>1, VerifierInvariant, PTL
=============================================================================
