------------------------- MODULE AuditServiceProofs -------------------------
(***************************************************************************)
(* Theorems about AuditService, for every set of calls and instances, every*)
(* attempt budget and every number of faults, in seven parts: the action   *)
(* planner, types, leases and operations, what a record may say, the       *)
(* outcome of a run, the promise that it all implements, and the console   *)
(* that calls it.  The first six rest on each other in this order.         *)
(***************************************************************************)
EXTENDS AuditService, Sequences, FiniteSetTheorems, TLAPS

-----------------------------------------------------------------------------
(***************************************************************************)
(* PART 1.  The action planner, for any number of contradictions.          *)
(***************************************************************************)

Kinds == {"pr", "issue", "email"}

\* A plan that selects nothing, or one route, passes the cardinality check of
\* validate_action_plan.
LEMMA AtMostOneSelected ==
    ASSUME NEW proposal, Selected(proposal) = {} \/ \E kind \in Kinds : Selected(proposal) = {kind}
    PROVE  Cardinality({kind \in {"pr", "issue", "email"} : proposal[kind] \in SelectedStates}) <= 1
<1>1. CASE Selected(proposal) = {}
  BY <1>1, FS_EmptySet DEF Selected
<1>2. ASSUME NEW kind \in Kinds, Selected(proposal) = {kind}
      PROVE  Cardinality(Selected(proposal)) = 1
  BY <1>2, FS_Singleton
<1> QED BY <1>1, <1>2 DEF Selected

\* The plan of a contradiction: READY PR with proof, else the issue or the email.
LEMMA ContradictionSelects ==
    ASSUME NEW proven \in BOOLEAN, NEW consecutive, NEW email_enabled
    PROVE  LET chosen == ContradictionPlan(proven, consecutive, email_enabled)
           IN /\ Selected(chosen) =
                   {IF proven THEN "pr"
                    ELSE IF EscalatesToEmail(consecutive, email_enabled) THEN "email"
                    ELSE "issue"}
              /\ \A kind \in Kinds : chosen[kind] \notin {"OPENED", "SENT"}
              /\ chosen.pr_verified = proven /\ (chosen.pr = "READY" <=> proven)
<1>1. CASE proven
  BY <1>1 DEF ContradictionPlan, Selected, SelectedStates, Kinds
<1>2. CASE ~proven /\ EscalatesToEmail(consecutive, email_enabled)
  BY <1>2 DEF ContradictionPlan, Selected, SelectedStates, Kinds
<1>3. CASE ~proven /\ ~EscalatesToEmail(consecutive, email_enabled)
  BY <1>3 DEF ContradictionPlan, Selected, SelectedStates, Kinds
<1> QED BY <1>1, <1>2, <1>3

\* plan_actions never raises UnsafeActionPlan and selects exactly the route called for,
\* for every verdict, receipt and number of contradictions in a row.
THEOREM PlansAreSafe ==
    ASSUME NEW verdict, NEW proven \in BOOLEAN, NEW consecutive, NEW email_enabled
    PROVE  PlanIsSafe(verdict, proven, consecutive, email_enabled)
<1> DEFINE chosen == plan_actions(verdict, proven, consecutive, email_enabled)
<1>1. CASE verdict = "CONTRADICTED"
  <2> DEFINE route == IF proven THEN "pr"
                      ELSE IF EscalatesToEmail(consecutive, email_enabled) THEN "email"
                      ELSE "issue"
  <2>1. chosen = ContradictionPlan(proven, consecutive, email_enabled)
    BY <1>1 DEF plan_actions
  <2>2. /\ Selected(chosen) = {route}
        /\ \A kind \in Kinds : chosen[kind] \notin {"OPENED", "SENT"}
        /\ chosen.pr_verified = proven /\ (chosen.pr = "READY" <=> proven)
    BY <2>1, ContradictionSelects
  <2>3. route \in Kinds /\ (route = "pr" => proven)
    BY DEF Kinds
  <2> HIDE DEF chosen, route
  <2>4. validate_action_plan(chosen, proven)
    BY <2>2, <2>3, AtMostOneSelected DEF validate_action_plan, Kinds
  <2> QED BY <1>1, <2>2, <2>3, <2>4 DEF PlanIsSafe, chosen, Kinds
<1>2. CASE verdict # "CONTRADICTED"
  <2>1. chosen = SkippedPlan
    BY <1>2 DEF plan_actions
  <2>2. /\ Selected(SkippedPlan) = {}
        /\ \A kind \in Kinds : SkippedPlan[kind] \notin {"OPENED", "SENT"}
        /\ SkippedPlan.pr_verified = FALSE /\ SkippedPlan.pr # "READY"
    BY DEF SkippedPlan, Selected, SelectedStates, Kinds
  <2>3. validate_action_plan(SkippedPlan, proven)
    BY <2>2, AtMostOneSelected DEF validate_action_plan, Kinds
  <2> QED BY <1>2, <2>1, <2>2, <2>3 DEF PlanIsSafe
<1> QED BY <1>1, <1>2

-----------------------------------------------------------------------------
(***************************************************************************)
(* PART 2.  Types.                                                         *)
(***************************************************************************)

(* The record operators map run records to run records. *)

\* _new_run and the absent document are run records.
LEMMA NewRunType ==
    ASSUME NEW repository \in BOOLEAN
    PROVE  new_run(repository) \in Runs /\ NoRun \in Runs
<1>1. 1 \in 0 .. MaxAttempts
  BY BoundAssumption
<1>2. \A q \in BOOLEAN : new_run(q) \in Runs
  BY <1>1 DEF new_run, Runs, Stages, Verdicts, ActionStates
<1>3. FALSE \in BOOLEAN
  OBVIOUS
<1>4. NoRun \in Runs
  BY <1>2, <1>3 DEF NoRun, Runs
<1> QED BY <1>2, <1>4

\* start_stage, finish_stage and fail_run return run records.
LEMMA StageType ==
    ASSUME NEW r \in Runs
    PROVE  /\ \A s \in Stages : start_stage(r, s) \in Runs
           /\ finish_stage(r) \in Runs
           /\ Completed(r) \in Runs
           /\ Bound(r) \in Runs
<1>1. \A s \in Stages : \A q \in Runs : start_stage(q, s) \in Runs
  BY DEF start_stage, Runs
<1>2. \A q \in Runs : finish_stage(q) \in Runs
  BY DEF finish_stage, Runs
<1>3. "COMPLETE" \in Stages /\ "BINDING" \in Stages
  BY DEF Stages
<1> QED BY <1>1, <1>2, <1>3 DEF Completed, Bound

Notes == {"none", "no_side_effects", "uncertain", "confirmed", "not_dispatched"}

\* fail_run and _fail_retryable return run records.
LEMMA FailType ==
    ASSUME NEW r \in Runs, NEW note \in Notes
    PROVE  /\ \A status \in {"FAILED_SAFE", "FAILED_RETRYABLE"} : fail_run(r, status, note) \in Runs
           /\ fail_retryable(r, note) \in Runs
<1>1. \A status \in {"FAILED_SAFE", "FAILED_RETRYABLE"} : fail_run(r, status, note) \in Runs
  <2> SUFFICES ASSUME NEW status \in {"FAILED_SAFE", "FAILED_RETRYABLE"}
               PROVE  fail_run(r, status, note) \in Runs
    OBVIOUS
  <2>1. status \in Stages
    BY DEF Stages
  <2>2. (IF r.state = "RUNNING" THEN r.stage ELSE status) \in Stages
    BY <2>1 DEF Runs
  <2> QED BY <2>1, <2>2 DEF fail_run, Runs, Notes
<1> QED BY <1>1 DEF fail_retryable

\* _reset_interrupted_run and _resume_action_dispatch return run records.
LEMMA ResumeType ==
    ASSUME NEW r \in Runs
    PROVE  /\ OneMoreAttempt(r) \in 0 .. MaxAttempts
           /\ reset_interrupted_run(r) \in Runs
           /\ resume_action_dispatch(r) \in Runs
<1>1. OneMoreAttempt(r) \in 0 .. MaxAttempts
  BY BoundAssumption DEF OneMoreAttempt, Runs
<1>2. r.repository \in BOOLEAN /\ r.note \in Notes /\ "ROUTING_ACTION" \in Stages
  BY DEF Runs, Notes, Stages
<1>3. reset_interrupted_run(r) \in Runs
  <2>1. \A q \in Runs : \A n \in 0 .. MaxAttempts : \A note \in Notes :
           [q EXCEPT !.attempts = n, !.note = note] \in Runs
    BY DEF Runs, Notes
  <2>2. new_run(r.repository) \in Runs
    BY <1>2, NewRunType
  <2> QED BY <1>1, <1>2, <2>1, <2>2 DEF reset_interrupted_run
<1>4. resume_action_dispatch(r) \in Runs
  <2>1. \A n \in 0 .. MaxAttempts : \A s \in Stages :
           [r EXCEPT !.status = s, !.stage = s, !.state = "RUNNING", !.attempts = n] \in Runs
    BY DEF Runs
  <2> QED BY <1>1, <1>2, <2>1 DEF resume_action_dispatch
<1> QED BY <1>1, <1>3, <1>4

\* Planning and the fallback to the issue return run records.
LEMMA PlanType ==
    ASSUME NEW r \in Runs
    PROVE  WithPlan(r) \in Runs /\ select_issue_fallback(r) \in Runs
<1>1. \A pr, to_issue \in ActionStates : [r EXCEPT !.pr = pr, !.issue = to_issue] \in Runs
  BY DEF Runs
<1>2. {"READY", "PLANNED", "BLOCKED", "SKIPPED"} \subseteq ActionStates
  BY DEF ActionStates
<1>3. \A verdict, proven : /\ plan_actions(verdict, proven, 1, FALSE).pr \in ActionStates
                          /\ plan_actions(verdict, proven, 1, FALSE).issue \in ActionStates
  BY <1>2 DEF plan_actions, ContradictionPlan, SkippedPlan
<1>4. WithPlan(r) \in Runs
  BY <1>1, <1>3 DEF WithPlan
<1>5. select_issue_fallback(r) \in Runs
  BY <1>1, <1>2 DEF select_issue_fallback
<1> QED BY <1>4, <1>5

\* The verdict, the receipt and the confirmed action are set within a run record.
LEMMA OutcomeType ==
    ASSUME NEW r \in Runs
    PROVE  /\ \A verdict \in Verdicts : WithVerdict(r, verdict) \in Runs
           /\ \A receipt \in {"UNPROVEN", "PROVEN"} : WithReceipt(r, receipt) \in Runs
           /\ \A kind : WithOpened(r, kind) \in Runs
<1>1. \A verdict \in Verdicts : WithVerdict(r, verdict) \in Runs
  BY DEF WithVerdict, Runs
<1>2. \A receipt \in {"UNPROVEN", "PROVEN"} : WithReceipt(r, receipt) \in Runs
  BY DEF WithReceipt, Runs
<1>3. [r EXCEPT !.pr = "OPENED"] \in Runs /\ [r EXCEPT !.issue = "OPENED"] \in Runs
  BY DEF Runs, ActionStates
<1>4. \A kind : WithOpened(r, kind) \in Runs
  BY <1>3, StageType DEF WithOpened
<1> QED BY <1>1, <1>2, <1>4

\* So are the records that the three failure paths leave.
LEMMA FailureType ==
    ASSUME NEW r \in Runs
    PROVE  /\ \A failure : StoppedExecution(r, failure) \in Runs
           /\ CompletionCheckpointFailed(r) \in Runs
           /\ ActionCheckpointFailed(r) \in Runs
<1>1. WithVerdict(r, "INCONCLUSIVE") \in Runs
  BY OutcomeType DEF Verdicts
<1>2. {"no_side_effects", "confirmed", "not_dispatched"} \subseteq Notes
  BY DEF Notes
<1>3. \A failure : StoppedExecution(r, failure) \in Runs
  BY <1>1, <1>2, FailType, PlanType DEF StoppedExecution
<1>4. [r EXCEPT !.status = "ROUTING_ACTION", !.stage = "COMPLETE", !.state = "FAILED"] \in Runs
  <2>1. \A status, stage \in Stages :
           [r EXCEPT !.status = status, !.stage = stage, !.state = "FAILED"] \in Runs
    BY DEF Runs
  <2> QED BY <2>1 DEF Stages
<1>5. CompletionCheckpointFailed(r) \in Runs
  BY <1>2, <1>4, FailType DEF CompletionCheckpointFailed
<1>6. ActionCheckpointFailed(r) \in Runs
  BY <1>2, FailType DEF ActionCheckpointFailed
<1> QED BY <1>3, <1>5, <1>6

\* Whatever create_run resumes is an operation on a run record.
LEMMA ResumptionType ==
    ASSUME NEW r \in Runs, NEW created \in BOOLEAN
    PROVE  /\ Resumption(r, created).run \in Runs
           /\ Resumption(r, created).op \in {"none", "execute", "dispatch", "route"}
           /\ Resumption(r, created).pc \in
                 {"startCapture", "release", "saveResume", "dispatch", "route"}
BY ResumeType DEF Resumption

-----------------------------------------------------------------------------
(* Type correctness.  The variables that a call owns are typed together.    *)

Locals ==
    /\ pc \in [Calls -> ControlPoints]
    /\ op \in [Calls -> {"none", "created", "execute", "dispatch", "route"}]
    /\ run \in [Calls -> Runs]
    /\ action \in [Calls -> {"none", "pr", "issue"}]
    /\ next \in [Calls -> ControlPoints]

\* A call that is over, or a stopped instance, leaves typed locals.
LEMMA ForgetType ==
    ASSUME Locals, NEW S \in SUBSET Calls, Forget(S)
    PROVE  Locals'
<1>1. "idle" \in ControlPoints /\ NoRun \in Runs
  BY NewRunType DEF ControlPoints
<1> QED BY <1>1 DEF Locals, Forget

\* So does leaving an operation through the finally block of a dispatcher.
LEMMA LeaveType ==
    ASSUME Locals, NEW c \in Calls, NEW target \in ControlPoints, Leave(c, target)
    PROVE  pc' \in [Calls -> ControlPoints] /\ next' \in [Calls -> ControlPoints]
<1>1. "unlock" \in ControlPoints
  BY DEF ControlPoints, TaskSection
<1> QED BY <1>1 DEF Locals, Leave, Goto

\* An exception leaves typed locals.
LEMMA RaiseType ==
    ASSUME Locals, NEW c \in Calls, NEW r \in Runs, NEW failure, Raise(c, r, failure),
           op' = op, action' = action
    PROVE  Locals'
<1>1. "saveFailure" \in ControlPoints /\ "release" \in ControlPoints
  BY DEF ControlPoints, TaskSection
<1>2. pc' \in [Calls -> ControlPoints] /\ next' \in [Calls -> ControlPoints]
  BY <1>1, LeaveType DEF Raise
<1>3. run' \in [Calls -> Runs]
  BY FailureType DEF Raise, SetRun, Locals
<1> QED BY <1>2, <1>3 DEF Locals

\* A save of a run record, and a local step to one, keep every type.
LEMMA SaveType ==
    ASSUME TypeOK, NEW c \in Calls, NEW r \in Runs, NEW target \in ControlPoints,
           Save(c, r, target)
    PROVE  TypeOK'
<1>1. Locals
  BY DEF TypeOK, Locals
<1>2. store' \in Runs /\ faults' \in 0 .. MaxFaults
  BY BoundAssumption DEF TypeOK, Save, StoreError, Fault
<1>3. Locals'
  <2>1. CASE SetRun(c, r) /\ Goto(c, target) /\ UNCHANGED <<next, op, action>>
    BY <1>1, <2>1 DEF Locals, SetRun, Goto
  <2>2. CASE Raise(c, r, "error") /\ UNCHANGED <<op, action>>
    BY <1>1, <2>2, RaiseType
  <2> QED BY <2>1, <2>2 DEF Save
<1>4. UNCHANGED <<settings, run_lease, action_lease, pull_request, issue, overtaken>>
  BY DEF Save, leases, github
<1> QED BY <1>2, <1>3, <1>4 DEF TypeOK, Locals

\* A step without an await keeps the types.
LEMMA LocalType ==
    ASSUME TypeOK, NEW c \in Calls, NEW r \in Runs, NEW target \in ControlPoints,
           Local(c, r, target)
    PROVE  TypeOK'
BY DEF TypeOK, Local, SetRun, Goto, leases, github

\* An exception of an awaited service keeps the types.
LEMMA ServiceFailsType ==
    ASSUME TypeOK, NEW c \in Calls, ServiceFails(c, run[c])
    PROVE  TypeOK'
<1>1. Locals /\ run[c] \in Runs
  BY DEF TypeOK, Locals
<1>2. Locals'
  BY <1>1, RaiseType DEF ServiceFails
<1>3. UNCHANGED <<settings, store, run_lease, action_lease, pull_request, issue,
                  faults, overtaken>>
  BY DEF ServiceFails, leases, github
<1> QED BY <1>2, <1>3 DEF TypeOK, Locals

\* The steps of create_run keep the types.
LEMMA CreateRunType ==
    ASSUME TypeOK, NEW c \in Calls, CreateRun(c)
    PROVE  TypeOK'
<1>0. Locals /\ run[c] \in Runs /\ {c} \subseteq Calls
  BY DEF TypeOK, Locals
<1>1. CASE Reserve(c)
  <2>1. store' \in Runs
    BY <1>1, NewRunType DEF Reserve, TypeOK
  <2>2. "reserved" \in ControlPoints
    BY DEF ControlPoints, CreateSection
  <2> QED BY <1>1, <2>1, <2>2 DEF Reserve, TypeOK, SetRun, Goto, leases, github
<1>2. CASE ReturnExisting(c)
  BY <1>0, <1>2, ForgetType DEF ReturnExisting, TypeOK, Locals, leases, github
<1>3. CASE LeaseDenied(c)
  BY <1>0, <1>3, ForgetType DEF LeaseDenied, TypeOK, Locals, leases, github
<1>4. CASE LeaseError(c)
  <2>1. Locals'
    BY <1>0, <1>4, ForgetType DEF LeaseError
  <2>2. run_lease' \in Calls \cup {NoCall} /\ faults' \in 0 .. MaxFaults
    BY <1>4, BoundAssumption DEF LeaseError, Fault, TypeOK
  <2> QED BY <1>4, <2>1, <2>2 DEF LeaseError, TypeOK, Locals, github
<1>5. CASE AcquireRunLease(c)
  <2> DEFINE resumption == Resumption(run[c], op[c] = "created")
  <2>1. /\ resumption.run \in Runs
        /\ resumption.op \in {"none", "execute", "dispatch", "route"}
        /\ resumption.pc \in {"startCapture", "release", "saveResume", "dispatch", "route"}
    BY <1>0, ResumptionType
  <2>2. resumption.pc \in ControlPoints
    BY <2>1 DEF ControlPoints, CreateSection, TaskSection
  <2> HIDE DEF resumption
  <2>3. /\ op' = [op EXCEPT ![c] = resumption.op]
        /\ run' = [run EXCEPT ![c] = resumption.run]
        /\ pc' = [pc EXCEPT ![c] = resumption.pc]
    BY <1>5 DEF AcquireRunLease, SetRun, Goto, resumption
  <2>4. overtaken' \in BOOLEAN
    BY <1>5 DEF AcquireRunLease, TypeOK
  <2> QED BY <1>5, <2>1, <2>2, <2>3, <2>4 DEF AcquireRunLease, TypeOK, github
<1>6. CASE SaveResume(c)
  <2>1. store' \in Runs /\ faults' \in 0 .. MaxFaults
    BY <1>0, <1>6, BoundAssumption DEF SaveResume, StoreError, Fault, TypeOK
  <2>2. "startCapture" \in ControlPoints /\ "dispatch" \in ControlPoints
    BY DEF ControlPoints, TaskSection
  <2>3. Locals'
    <3>1. CASE /\ Goto(c, IF op[c] = "execute" THEN "startCapture" ELSE "dispatch")
               /\ UNCHANGED <<op, run, action, next>>
      BY <1>0, <2>2, <3>1 DEF Goto, Locals
    <3>2. CASE Forget({c})
      BY <1>0, <3>2, ForgetType
    <3> QED BY <1>6, <3>1, <3>2 DEF SaveResume
  <2> QED BY <1>6, <2>1, <2>3 DEF SaveResume, TypeOK, Locals, leases, github
<1>7. CASE ReleaseRunLease(c)
  <2>1. Locals'
    BY <1>0, <1>7, ForgetType DEF ReleaseRunLease
  <2>2. run_lease' \in Calls \cup {NoCall} /\ faults' \in 0 .. MaxFaults
    BY <1>7, BoundAssumption DEF ReleaseRunLease, Fault, TypeOK
  <2> QED BY <1>7, <2>1, <2>2 DEF ReleaseRunLease, TypeOK, Locals, github
<1> QED BY <1>1, <1>2, <1>3, <1>4, <1>5, <1>6, <1>7 DEF CreateRun

\* The steps of _execute keep the types.
LEMMA ExecuteType ==
    ASSUME TypeOK, NEW c \in Calls, Execute(c)
    PROVE  TypeOK'
<1>0. run[c] \in Runs
  BY DEF TypeOK
<1>a. /\ {"CAPTURING", "COMPILING", "BINDING", "PROBING", "EVALUATING", "REMEDIATING",
           "VERIFYING", "ROUTING_ACTION"} \subseteq Stages
      /\ {"SUPPORTED", "CONTRADICTED", "INCONCLUSIVE", "NOT_TESTED"} \subseteq Verdicts
  BY DEF Stages, Verdicts
<1>b. {"capture", "startCompile", "compile", "bind", "startProbe", "probe", "evaluate",
       "remediate", "verify", "route", "dispatch", "release"} \subseteq ControlPoints
  BY DEF ControlPoints, TaskSection
<1>1. CASE StartCapture(c)
  BY <1>0, <1>a, <1>b, <1>1, StageType, SaveType DEF StartCapture
<1>2. CASE Capture(c)
  BY <1>0, <1>b, <1>2, StageType, SaveType, ServiceFailsType DEF Capture
<1>3. CASE StartCompile(c)
  BY <1>0, <1>a, <1>b, <1>3, StageType, SaveType DEF StartCompile
<1>4. CASE Compile(c)
  BY <1>0, <1>b, <1>4, StageType, SaveType, ServiceFailsType DEF Compile
<1>5. CASE Bind(c)
  <2>1. Bound(run[c]) \in Runs /\ WithVerdict(Bound(run[c]), "NOT_TESTED") \in Runs
    BY <1>0, <1>a, StageType, OutcomeType
  <2> QED BY <1>b, <1>5, <2>1, SaveType, LocalType DEF Bind
<1>6. CASE StartProbe(c)
  BY <1>0, <1>a, <1>b, <1>6, StageType, SaveType DEF StartProbe
<1>7. CASE Probe(c)
  BY <1>0, <1>b, <1>7, StageType, SaveType, ServiceFailsType DEF Probe
<1>8. CASE Evaluate(c)
  <2>1. PICK verdict \in {"SUPPORTED", "CONTRADICTED", "INCONCLUSIVE"} :
          Save(c, WithVerdict(finish_stage(start_stage(run[c], "EVALUATING")), verdict),
               IF verdict = "CONTRADICTED" THEN "remediate" ELSE "route")
    BY <1>8 DEF Evaluate
  <2>2. finish_stage(start_stage(run[c], "EVALUATING")) \in Runs
    BY <1>0, <1>a, StageType
  <2>3. WithVerdict(finish_stage(start_stage(run[c], "EVALUATING")), verdict) \in Runs
    BY <1>a, <2>2, OutcomeType
  <2> QED BY <1>b, <2>1, <2>3, SaveType
<1>9. CASE Remediate(c)
  <2>1. finish_stage(start_stage(run[c], "REMEDIATING")) \in Runs
    BY <1>0, <1>a, StageType
  <2> QED BY <1>b, <1>9, <2>1, SaveType DEF Remediate
<1>10. CASE Verify(c)
  <2>1. PICK receipt \in {"UNPROVEN", "PROVEN"} :
          Save(c, WithReceipt(finish_stage(start_stage(run[c], "VERIFYING")), receipt), "route")
    BY <1>10 DEF Verify
  <2>2. finish_stage(start_stage(run[c], "VERIFYING")) \in Runs
    BY <1>0, <1>a, StageType
  <2>3. WithReceipt(finish_stage(start_stage(run[c], "VERIFYING")), receipt) \in Runs
    BY <2>2, OutcomeType
  <2> QED BY <1>b, <2>1, <2>3, SaveType
<1>11. CASE Route(c)
  <2>1. WithPlan(start_stage(run[c], "ROUTING_ACTION")) \in Runs
    BY <1>0, <1>a, StageType, PlanType
  <2> QED BY <1>b, <1>11, <2>1, SaveType DEF Route
<1>12. CASE SaveFailure(c)
  <2>1. store' \in Runs /\ faults' \in 0 .. MaxFaults
    BY <1>0, <1>12, BoundAssumption DEF SaveFailure, StoreError, Fault, TypeOK
  <2> QED BY <1>b, <1>12, <2>1 DEF SaveFailure, TypeOK, Goto, leases, github
<1> QED BY <1>1, <1>2, <1>3, <1>4, <1>5, <1>6, <1>7, <1>8, <1>9, <1>10, <1>11, <1>12 DEF Execute

\* The steps of the dispatchers keep the types.
LEMMA DispatchType ==
    ASSUME TypeOK, NEW c \in Calls, DispatchAndComplete(c)
    PROVE  TypeOK'
<1>0. Locals /\ run[c] \in Runs
  BY DEF TypeOK, Locals
<1>a. {"complete", "saveRouted", "saveFallback", "dispatch", "publish", "release", "confirm",
       "saveOpened", "saveOutcome", "saveFailure"} \subseteq ControlPoints
  BY DEF ControlPoints, TaskSection
<1>b. {"uncertain", "no_side_effects"} \subseteq Notes
  BY DEF Notes
<1>1. CASE Dispatch(c)
  BY <1>0, <1>a, <1>1, StageType, PlanType, LocalType DEF Dispatch
<1>2. CASE SaveFallback(c)
  BY <1>0, <1>a, <1>2, SaveType DEF SaveFallback
<1>3. CASE SaveRouted(c)
  BY <1>0, <1>a, <1>3, SaveType DEF SaveRouted
<1>4. ASSUME NEW kind \in {"pr", "issue"}, AcquireActionLease(c, kind)
      PROVE  TypeOK'
  BY <1>a, <1>4 DEF AcquireActionLease, TypeOK, Goto, github
<1>5. ASSUME NEW kind \in {"pr", "issue"}, ActionLeaseDenied(c, kind)
      PROVE  TypeOK'
  BY <1>0, <1>a, <1>5, LocalType DEF ActionLeaseDenied
<1>6. ASSUME NEW kind \in {"pr", "issue"}, ActionLeaseError(c, kind)
      PROVE  TypeOK'
  <2>1. Locals'
    BY <1>0, <1>6, RaiseType DEF ActionLeaseError
  <2>2. /\ action_lease' \in [{"pr", "issue"} -> Calls \cup {NoCall}]
        /\ faults' \in 0 .. MaxFaults
    BY <1>6, BoundAssumption DEF ActionLeaseError, Fault, TypeOK
  <2> QED BY <1>6, <2>1, <2>2 DEF ActionLeaseError, TypeOK, Locals, github
<1>7. CASE PublishWrites(c)
  BY <1>a, <1>7 DEF PublishWrites, TypeOK, Goto, leases
<1>8. CASE PublishReturns(c)
  BY <1>0, <1>a, <1>8, OutcomeType, LocalType DEF PublishReturns
<1>9. CASE PublishRejects(c)
  <2>1. pc' \in [Calls -> ControlPoints] /\ next' \in [Calls -> ControlPoints]
    BY <1>0, <1>a, <1>9, LeaveType DEF PublishRejects
  <2>2. run' \in [Calls -> Runs]
    BY <1>0, <1>9, PlanType DEF PublishRejects, SetRun, Locals
  <2> QED BY <1>9, <2>1, <2>2 DEF PublishRejects, TypeOK, leases, github
<1>10. CASE PublishUncertain(c)
  BY <1>0, <1>a, <1>b, <1>10, FailType, LocalType DEF PublishUncertain
<1>11. CASE PublishRefused(c)
  BY <1>0, <1>a, <1>b, <1>11, FailType, LocalType DEF PublishRefused
<1>12. CASE PublishRaises(c)
  <2>1. Locals'
    BY <1>0, <1>12, RaiseType DEF PublishRaises
  <2>2. faults' \in 0 .. MaxFaults
    BY <1>12, BoundAssumption DEF PublishRaises, Fault, TypeOK
  <2> QED BY <1>12, <2>1, <2>2 DEF PublishRaises, TypeOK, Locals, leases, github
<1>13. CASE SaveOpened(c)
  <2>1. store' \in Runs /\ faults' \in 0 .. MaxFaults
    BY <1>0, <1>13, BoundAssumption DEF SaveOpened, StoreError, Fault, TypeOK
  <2>2. Locals'
    <3>1. CASE Goto(c, "complete") /\ UNCHANGED <<run, next, op, action>>
      BY <1>0, <1>a, <3>1 DEF Goto, Locals
    <3>2. CASE /\ SetRun(c, ActionCheckpointFailed(run[c])) /\ Leave(c, "saveFailure")
               /\ UNCHANGED <<op, action>>
      BY <1>0, <1>a, <3>2, FailureType, LeaveType DEF SetRun, Locals
    <3> QED BY <1>13, <3>1, <3>2 DEF SaveOpened
  <2> QED BY <1>13, <2>1, <2>2 DEF SaveOpened, TypeOK, Locals, leases, github
<1>14. CASE SaveOutcome(c)
  <2>1. store' \in Runs /\ faults' \in 0 .. MaxFaults
    BY <1>0, <1>14, BoundAssumption DEF SaveOutcome, StoreError, Fault, TypeOK
  <2>2. pc' \in [Calls -> ControlPoints] /\ next' \in [Calls -> ControlPoints]
    BY <1>0, <1>a, <1>14, LeaveType DEF SaveOutcome
  <2> QED BY <1>14, <2>1, <2>2 DEF SaveOutcome, TypeOK, leases, github
<1>15. CASE Complete(c)
  <2>1. Completed(run[c]) \in Runs /\ CompletionCheckpointFailed(run[c]) \in Runs
    BY <1>0, StageType, FailureType
  <2>2. store' \in Runs /\ faults' \in 0 .. MaxFaults
    BY <1>15, <2>1, BoundAssumption DEF Complete, StoreError, Fault, TypeOK
  <2>3. run' \in [Calls -> Runs]
    BY <1>0, <1>15, <2>1 DEF Complete, SetRun, Locals
  <2>4. pc' \in [Calls -> ControlPoints] /\ next' \in [Calls -> ControlPoints]
    BY <1>0, <1>a, <1>15, LeaveType DEF Complete
  <2> QED BY <1>15, <2>2, <2>3, <2>4 DEF Complete, TypeOK, leases, github
<1>16. CASE ReleaseActionLease(c)
  <2>1. /\ action_lease' \in [{"pr", "issue"} -> Calls \cup {NoCall}]
        /\ faults' \in 0 .. MaxFaults
    BY <1>16, BoundAssumption DEF ReleaseActionLease, Fault, TypeOK
  <2>2. "idle" \in ControlPoints
    BY DEF ControlPoints
  <2> QED BY <1>16, <2>1, <2>2 DEF ReleaseActionLease, TypeOK, Goto, github
<1> QED
  BY <1>1, <1>2, <1>3, <1>4, <1>5, <1>6, <1>7, <1>8, <1>9, <1>10, <1>11, <1>12, <1>13,
     <1>14, <1>15, <1>16 DEF DispatchAndComplete

\* Leases expire, instances stop and people work on the draft without leaving the types.
LEMMA EnvironmentType ==
    ASSUME TypeOK, Expiry \/ HandleDraft \/ \E i \in Instances : Crash(i)
    PROVE  TypeOK'
<1>1. CASE ExpireRunLease
  BY <1>1 DEF ExpireRunLease, TypeOK, github
<1>2. ASSUME NEW kind \in {"pr", "issue"}, ExpireActionLease(kind)
      PROVE  TypeOK'
  BY <1>2 DEF ExpireActionLease, TypeOK, github
<1>3. CASE HandleDraft
  BY <1>3 DEF HandleDraft, TypeOK, leases
<1>4. ASSUME NEW i \in Instances, Crash(i)
      PROVE  TypeOK'
  <2>1. Locals'
    <3>1. Locals /\ {c \in Calls : InstanceOf[c] = i} \in SUBSET Calls
      BY DEF TypeOK, Locals
    <3> QED BY <1>4, <3>1, ForgetType DEF Crash
  <2>2. faults' \in 0 .. MaxFaults
    BY <1>4, BoundAssumption DEF Crash, Fault, TypeOK
  <2> QED BY <1>4, <2>1, <2>2 DEF Crash, TypeOK, Locals, leases, github
<1> QED BY <1>1, <1>2, <1>3, <1>4 DEF Expiry

\* Every state of the workflow is well typed: in particular the attempt count stays
\* within the budget and no operation leaves the enumerations of models.py.
THEOREM TypeCorrect == Spec => []TypeOK
<1>1. Init => TypeOK
  <2> SUFFICES ASSUME Init PROVE TypeOK
    OBVIOUS
  <2>1. NoRun \in Runs
    BY NewRunType
  <2>2. "idle" \in ControlPoints /\ 0 \in 0 .. MaxFaults
    BY BoundAssumption DEF ControlPoints
  <2> QED BY <2>1, <2>2, SettingsAssumption DEF Init, TypeOK
<1>2. TypeOK /\ [Next]_vars => TypeOK'
  <2> SUFFICES ASSUME TypeOK, [Next]_vars PROVE TypeOK'
    OBVIOUS
  <2>1. CASE UNCHANGED vars
    BY <2>1 DEF vars, TypeOK
  <2>2. ASSUME NEW c \in Calls, CallStep(c) PROVE TypeOK'
    BY <2>2, CreateRunType, ExecuteType, DispatchType DEF CallStep
  <2> QED BY <2>1, <2>2, EnvironmentType DEF Next
<1> QED BY <1>1, <1>2, PTL DEF Spec

-----------------------------------------------------------------------------
(***************************************************************************)
(* PART 3.  Leases and operations.                                         *)
(***************************************************************************)

(* A step of one call leaves the locals of the others alone. *)

Untouched(c) ==
    \A d \in Calls \ {c} :
        /\ pc'[d] = pc[d] /\ op'[d] = op[d] /\ run'[d] = run[d]
        /\ action'[d] = action[d] /\ next'[d] = next[d]

\* Leaving an operation moves only the call that leaves.
LEMMA LeaveUntouched ==
    ASSUME Locals, NEW c \in Calls, NEW target, Leave(c, target)
    PROVE  \A d \in Calls \ {c} : pc'[d] = pc[d] /\ next'[d] = next[d]
BY DEF Locals, Leave, Goto

\* An exception changes the locals of the call that raises it only.
LEMMA RaiseUntouched ==
    ASSUME Locals, NEW c \in Calls, NEW r, NEW failure, Raise(c, r, failure),
           op' = op, action' = action
    PROVE  Untouched(c)
<1>1. \A d \in Calls \ {c} : run'[d] = run[d]
  BY DEF Locals, Raise, SetRun
<1>2. \A d \in Calls \ {c} : pc'[d] = pc[d] /\ next'[d] = next[d]
  BY LeaveUntouched DEF Raise
<1> QED BY <1>1, <1>2 DEF Untouched

\* So does a save, whether or not it fails.
LEMMA SaveUntouched ==
    ASSUME Locals, NEW c \in Calls, NEW r, NEW target, Save(c, r, target)
    PROVE  Untouched(c)
<1>1. CASE SetRun(c, r) /\ Goto(c, target) /\ UNCHANGED <<next, op, action>>
  BY <1>1 DEF Locals, SetRun, Goto, Untouched
<1>2. CASE Raise(c, r, "error") /\ UNCHANGED <<op, action>>
  BY <1>2, RaiseUntouched
<1> QED BY <1>1, <1>2 DEF Save

\* So does a step without an await.
LEMMA LocalUntouched ==
    ASSUME Locals, NEW c \in Calls, NEW r, NEW target, Local(c, r, target)
    PROVE  Untouched(c)
BY DEF Locals, Local, SetRun, Goto, Untouched

\* The end of a call clears its own locals only.
LEMMA ForgetUntouched ==
    ASSUME Locals, NEW c \in Calls, Forget({c})
    PROVE  Untouched(c)
BY DEF Locals, Forget, Untouched

\* The steps of create_run change the locals of their own call only.
LEMMA CreateRunUntouched ==
    ASSUME Locals, NEW c \in Calls, CreateRun(c)
    PROVE  Untouched(c)
<1>1. CASE Reserve(c)
  BY <1>1 DEF Reserve, Locals, SetRun, Goto, Untouched
<1>2. CASE ReturnExisting(c) \/ LeaseDenied(c) \/ LeaseError(c) \/ ReleaseRunLease(c)
  BY <1>2, ForgetUntouched DEF ReturnExisting, LeaseDenied, LeaseError, ReleaseRunLease
<1>3. CASE AcquireRunLease(c)
  <2> DEFINE resumption == Resumption(run[c], op[c] = "created")
  <2>1. /\ op' = [op EXCEPT ![c] = resumption.op]
        /\ run' = [run EXCEPT ![c] = resumption.run]
        /\ pc' = [pc EXCEPT ![c] = resumption.pc]
        /\ UNCHANGED <<action, next>>
    BY <1>3 DEF AcquireRunLease, SetRun, Goto
  <2> HIDE DEF resumption
  <2> QED BY <2>1 DEF Locals, Untouched
<1>4. CASE SaveResume(c)
  <2>1. CASE Forget({c})
    BY <2>1, ForgetUntouched
  <2>2. CASE /\ Goto(c, IF op[c] = "execute" THEN "startCapture" ELSE "dispatch")
             /\ UNCHANGED <<op, run, action, next>>
    BY <2>2 DEF Goto, Locals, Untouched
  <2> QED BY <1>4, <2>1, <2>2 DEF SaveResume
<1> QED BY <1>1, <1>2, <1>3, <1>4 DEF CreateRun

\* The steps of _execute do so too, and touch no lease.
LEMMA ExecuteUntouched ==
    ASSUME Locals, NEW c \in Calls, Execute(c)
    PROVE  Untouched(c) /\ UNCHANGED <<run_lease, action_lease, action>> /\ pc[c] \in TaskSection
<1>1. ASSUME ServiceFails(c, run[c])
      PROVE  Untouched(c) /\ UNCHANGED <<run_lease, action_lease, action>>
  BY <1>1, RaiseUntouched DEF ServiceFails, leases
<1>2. ASSUME NEW r, NEW target, Save(c, r, target)
      PROVE  Untouched(c) /\ UNCHANGED <<run_lease, action_lease, action>>
  BY <1>2, SaveUntouched DEF Save, leases
<1>3. ASSUME NEW r, NEW target, Local(c, r, target)
      PROVE  Untouched(c) /\ UNCHANGED <<run_lease, action_lease, action>>
  BY <1>3, LocalUntouched DEF Local, leases
<1>4. CASE SaveFailure(c)
  BY <1>4 DEF SaveFailure, Goto, Locals, Untouched, TaskSection, leases
<1>5. CASE StartCapture(c) \/ StartCompile(c) \/ StartProbe(c) \/ Remediate(c) \/ Route(c)
  BY <1>2, <1>5 DEF StartCapture, StartCompile, StartProbe, Remediate, Route, TaskSection
<1>6. CASE Capture(c) \/ Compile(c) \/ Probe(c)
  BY <1>1, <1>2, <1>6 DEF Capture, Compile, Probe, TaskSection
<1>7. CASE Bind(c)
  BY <1>2, <1>3, <1>7 DEF Bind, TaskSection
<1>8. CASE Evaluate(c)
  BY <1>2, <1>8 DEF Evaluate, TaskSection
<1>9. CASE Verify(c)
  BY <1>2, <1>9 DEF Verify, TaskSection
<1> QED BY <1>4, <1>5, <1>6, <1>7, <1>8, <1>9 DEF Execute

\* The steps of the dispatchers do so too, and leave the run lease alone.
LEMMA DispatchUntouched ==
    ASSUME Locals, NEW c \in Calls, DispatchAndComplete(c)
    PROVE  Untouched(c) /\ UNCHANGED run_lease /\ pc[c] \in TaskSection
<1>1. ASSUME NEW r, NEW target, Local(c, r, target)
      PROVE  Untouched(c) /\ UNCHANGED run_lease
  BY <1>1, LocalUntouched DEF Local, leases
<1>2. ASSUME NEW r, NEW target, Save(c, r, target)
      PROVE  Untouched(c) /\ UNCHANGED run_lease
  BY <1>2, SaveUntouched DEF Save, leases
<1>3. CASE Dispatch(c)
  BY <1>1, <1>3 DEF Dispatch, TaskSection
<1>4. CASE SaveFallback(c) \/ SaveRouted(c)
  BY <1>2, <1>4 DEF SaveFallback, SaveRouted, TaskSection
<1>5. ASSUME NEW kind \in {"pr", "issue"}, AcquireActionLease(c, kind)
      PROVE  Untouched(c) /\ UNCHANGED run_lease /\ pc[c] \in TaskSection
  BY <1>5 DEF AcquireActionLease, ChooseAction, Goto, Locals, Untouched, TaskSection
<1>6. ASSUME NEW kind \in {"pr", "issue"}, ActionLeaseDenied(c, kind)
      PROVE  Untouched(c) /\ UNCHANGED run_lease /\ pc[c] \in TaskSection
  BY <1>1, <1>6 DEF ActionLeaseDenied, ChooseAction, TaskSection
<1>7. ASSUME NEW kind \in {"pr", "issue"}, ActionLeaseError(c, kind)
      PROVE  Untouched(c) /\ UNCHANGED run_lease /\ pc[c] \in TaskSection
  BY <1>7, RaiseUntouched DEF ActionLeaseError, ChooseAction, TaskSection
<1>8. CASE PublishWrites(c)
  BY <1>8 DEF PublishWrites, Goto, Locals, Untouched, TaskSection, leases
<1>9. CASE PublishReturns(c) \/ PublishUncertain(c) \/ PublishRefused(c)
  BY <1>1, <1>9 DEF PublishReturns, PublishUncertain, PublishRefused, Publishing, TaskSection
<1>10. CASE PublishRejects(c)
  BY <1>10, LeaveUntouched
     DEF PublishRejects, SetRun, Locals, Untouched, Publishing, TaskSection, leases
<1>11. CASE PublishRaises(c)
  BY <1>11, RaiseUntouched DEF PublishRaises, Publishing, TaskSection, leases
<1>12. CASE SaveOpened(c)
  <2>1. \A d \in Calls \ {c} : run'[d] = run[d]
    BY <1>12 DEF SaveOpened, SetRun, Locals
  <2>2. \A d \in Calls \ {c} : pc'[d] = pc[d] /\ next'[d] = next[d]
    BY <1>12, LeaveUntouched DEF SaveOpened, Goto, Locals
  <2> QED BY <1>12, <2>1, <2>2 DEF SaveOpened, Untouched, TaskSection, leases
<1>13. CASE SaveOutcome(c)
  BY <1>13, LeaveUntouched DEF SaveOutcome, Untouched, TaskSection, leases
<1>14. CASE Complete(c)
  <2>1. \A d \in Calls \ {c} : run'[d] = run[d]
    BY <1>14 DEF Complete, SetRun, Locals
  <2>2. \A d \in Calls \ {c} : pc'[d] = pc[d] /\ next'[d] = next[d]
    BY <1>14, LeaveUntouched DEF Complete
  <2> QED BY <1>14, <2>1, <2>2 DEF Complete, Untouched, TaskSection, leases
<1>15. CASE ReleaseActionLease(c)
  BY <1>15 DEF ReleaseActionLease, Goto, Locals, Untouched, TaskSection
<1> QED
  BY <1>3, <1>4, <1>5, <1>6, <1>7, <1>8, <1>9, <1>10, <1>11, <1>12, <1>13, <1>14, <1>15
     DEF DispatchAndComplete

-----------------------------------------------------------------------------
(* Mutual exclusion of executions: a call that executes owns the run lease. *)

RunLeaseHeld ==
    RunLeaseOutlivesWork => \A c \in Calls : Executing(c) => run_lease = c

\* Nobody executes at the start.
LEMMA RunLeaseHeldInit == Init => RunLeaseHeld
BY DEF Init, RunLeaseHeld, Executing, TaskSection

\* Only AcquireRunLease lets a call execute, and only when the lease is free.
LEMMA RunLeaseHeldStep ==
    ASSUME TypeOK, RunLeaseHeld, [Next]_vars
    PROVE  RunLeaseHeld'
<1> SUFFICES ASSUME RunLeaseOutlivesWork, NEW d \in Calls, Executing(d)'
             PROVE  run_lease' = d
  BY DEF RunLeaseHeld
<1>0. Locals
  BY DEF TypeOK, Locals
<1>1. Executing(d) => run_lease = d
  BY DEF RunLeaseHeld
<1>2. CASE UNCHANGED vars
  BY <1>1, <1>2 DEF vars, Executing
<1>3. ASSUME NEW c \in Calls, CreateRun(c)
      PROVE  run_lease' = d
  <2>1. c # d => (Executing(d) /\ run_lease = d)
    BY <1>0, <1>1, <1>3, CreateRunUntouched DEF Untouched, Executing
  <2>2. CASE Reserve(c)
    <3>1. c # d
      BY <1>0, <2>2 DEF Reserve, Goto, Executing, TaskSection, Locals
    <3> QED BY <2>1, <2>2, <3>1 DEF Reserve, leases
  <2>3. CASE ReturnExisting(c) \/ LeaseDenied(c)
    <3>1. c # d
      BY <2>3 DEF ReturnExisting, LeaseDenied, Forget, Executing, TaskSection
    <3> QED BY <2>1, <2>3, <3>1 DEF ReturnExisting, LeaseDenied, leases
  <2>4. CASE LeaseError(c)
    <3>1. c # d
      BY <2>4 DEF LeaseError, Forget, Executing, TaskSection
    <3> QED BY <2>1, <2>4, <3>1, CallAssumption DEF LeaseError, RunLeaseFree
  <2>5. CASE AcquireRunLease(c)
    BY <2>1, <2>5, CallAssumption DEF AcquireRunLease, RunLeaseFree
  <2>6. CASE SaveResume(c)
    <3>1. Executing(d)
      BY <2>1, <2>6 DEF SaveResume, Executing
    <3> QED BY <1>1, <2>6, <3>1 DEF SaveResume, leases
  <2>7. CASE ReleaseRunLease(c)
    <3>1. c # d
      BY <2>7 DEF ReleaseRunLease, Forget, Executing, TaskSection
    <3> QED BY <2>1, <2>7, <3>1 DEF ReleaseRunLease
  <2> QED BY <1>3, <2>2, <2>3, <2>4, <2>5, <2>6, <2>7 DEF CreateRun
<1>4. ASSUME NEW c \in Calls, Execute(c) \/ DispatchAndComplete(c)
      PROVE  run_lease' = d
  <2>1. Untouched(c) /\ run_lease' = run_lease /\ pc[c] \in TaskSection
    BY <1>0, <1>4, ExecuteUntouched, DispatchUntouched
  <2>2. Executing(d)
    BY <2>1 DEF Untouched, Executing
  <2> QED BY <1>1, <2>1, <2>2
<1>5. CASE Expiry \/ HandleDraft
  <2>1. Executing(d)
    BY <1>5 DEF Expiry, ExpireRunLease, ExpireActionLease, HandleDraft, Executing
  <2> QED
    BY <1>1, <1>5, <2>1, CallAssumption
       DEF Expiry, ExpireRunLease, ExpireActionLease, HandleDraft, leases
<1>6. ASSUME NEW i \in Instances, Crash(i)
      PROVE  run_lease' = d
  <2>1. Executing(d)
    BY <1>6 DEF Crash, Forget, Executing, TaskSection
  <2> QED BY <1>1, <1>6, <2>1 DEF Crash, leases
<1> QED BY <1>2, <1>3, <1>4, <1>5, <1>6 DEF Next, CallStep

\* At most one call executes the run: acquire_run_lease grants the lease only when it is
\* free, and a lease that outlives the work is neither expired nor released under it.
THEOREM RunsExcludeEachOther == Spec => []RunExclusion
<1>1. RunLeaseHeld => RunExclusion
  BY DEF RunLeaseHeld, RunExclusion
<1> QED BY <1>1, TypeCorrect, RunLeaseHeldInit, RunLeaseHeldStep, PTL DEF Spec

-----------------------------------------------------------------------------
(* Mutual exclusion of publications: a call that dispatches an action owns  *)
(* its lease.                                                              *)

ActionLeaseHeld ==
    ActionLeaseOutlivesWork =>
        \A c \in Calls : action[c] # "none" => action_lease[action[c]] = c

\* Nobody dispatches at the start.
LEMMA ActionLeaseHeldInit == Init => ActionLeaseHeld
BY DEF Init, ActionLeaseHeld

\* Between the acquisition and the release of an action lease the dispatchers touch
\* neither the leases nor the action they work on.
LEMMA DispatchLeases ==
    ASSUME NEW c \in Calls, DispatchAndComplete(c)
    PROVE  \/ UNCHANGED <<action, action_lease>>
           \/ ReleaseActionLease(c)
           \/ \E kind \in {"pr", "issue"} :
                 AcquireActionLease(c, kind) \/ ActionLeaseError(c, kind)
<1>1. CASE Dispatch(c)
  BY <1>1 DEF Dispatch, Local, leases
<1>2. CASE SaveFallback(c) \/ SaveRouted(c)
  BY <1>2 DEF SaveFallback, SaveRouted, Save, leases
<1>3. CASE \E kind \in {"pr", "issue"} : ActionLeaseDenied(c, kind)
  BY <1>3 DEF ActionLeaseDenied, Local, leases
<1>4. CASE PublishReturns(c) \/ PublishUncertain(c) \/ PublishRefused(c)
  BY <1>4 DEF PublishReturns, PublishUncertain, PublishRefused, Local, leases
<1>5. CASE PublishWrites(c) \/ PublishRejects(c) \/ PublishRaises(c)
  BY <1>5 DEF PublishWrites, PublishRejects, PublishRaises, leases
<1>6. CASE SaveOpened(c) \/ SaveOutcome(c) \/ Complete(c)
  BY <1>6 DEF SaveOpened, SaveOutcome, Complete, leases
<1> QED BY <1>1, <1>2, <1>3, <1>4, <1>5, <1>6 DEF DispatchAndComplete

\* The owner is compared before an action lease is granted or deleted, and a lease that
\* outlives the publication does not expire under it.
LEMMA ActionLeaseHeldStep ==
    ASSUME TypeOK, ActionLeaseHeld, [Next]_vars
    PROVE  ActionLeaseHeld'
<1> SUFFICES ASSUME ActionLeaseOutlivesWork, NEW d \in Calls, action'[d] # "none"
             PROVE  action_lease'[action'[d]] = d
  BY DEF ActionLeaseHeld
<1>0. /\ Locals /\ action_lease \in [{"pr", "issue"} -> Calls \cup {NoCall}]
      /\ NoCall \notin Calls
  BY CallAssumption DEF TypeOK, Locals
<1>1. action[d] # "none" => action_lease[action[d]] = d
  BY DEF ActionLeaseHeld
<1>2. CASE UNCHANGED <<action, action_lease>>
  BY <1>1, <1>2
<1>3. ASSUME NEW S, Forget(S), UNCHANGED action_lease
      PROVE  action_lease'[action'[d]] = d
  BY <1>1, <1>3 DEF Forget
<1>4. ASSUME NEW c \in Calls, CreateRun(c)
      PROVE  action_lease'[action'[d]] = d
  <2>1. UNCHANGED action_lease
    BY <1>4 DEF CreateRun, Reserve, ReturnExisting, LeaseDenied, LeaseError,
                AcquireRunLease, SaveResume, ReleaseRunLease, leases
  <2>2. UNCHANGED action \/ Forget({c})
    BY <1>4 DEF CreateRun, Reserve, ReturnExisting, LeaseDenied, LeaseError,
                AcquireRunLease, SaveResume, ReleaseRunLease
  <2> QED BY <1>2, <1>3, <2>1, <2>2
<1>5. ASSUME NEW c \in Calls, Execute(c)
      PROVE  action_lease'[action'[d]] = d
  BY <1>0, <1>2, <1>5, ExecuteUntouched
<1>6. ASSUME NEW c \in Calls, DispatchAndComplete(c)
      PROVE  action_lease'[action'[d]] = d
  <2>1. CASE ReleaseActionLease(c)
    <3>1. action' = [action EXCEPT ![c] = "none"]
      BY <2>1 DEF ReleaseActionLease
    <3>2. c # d /\ action'[d] = action[d] /\ action[d] \in {"pr", "issue"}
      BY <1>0, <3>1 DEF Locals
    <3> QED BY <1>0, <1>1, <2>1, <3>2 DEF ReleaseActionLease
  <2>2. ASSUME NEW kind \in {"pr", "issue"}, AcquireActionLease(c, kind)
        PROVE  action_lease'[action'[d]] = d
    <3>1. /\ action' = [action EXCEPT ![c] = kind]
          /\ action_lease' = [action_lease EXCEPT ![kind] = c]
          /\ action_lease[kind] \in {NoCall, c}
      BY <2>2 DEF AcquireActionLease
    <3>2. CASE c = d
      BY <1>0, <3>1, <3>2 DEF Locals
    <3>3. CASE c # d
      BY <1>0, <1>1, <3>1, <3>3 DEF Locals
    <3> QED BY <3>2, <3>3
  <2>3. ASSUME NEW kind \in {"pr", "issue"}, ActionLeaseError(c, kind)
        PROVE  action_lease'[action'[d]] = d
    <3>1. UNCHANGED action
      BY <2>3 DEF ActionLeaseError
    <3>2. \/ UNCHANGED action_lease
          \/ /\ action_lease[kind] \in {NoCall, c}
             /\ action_lease' = [action_lease EXCEPT ![kind] = c]
      BY <2>3 DEF ActionLeaseError
    <3> QED BY <1>0, <1>1, <3>1, <3>2 DEF Locals
  <2> QED BY <1>2, <1>6, <2>1, <2>2, <2>3, DispatchLeases
<1>7. ASSUME NEW kind \in {"pr", "issue"}, ExpireActionLease(kind)
      PROVE  action_lease'[action'[d]] = d
  BY <1>0, <1>1, <1>7 DEF ExpireActionLease, Locals
<1>8. CASE ExpireRunLease \/ HandleDraft
  BY <1>2, <1>8 DEF ExpireRunLease, HandleDraft, leases
<1>9. ASSUME NEW i \in Instances, Crash(i)
      PROVE  action_lease'[action'[d]] = d
  BY <1>3, <1>9 DEF Crash, leases
<1>10. CASE UNCHANGED vars
  BY <1>2, <1>10 DEF vars
<1> QED
  BY <1>4, <1>5, <1>6, <1>7, <1>8, <1>9, <1>10 DEF Next, CallStep, Expiry

-----------------------------------------------------------------------------
(***************************************************************************)
(* PART 4.  What a run record may say, in the store or in the hands of any *)
(* call.  Nothing is assumed about leases: the theorems hold for workers that*)
(* outlived their leases too.                                              *)
(***************************************************************************)

\* What a record promises, given the draft PR and the issue that GitHub holds.
Sound(r, held_pr, held_issue) ==
    /\ r.status = "FAILED_RETRYABLE" => r.attempts < MaxAttempts
    /\ ~(r.pr \in SelectedStates /\ r.issue \in SelectedStates)
    /\ r.pr \in {"READY", "OPENED"} =>
          r.verdict = "CONTRADICTED" /\ r.receipt = "PROVEN" /\ r.candidate
    /\ r.receipt = "PROVEN" => r.candidate
    /\ r.pr = "OPENED" => held_pr # "absent"
    /\ r.issue = "OPENED" => held_issue = "open"

RecordsSound ==
    /\ Sound(store, pull_request, issue)
    /\ \A c \in Calls : Sound(run[c], pull_request, issue)

-----------------------------------------------------------------------------
(* The record operators keep the promise. *)

\* A new run plans nothing and reports nothing.
LEMMA NewRunSound ==
    ASSUME NEW repository \in BOOLEAN, NEW p, NEW i
    PROVE  Sound(new_run(repository), p, i) /\ Sound(NoRun, p, i)
BY DEF Sound, new_run, NoRun, SelectedStates

\* Starting and finishing a stage change neither the actions nor the proof.
LEMMA StageSound ==
    ASSUME NEW r \in Runs, NEW p, NEW i, Sound(r, p, i)
    PROVE  /\ \A s \in Stages \ {"FAILED_RETRYABLE"} : Sound(start_stage(r, s), p, i)
           /\ Sound(finish_stage(r), p, i)
           /\ Sound(Completed(r), p, i)
           /\ Sound(Bound(r), p, i)
<1>1. \A s \in Stages \ {"FAILED_RETRYABLE"} :
         \A q \in Runs : Sound(q, p, i) => Sound(start_stage(q, s), p, i)
  BY DEF Sound, start_stage, Runs
<1>2. \A q \in Runs : Sound(q, p, i) => Sound(finish_stage(q), p, i)
  BY DEF Sound, finish_stage, Runs
<1>3. "COMPLETE" \in Stages \ {"FAILED_RETRYABLE"} /\ "BINDING" \in Stages \ {"FAILED_RETRYABLE"}
  BY DEF Stages
<1> QED BY <1>1, <1>2, <1>3, StageType DEF Completed, Bound

\* A failed run is FAILED_RETRYABLE only with attempts left.
LEMMA FailSound ==
    ASSUME NEW r \in Runs, NEW p, NEW i, Sound(r, p, i), NEW note
    PROVE  /\ Sound(fail_run(r, "FAILED_SAFE", note), p, i)
           /\ Sound(fail_retryable(r, note), p, i)
<1>1. Sound(fail_run(r, "FAILED_SAFE", note), p, i)
  BY DEF Sound, fail_run, Runs
<1>2. r.attempts < MaxAttempts => Sound(fail_run(r, "FAILED_RETRYABLE", note), p, i)
  BY DEF Sound, fail_run, Runs
<1>3. r.attempts < MaxAttempts \/ r.attempts >= MaxAttempts
  BY BoundAssumption DEF Runs
<1> QED BY <1>1, <1>2, <1>3, BoundAssumption DEF fail_retryable, Runs

\* A reset forgets the plan together with its proof; a resumption keeps both.
LEMMA ResumeSound ==
    ASSUME NEW r \in Runs, NEW p, NEW i, Sound(r, p, i)
    PROVE  /\ Sound(reset_interrupted_run(r), p, i)
           /\ Sound(resume_action_dispatch(r), p, i)
<1>1. Sound(reset_interrupted_run(r), p, i)
  BY DEF Sound, reset_interrupted_run, new_run, SelectedStates
<1>2. Sound(resume_action_dispatch(r), p, i)
  BY DEF Sound, resume_action_dispatch, Runs
<1> QED BY <1>1, <1>2

\* Planning selects one route, and the fallback swaps it.
LEMMA PlanSound ==
    ASSUME NEW r \in Runs, NEW p, NEW i, Sound(r, p, i)
    PROVE  Sound(WithPlan(r), p, i) /\ Sound(select_issue_fallback(r), p, i)
<1>1. CASE r.verdict = "CONTRADICTED"
  BY <1>1 DEF Sound, WithPlan, plan_actions, ContradictionPlan, EscalatesToEmail,
              SelectedStates, select_issue_fallback, Runs
<1>2. CASE r.verdict # "CONTRADICTED"
  BY <1>2 DEF Sound, WithPlan, plan_actions, SkippedPlan, SelectedStates,
              select_issue_fallback, Runs
<1> QED BY <1>1, <1>2

\* The verdict and the receipt change only before anything is planned, and a state
\* becomes OPENED only from the one that selected it.
LEMMA OutcomeSound ==
    ASSUME NEW r \in Runs, NEW p, NEW i, Sound(r, p, i)
    PROVE  /\ r.pr = "NONE" => \A verdict : Sound(WithVerdict(r, verdict), p, i)
           /\ r.pr = "NONE" => \A receipt : Sound(WithReceipt(r, receipt), p, i)
           /\ r.pr = "READY" /\ p = "draft" => Sound(WithOpened(r, "pr"), p, i)
           /\ r.issue = "PLANNED" /\ i = "open" => Sound(WithOpened(r, "issue"), p, i)
<1>1. r.pr = "NONE" => \A verdict : Sound(WithVerdict(r, verdict), p, i)
  BY DEF Sound, WithVerdict, Runs
<1>2. r.pr = "NONE" => \A receipt : Sound(WithReceipt(r, receipt), p, i)
  BY DEF Sound, WithReceipt, Runs
<1>3. r.pr = "READY" /\ p = "draft" => Sound(WithOpened(r, "pr"), p, i)
  BY DEF Sound, WithOpened, finish_stage, Runs, SelectedStates
<1>4. r.issue = "PLANNED" /\ i = "open" => Sound(WithOpened(r, "issue"), p, i)
  BY DEF Sound, WithOpened, finish_stage, Runs, SelectedStates
<1> QED BY <1>1, <1>2, <1>3, <1>4

\* The records that the three failure paths leave keep the promise.
LEMMA FailureSound ==
    ASSUME NEW r \in Runs, NEW p, NEW i, Sound(r, p, i)
    PROVE  /\ \A failure : Sound(StoppedExecution(r, failure), p, i)
           /\ Sound(CompletionCheckpointFailed(r), p, i)
           /\ Sound(ActionCheckpointFailed(r), p, i)
<1>1. ASSUME NEW failure
      PROVE  Sound(StoppedExecution(r, failure), p, i)
  <2> DEFINE stopped == WithVerdict(r, "INCONCLUSIVE")
             failed == IF failure = "unavailable"
                       THEN fail_retryable(stopped, "no_side_effects")
                       ELSE fail_run(stopped, "FAILED_SAFE", "no_side_effects")
  <2>1. stopped \in Runs /\ failed \in Runs
    BY OutcomeType, FailType DEF Verdicts, Notes
  <2>2. /\ stopped.verdict = "INCONCLUSIVE" /\ stopped.receipt = r.receipt
        /\ stopped.candidate = r.candidate
    BY DEF WithVerdict, Runs
  <2>3. /\ failed.verdict = "INCONCLUSIVE" /\ failed.receipt = r.receipt
        /\ failed.candidate = r.candidate
    BY <2>1, <2>2 DEF fail_retryable, fail_run, Runs
  <2>4. failed.status = "FAILED_RETRYABLE" => failed.attempts < MaxAttempts
    BY <2>1, BoundAssumption DEF fail_retryable, fail_run, Runs
  <2>5. StoppedExecution(r, failure) = WithPlan(failed)
    BY DEF StoppedExecution
  <2> HIDE DEF stopped, failed
  <2>6. Sound(WithPlan(failed), p, i)
    BY <2>1, <2>3, <2>4
       DEF Sound, WithPlan, plan_actions, SkippedPlan, SelectedStates, Runs
  <2> QED BY <2>5, <2>6
<1>2. Sound(CompletionCheckpointFailed(r), p, i)
  <2> DEFINE restored == [r EXCEPT !.status = "ROUTING_ACTION",
                                   !.stage = "COMPLETE", !.state = "FAILED"]
  <2>1. restored \in Runs
    <3>1. \A status, stage \in Stages :
             [r EXCEPT !.status = status, !.stage = stage, !.state = "FAILED"] \in Runs
      BY DEF Runs
    <3> QED BY <3>1 DEF Stages
  <2>2. Sound(restored, p, i)
    BY DEF Sound, Runs
  <2> QED BY <2>1, <2>2, FailSound DEF CompletionCheckpointFailed
<1>3. Sound(ActionCheckpointFailed(r), p, i)
  BY FailSound DEF ActionCheckpointFailed
<1> QED BY <1>1, <1>2, <1>3

-----------------------------------------------------------------------------
(* What a call knows about its copy where it stands.                        *)

\* Nothing is planned before routing.
Early == {"startCapture", "capture", "startCompile", "compile", "bind", "startProbe",
          "probe", "evaluate", "remediate", "verify"}

Exits == {"release", "saveFailure", "saveFallback"}

Placed(c) ==
    /\ pc[c] = "idle" => op[c] = "none"
    /\ pc[c] = "reserved" /\ op[c] = "created" => run[c].pr = "NONE"
    /\ pc[c] = "saveResume" /\ op[c] = "execute" => run[c].pr = "NONE"
    /\ pc[c] \in Early => run[c].pr = "NONE"
    /\ Publishing(c) => \/ action[c] = "pr" /\ run[c].pr = "READY"
                        \/ action[c] = "issue" /\ run[c].issue = "PLANNED"
    /\ pc[c] = "unlock" => next[c] \in Exits

\* The call leaves its operation, directly or through the finally block of a dispatcher.
Exiting(c) == pc'[c] \in Exits \/ (pc'[c] = "unlock" /\ next'[c] \in Exits)

\* Where an operation is left, nothing is claimed about the copy.
LEMMA ExitingPlaced ==
    ASSUME NEW c \in Calls, Exiting(c)
    PROVE  Placed(c)'
BY DEF Exiting, Exits, Placed, Early, Publishing

\* Leave goes to its target, or to the unlock step that leads there.
LEMMA LeaveExits ==
    ASSUME Locals, NEW c \in Calls, NEW target \in Exits, Leave(c, target)
    PROVE  Exiting(c)
BY DEF Locals, Leave, Goto, Exiting

\* A finished call is idle and executes nothing.
LEMMA ForgetPlaced ==
    ASSUME NEW c \in Calls, Forget({c})
    PROVE  Placed(c)'
BY DEF Forget, Placed, Early, Publishing

\* Forgotten copies claim nothing.
LEMMA ForgetSound ==
    ASSUME RecordsSound, NEW S, Forget(S)
    PROVE  \A d \in Calls : Sound(run'[d], pull_request, issue)
<1>1. Sound(NoRun, pull_request, issue)
  BY NewRunSound
<1> QED BY <1>1 DEF Forget, RecordsSound

\* An exception leaves sound copies and leaves the operation.
LEMMA RaiseSound ==
    ASSUME Locals, RecordsSound, NEW c \in Calls, NEW r \in Runs, Sound(r, pull_request, issue),
           NEW failure, Raise(c, r, failure)
    PROVE  (\A d \in Calls : Sound(run'[d], pull_request, issue)) /\ Exiting(c)
<1>1. Sound(StoppedExecution(r, failure), pull_request, issue)
  BY FailureSound
<1>2. \A d \in Calls : Sound(run'[d], pull_request, issue)
  BY <1>1 DEF Raise, SetRun, Locals, RecordsSound
<1>3. Exiting(c)
  BY LeaveExits DEF Raise, Exits
<1> QED BY <1>2, <1>3

\* A save either reaches its target with the saved record or leaves the operation.
LEMMA SaveSound ==
    ASSUME TypeOK, RecordsSound, NEW c \in Calls, NEW r \in Runs,
           Sound(r, pull_request, issue), NEW target, Save(c, r, target)
    PROVE  /\ RecordsSound'
           /\ Exiting(c) \/ (pc'[c] = target /\ run'[c] = r)
<1>0. Locals
  BY DEF TypeOK, Locals
<1>1. UNCHANGED <<pull_request, issue>> /\ Sound(store', pull_request, issue)
  BY DEF Save, StoreError, github, RecordsSound
<1>2. CASE SetRun(c, r) /\ Goto(c, target)
  BY <1>0, <1>1, <1>2 DEF SetRun, Goto, Locals, RecordsSound
<1>3. CASE Raise(c, r, "error")
  BY <1>0, <1>1, <1>3, RaiseSound DEF RecordsSound
<1> QED BY <1>2, <1>3 DEF Save

\* A step without an await keeps sound records when its own record is sound.
LEMMA LocalSound ==
    ASSUME TypeOK, RecordsSound, NEW c \in Calls, NEW r \in Runs,
           Sound(r, pull_request, issue), NEW target, Local(c, r, target)
    PROVE  RecordsSound' /\ pc'[c] = target /\ run'[c] = r
BY DEF TypeOK, Local, SetRun, Goto, github, RecordsSound

\* The failure of an awaited service keeps sound records.
LEMMA ServiceFailsSound ==
    ASSUME TypeOK, RecordsSound, NEW c \in Calls, ServiceFails(c, run[c])
    PROVE  RecordsSound' /\ Exiting(c)
<1>1. Locals /\ run[c] \in Runs /\ Sound(run[c], pull_request, issue)
  BY DEF TypeOK, Locals, RecordsSound
<1>2. (\A d \in Calls : Sound(run'[d], pull_request, issue)) /\ Exiting(c)
  BY <1>1, RaiseSound DEF ServiceFails
<1> QED BY <1>2 DEF ServiceFails, github, RecordsSound

\* A step to a later early stage, or to routing, with a record that plans nothing.
LEMMA EarlyPlaced ==
    ASSUME NEW c \in Calls, pc'[c] \in Early, run'[c].pr = "NONE"
    PROVE  Placed(c)'
BY DEF Early, Placed, Publishing

\* At these points Placed says nothing.
LEMMA FreelyPlaced ==
    ASSUME NEW c \in Calls,
           pc'[c] \in {"route", "dispatch", "saveFallback", "saveRouted", "saveOpened",
                       "saveOutcome", "complete", "saveFailure", "release"}
    PROVE  Placed(c)'
BY DEF Early, Placed, Publishing

-----------------------------------------------------------------------------
(* Every step keeps RecordsSound, and Placed of the call that takes it.     *)

\* The steps of create_run keep the promise: a resumption takes it from the document.
LEMMA CreateRunSound ==
    ASSUME TypeOK, RecordsSound, NEW c \in Calls, Placed(c), CreateRun(c)
    PROVE  RecordsSound' /\ Placed(c)'
<1>0. /\ Locals /\ run[c] \in Runs
      /\ Sound(run[c], pull_request, issue) /\ Sound(store, pull_request, issue)
  BY DEF TypeOK, Locals, RecordsSound
<1>1. CASE Reserve(c)
  <2>1. /\ run' = [run EXCEPT ![c] = store'] /\ pc' = [pc EXCEPT ![c] = "reserved"]
        /\ UNCHANGED <<pull_request, issue>>
    BY <1>1 DEF Reserve, SetRun, Goto, github
  <2>2. CASE store.status = "ABSENT"
    <3>1. PICK repository \in BOOLEAN : store' = new_run(repository)
      BY <1>1, <2>2 DEF Reserve
    <3>2. Sound(store', pull_request, issue) /\ store'.pr = "NONE"
      BY <3>1, NewRunSound DEF new_run
    <3> QED
      BY <1>0, <2>1, <3>2 DEF RecordsSound, Locals, Placed, Early, Publishing
  <2>3. CASE store.status # "ABSENT"
    <3>1. store' = store /\ op' = op /\ op[c] = "none"
      BY <1>1, <2>3 DEF Reserve, Placed
    <3> QED
      BY <1>0, <2>1, <3>1 DEF RecordsSound, Locals, Placed, Early, Publishing
  <2> QED BY <2>2, <2>3
<1>2. CASE ReturnExisting(c) \/ LeaseDenied(c) \/ LeaseError(c) \/ ReleaseRunLease(c)
  <2>1. Forget({c}) /\ UNCHANGED <<store, pull_request, issue>>
    BY <1>2 DEF ReturnExisting, LeaseDenied, LeaseError, ReleaseRunLease, github
  <2> QED BY <1>0, <2>1, ForgetSound, ForgetPlaced DEF RecordsSound
<1>3. CASE AcquireRunLease(c)
  <2> DEFINE resumption == Resumption(run[c], op[c] = "created")
  <2>1. /\ op' = [op EXCEPT ![c] = resumption.op]
        /\ run' = [run EXCEPT ![c] = resumption.run]
        /\ pc' = [pc EXCEPT ![c] = resumption.pc]
        /\ UNCHANGED <<store, pull_request, issue>>
        /\ pc[c] = "reserved"
    BY <1>3 DEF AcquireRunLease, WantsLease, SetRun, Goto, github
  <2>2. Sound(resumption.run, pull_request, issue)
    BY <1>0, ResumeSound DEF Resumption
  <2>3. \/ resumption.pc \in {"release", "dispatch", "route"}
        \/ resumption.pc = "startCapture" /\ op[c] = "created" /\ resumption.run = run[c]
        \/ resumption.pc = "saveResume" /\ resumption.op # "execute"
        \/ resumption.pc = "saveResume" /\ resumption.run = reset_interrupted_run(run[c])
    BY DEF Resumption
  <2>4. reset_interrupted_run(run[c]).pr = "NONE"
    BY DEF reset_interrupted_run, new_run
  <2> HIDE DEF resumption
  <2>5. RecordsSound'
    BY <1>0, <2>1, <2>2 DEF RecordsSound, Locals
  <2>6. pc'[c] = resumption.pc /\ op'[c] = resumption.op /\ run'[c] = resumption.run
    BY <1>0, <2>1 DEF Locals
  <2>7. Placed(c)'
    BY <2>1, <2>3, <2>4, <2>6 DEF Placed, Early, Publishing
  <2> QED BY <2>5, <2>7
<1>4. CASE SaveResume(c)
  <2>1. Sound(store', pull_request, issue) /\ UNCHANGED <<pull_request, issue>>
    BY <1>0, <1>4 DEF SaveResume, StoreError, github
  <2>2. CASE /\ Goto(c, IF op[c] = "execute" THEN "startCapture" ELSE "dispatch")
             /\ UNCHANGED <<op, run, action, next>>
    <3>1. RecordsSound'
      BY <2>1, <2>2 DEF RecordsSound
    <3>2. Placed(c)'
      BY <1>0, <1>4, <2>2 DEF SaveResume, Goto, Locals, Placed, Early, Publishing
    <3> QED BY <3>1, <3>2
  <2>3. CASE Forget({c})
    BY <2>1, <2>3, ForgetSound, ForgetPlaced DEF RecordsSound
  <2> QED BY <1>4, <2>2, <2>3 DEF SaveResume
<1> QED BY <1>1, <1>2, <1>3, <1>4 DEF CreateRun

\* The steps of _execute keep it: the verdict and the receipt come before the plan.
LEMMA ExecuteSound ==
    ASSUME TypeOK, RecordsSound, NEW c \in Calls, Placed(c), Execute(c)
    PROVE  RecordsSound' /\ Placed(c)'
<1>0. run[c] \in Runs /\ Sound(run[c], pull_request, issue)
  BY DEF TypeOK, RecordsSound
<1>a. {"CAPTURING", "COMPILING", "BINDING", "PROBING", "EVALUATING", "REMEDIATING",
       "VERIFYING", "ROUTING_ACTION"} \subseteq Stages \ {"FAILED_RETRYABLE"}
  BY DEF Stages
<1>b. pc[c] \in Early => run[c].pr = "NONE"
  BY DEF Placed
<1>c. \A q \in Runs :
         /\ finish_stage(q).pr = q.pr
         /\ \A s \in Stages : start_stage(q, s).pr = q.pr
         /\ \A verdict : WithVerdict(q, verdict).pr = q.pr
  BY DEF finish_stage, start_stage, WithVerdict, Runs
<1>d. ASSUME NEW r \in Runs, Sound(r, pull_request, issue), NEW target,
             Save(c, r, target),
             (target \in Early /\ r.pr = "NONE") \/ target \in {"route", "dispatch"}
      PROVE  RecordsSound' /\ Placed(c)'
  <2>1. RecordsSound' /\ (Exiting(c) \/ (pc'[c] = target /\ run'[c] = r))
    BY <1>d, SaveSound
  <2> QED BY <1>d, <2>1, ExitingPlaced, EarlyPlaced, FreelyPlaced
<1>e. CASE StartCapture(c) \/ StartCompile(c) \/ StartProbe(c)
  BY <1>0, <1>a, <1>b, <1>c, <1>d, <1>e, StageType, StageSound
     DEF StartCapture, StartCompile, StartProbe, Early
<1>f. CASE Capture(c) \/ Compile(c) \/ Probe(c)
  <2>1. CASE ServiceFails(c, run[c])
    BY <2>1, ServiceFailsSound, ExitingPlaced
  <2>2. ASSUME NEW target \in {"startCompile", "bind", "evaluate"}, run[c].pr = "NONE",
               Save(c, finish_stage(run[c]), target)
        PROVE  RecordsSound' /\ Placed(c)'
    BY <1>0, <1>c, <1>d, <2>2, StageType, StageSound DEF Early
  <2> QED BY <1>b, <1>f, <2>1, <2>2 DEF Capture, Compile, Probe, Early
<1>1. CASE Bind(c)
  <2>1. run[c].pr = "NONE"
    BY <1>b, <1>1 DEF Bind, Early
  <2>2. /\ Bound(run[c]) \in Runs /\ Sound(Bound(run[c]), pull_request, issue)
        /\ Bound(run[c]).pr = "NONE"
    BY <1>0, <1>a, <1>c, <2>1, StageType, StageSound DEF Bound
  <2>3. /\ WithVerdict(Bound(run[c]), "NOT_TESTED") \in Runs
        /\ Sound(WithVerdict(Bound(run[c]), "NOT_TESTED"), pull_request, issue)
    BY <2>2, OutcomeType, OutcomeSound DEF Verdicts
  <2>4. CASE Save(c, Bound(run[c]), "startProbe")
    BY <1>d, <2>2, <2>4 DEF Early
  <2>5. CASE Local(c, WithVerdict(Bound(run[c]), "NOT_TESTED"), "route")
    BY <2>3, <2>5, LocalSound, FreelyPlaced
  <2> QED BY <1>1, <2>4, <2>5 DEF Bind
<1>2. CASE Evaluate(c)
  <2> DEFINE evaluated == finish_stage(start_stage(run[c], "EVALUATING"))
  <2>1. PICK verdict \in {"SUPPORTED", "CONTRADICTED", "INCONCLUSIVE"} :
          Save(c, WithVerdict(evaluated, verdict),
               IF verdict = "CONTRADICTED" THEN "remediate" ELSE "route")
    BY <1>2 DEF Evaluate
  <2>2. run[c].pr = "NONE"
    BY <1>b, <1>2 DEF Evaluate, Early
  <2>3. evaluated \in Runs /\ Sound(evaluated, pull_request, issue) /\ evaluated.pr = "NONE"
    BY <1>0, <1>a, <1>c, <2>2, StageType, StageSound
  <2> HIDE DEF evaluated
  <2>4. /\ WithVerdict(evaluated, verdict) \in Runs
        /\ Sound(WithVerdict(evaluated, verdict), pull_request, issue)
        /\ WithVerdict(evaluated, verdict).pr = "NONE"
    BY <1>c, <2>3, OutcomeType, OutcomeSound DEF Verdicts
  <2> QED BY <1>d, <2>1, <2>4 DEF Early
<1>3. CASE Remediate(c)
  <2>1. run[c].pr = "NONE"
    BY <1>b, <1>3 DEF Remediate, Early
  <2>2. /\ finish_stage(start_stage(run[c], "REMEDIATING")) \in Runs
        /\ Sound(finish_stage(start_stage(run[c], "REMEDIATING")), pull_request, issue)
        /\ finish_stage(start_stage(run[c], "REMEDIATING")).pr = "NONE"
    BY <1>0, <1>a, <1>c, <2>1, StageType, StageSound
  <2> QED BY <1>d, <1>3, <2>2 DEF Remediate, Early
<1>4. CASE Verify(c)
  <2> DEFINE verified == finish_stage(start_stage(run[c], "VERIFYING"))
  <2>1. PICK receipt \in {"UNPROVEN", "PROVEN"} :
          Save(c, WithReceipt(verified, receipt), "route")
    BY <1>4 DEF Verify
  <2>2. run[c].pr = "NONE"
    BY <1>b, <1>4 DEF Verify, Early
  <2>3. verified \in Runs /\ Sound(verified, pull_request, issue) /\ verified.pr = "NONE"
    BY <1>0, <1>a, <1>c, <2>2, StageType, StageSound
  <2> HIDE DEF verified
  <2>4. /\ WithReceipt(verified, receipt) \in Runs
        /\ Sound(WithReceipt(verified, receipt), pull_request, issue)
    BY <2>3, OutcomeType, OutcomeSound
  <2> QED BY <1>d, <2>1, <2>4
<1>5. CASE Route(c)
  <2>1. /\ WithPlan(start_stage(run[c], "ROUTING_ACTION")) \in Runs
        /\ Sound(WithPlan(start_stage(run[c], "ROUTING_ACTION")), pull_request, issue)
    BY <1>0, <1>a, StageType, StageSound, PlanType, PlanSound
  <2> QED BY <1>d, <1>5, <2>1 DEF Route
<1>6. CASE SaveFailure(c)
  <2>1. pc'[c] = "release" /\ Sound(store', pull_request, issue)
        /\ UNCHANGED <<run, pull_request, issue>>
    BY <1>0, <1>6 DEF SaveFailure, StoreError, Goto, github, TypeOK, RecordsSound
  <2> QED BY <2>1, FreelyPlaced DEF RecordsSound
<1> QED BY <1>e, <1>f, <1>1, <1>2, <1>3, <1>4, <1>5, <1>6 DEF Execute

\* A publication changes GitHub in the direction that no record minds.
LEMMA GitHubSound ==
    ASSUME RecordsSound, UNCHANGED <<store, run>>,
           pull_request # "absent" => pull_request' # "absent",
           issue = "open" => issue' = "open"
    PROVE  RecordsSound'
BY DEF RecordsSound, Sound

\* The steps of the dispatchers keep the promise: a publisher works on an action that
\* its copy selected, and a receipt is recorded for what GitHub then holds.
LEMMA DispatchSound ==
    ASSUME TypeOK, RecordsSound, NEW c \in Calls, Placed(c), DispatchAndComplete(c)
    PROVE  RecordsSound' /\ Placed(c)'
<1>0. Locals /\ run[c] \in Runs /\ Sound(run[c], pull_request, issue)
  BY DEF TypeOK, Locals, RecordsSound
<1>a. ASSUME NEW r \in Runs, Sound(r, pull_request, issue), NEW target, Local(c, r, target),
             target \in {"route", "dispatch", "saveFallback", "saveRouted", "saveOpened",
                         "saveOutcome", "complete", "saveFailure", "release"}
      PROVE  RecordsSound' /\ Placed(c)'
  BY <1>a, LocalSound, FreelyPlaced
<1>b. /\ \A note : Sound(fail_retryable(run[c], note), pull_request, issue)
      /\ \A note : Sound(fail_run(run[c], "FAILED_SAFE", note), pull_request, issue)
  BY <1>0, FailSound
<1>c. /\ finish_stage(run[c]) \in Runs /\ select_issue_fallback(run[c]) \in Runs
      /\ Sound(finish_stage(run[c]), pull_request, issue)
      /\ Sound(select_issue_fallback(run[c]), pull_request, issue)
  BY <1>0, StageType, StageSound, PlanType, PlanSound
<1>1. CASE Dispatch(c)
  BY <1>0, <1>1, <1>a, <1>c DEF Dispatch
<1>2. CASE SaveFallback(c) \/ SaveRouted(c)
  <2>1. PICK target \in {"dispatch", "complete"} : Save(c, run[c], target)
    BY <1>2 DEF SaveFallback, SaveRouted
  <2>2. RecordsSound' /\ (Exiting(c) \/ pc'[c] = target)
    BY <1>0, <2>1, SaveSound
  <2> QED BY <2>2, ExitingPlaced, FreelyPlaced
<1>3. ASSUME NEW kind \in {"pr", "issue"}, AcquireActionLease(c, kind)
      PROVE  RecordsSound' /\ Placed(c)'
  <2>1. /\ pc'[c] = "publish" /\ action'[c] = kind
        /\ UNCHANGED <<store, run, pull_request, issue>>
    BY <1>0, <1>3 DEF AcquireActionLease, Goto, Locals, github
  <2>2. (kind = "pr" => run[c].pr = "READY") /\ (kind = "issue" => run[c].issue = "PLANNED")
    BY <1>3 DEF AcquireActionLease, ChooseAction, Decision
  <2>3. Placed(c)'
    BY <2>1, <2>2 DEF Placed, Early, Publishing
  <2> QED BY <2>1, <2>3 DEF RecordsSound
<1>4. ASSUME NEW kind \in {"pr", "issue"}, ActionLeaseDenied(c, kind)
      PROVE  RecordsSound' /\ Placed(c)'
  BY <1>0, <1>4, <1>a DEF ActionLeaseDenied
<1>5. ASSUME NEW failure, Raise(c, run[c], failure), UNCHANGED <<store, pull_request, issue>>
      PROVE  RecordsSound' /\ Placed(c)'
  BY <1>0, <1>5, RaiseSound, ExitingPlaced DEF RecordsSound
<1>6. ASSUME NEW kind \in {"pr", "issue"}, ActionLeaseError(c, kind)
      PROVE  RecordsSound' /\ Placed(c)'
  BY <1>5, <1>6 DEF ActionLeaseError, github
<1>7. CASE PublishWrites(c)
  <2>1. pc[c] = "publish" /\ pc'[c] = "confirm" /\ UNCHANGED <<store, op, run, action>>
    BY <1>0, <1>7 DEF PublishWrites, Goto, Locals
  <2>2. RecordsSound'
    BY <1>7, <2>1, GitHubSound DEF PublishWrites
  <2>3. Placed(c)'
    BY <2>1 DEF Placed, Early, Publishing
  <2> QED BY <2>2, <2>3
<1>8. CASE PublishReturns(c)
  <2>1. \/ action[c] = "pr" /\ run[c].pr = "READY" /\ pull_request = "draft"
        \/ action[c] = "issue" /\ run[c].issue = "PLANNED" /\ issue = "open"
    BY <1>8 DEF PublishReturns, Placed, Vouched
  <2>2. /\ WithOpened(run[c], action[c]) \in Runs
        /\ Sound(WithOpened(run[c], action[c]), pull_request, issue)
    BY <1>0, <2>1, OutcomeType, OutcomeSound
  <2> QED BY <1>8, <1>a, <2>2 DEF PublishReturns
<1>9. CASE PublishRejects(c)
  <2>1. /\ run' = [run EXCEPT ![c] = select_issue_fallback(run[c])]
        /\ UNCHANGED <<store, pull_request, issue>>
    BY <1>9 DEF PublishRejects, SetRun, github
  <2>2. Exiting(c)
    BY <1>0, <1>9, LeaveExits DEF PublishRejects, Exits
  <2> QED BY <1>0, <1>c, <2>1, <2>2, ExitingPlaced DEF RecordsSound, Locals
<1>10. CASE PublishUncertain(c)
  BY <1>0, <1>10, <1>a, <1>b, FailType DEF PublishUncertain, Notes
<1>11. CASE PublishRefused(c)
  BY <1>0, <1>11, <1>a, <1>b, FailType DEF PublishRefused, Notes
<1>12. CASE PublishRaises(c)
  BY <1>5, <1>12 DEF PublishRaises, github
<1>13. CASE SaveOpened(c)
  <2>1. Sound(store', pull_request, issue) /\ UNCHANGED <<pull_request, issue>>
    BY <1>0, <1>13 DEF SaveOpened, StoreError, github, RecordsSound
  <2>2. CASE Goto(c, "complete") /\ UNCHANGED run
    BY <1>0, <2>1, <2>2, FreelyPlaced DEF Goto, Locals, RecordsSound
  <2>3. CASE SetRun(c, ActionCheckpointFailed(run[c])) /\ Leave(c, "saveFailure")
    <3>1. Exiting(c)
      BY <1>0, <2>3, LeaveExits DEF Exits
    <3>2. Sound(ActionCheckpointFailed(run[c]), pull_request, issue)
      BY <1>0, FailureSound
    <3> QED BY <1>0, <2>1, <2>3, <3>1, <3>2, ExitingPlaced DEF SetRun, Locals, RecordsSound
  <2> QED BY <1>13, <2>2, <2>3 DEF SaveOpened
<1>14. CASE SaveOutcome(c)
  <2>1. Sound(store', pull_request, issue) /\ UNCHANGED <<run, pull_request, issue>>
    BY <1>0, <1>14 DEF SaveOutcome, StoreError, github, RecordsSound
  <2>2. Exiting(c)
    BY <1>0, <1>14, LeaveExits DEF SaveOutcome, Exits
  <2> QED BY <2>1, <2>2, ExitingPlaced DEF RecordsSound
<1>15. CASE Complete(c)
  <2>1. /\ Sound(Completed(run[c]), pull_request, issue)
        /\ Sound(CompletionCheckpointFailed(run[c]), pull_request, issue)
    BY <1>0, StageSound, FailureSound
  <2>2. Sound(store', pull_request, issue) /\ UNCHANGED <<pull_request, issue>>
    BY <2>1, <1>15 DEF Complete, StoreError, github, RecordsSound
  <2>3. PICK r \in {Completed(run[c]), CompletionCheckpointFailed(run[c])} : SetRun(c, r)
    BY <1>15 DEF Complete
  <2>4. Exiting(c)
    BY <1>0, <1>15, LeaveExits DEF Complete, Exits
  <2>5. Sound(r, pull_request, issue)
    BY <2>1, <2>3
  <2> QED BY <1>0, <2>2, <2>3, <2>4, <2>5, ExitingPlaced DEF SetRun, Locals, RecordsSound
<1>16. CASE ReleaseActionLease(c)
  <2>1. pc'[c] \in Exits /\ UNCHANGED <<store, run, pull_request, issue>>
    BY <1>0, <1>16 DEF ReleaseActionLease, Goto, Locals, Placed, github
  <2> QED BY <2>1, ExitingPlaced DEF Exiting, RecordsSound
<1> QED
  BY <1>1, <1>2, <1>3, <1>4, <1>6, <1>7, <1>8, <1>9, <1>10, <1>11, <1>12, <1>13, <1>14,
     <1>15, <1>16 DEF DispatchAndComplete

-----------------------------------------------------------------------------
(* The inductive invariant and what follows from it. *)

RecordInv == RecordsSound /\ \A c \in Calls : Placed(c)

\* At the start nothing is recorded and nobody is placed anywhere.
LEMMA RecordInvInit == Init => RecordInv
<1> SUFFICES ASSUME Init PROVE RecordInv
  OBVIOUS
<1>1. Sound(NoRun, pull_request, issue)
  BY NewRunSound
<1>2. store = NoRun /\ \A c \in Calls : run[c] = NoRun
  BY DEF Init
<1>3. \A c \in Calls : Placed(c)
  BY DEF Init, Placed, Early, Publishing
<1> QED BY <1>1, <1>2, <1>3 DEF RecordInv, RecordsSound

\* Every step keeps it: the call that moves by the lemmas above, the others because
\* their locals are untouched.
LEMMA RecordInvStep ==
    ASSUME TypeOK, RecordInv, [Next]_vars
    PROVE  RecordInv'
<1>0. Locals /\ RecordsSound /\ \A c \in Calls : Placed(c)
  BY DEF TypeOK, Locals, RecordInv
<1>1. CASE UNCHANGED vars
  BY <1>0, <1>1 DEF vars, RecordInv, RecordsSound, Placed, Publishing
<1>2. ASSUME NEW c \in Calls, CallStep(c)
      PROVE  RecordInv'
  <2>1. RecordsSound' /\ Placed(c)'
    BY <1>0, <1>2, CreateRunSound, ExecuteSound, DispatchSound DEF CallStep
  <2>2. Untouched(c)
    BY <1>0, <1>2, CreateRunUntouched, ExecuteUntouched, DispatchUntouched DEF CallStep
  <2>3. \A d \in Calls \ {c} : Placed(d)'
    BY <1>0, <2>2 DEF Untouched, Placed, Publishing
  <2> QED BY <2>1, <2>3 DEF RecordInv
<1>3. CASE Expiry \/ HandleDraft
  <2>1. UNCHANGED <<store, pc, op, run, action, next>>
    BY <1>3 DEF Expiry, ExpireRunLease, ExpireActionLease, HandleDraft
  <2>2. RecordsSound'
    BY <1>0, <1>3, <2>1, GitHubSound
       DEF Expiry, ExpireRunLease, ExpireActionLease, HandleDraft, github
  <2>3. \A d \in Calls : Placed(d)'
    BY <1>0, <2>1 DEF Placed, Publishing
  <2> QED BY <2>2, <2>3 DEF RecordInv
<1>4. ASSUME NEW i \in Instances, Crash(i)
      PROVE  RecordInv'
  <2> DEFINE S == {c \in Calls : InstanceOf[c] = i}
  <2>1. Forget(S) /\ UNCHANGED <<store, pull_request, issue>>
    BY <1>4 DEF Crash, github
  <2> HIDE DEF S
  <2>2. RecordsSound'
    BY <1>0, <2>1, ForgetSound DEF RecordsSound
  <2>3. \A d \in Calls : Placed(d)'
    BY <1>0, <2>1 DEF Forget, Placed, Early, Publishing
  <2> QED BY <2>2, <2>3 DEF RecordInv
<1> QED BY <1>1, <1>2, <1>3, <1>4 DEF Next

\* The invariant holds in every reachable state.
LEMMA RecordInvariant == Spec => []RecordInv
BY TypeCorrect, RecordInvInit, RecordInvStep, PTL DEF Spec

\* A run left FAILED_RETRYABLE can always be retried: every path to that status, the
\* checkpoint failures and the uncertain publications included, goes through
\* fail_retryable, and a resumption counts its attempt before it can fail.
THEOREM RetriesHaveBudget == Spec => []RetryableHasBudget
<1>1. RecordInv => RetryableHasBudget
  BY DEF RecordInv, RecordsSound, Sound, RetryableHasBudget, Records
<1> QED BY <1>1, RecordInvariant, PTL

\* No record selects or reports both a draft PR and an issue: planning selects at most
\* one, and the fallback to the issue blocks the PR in the same save.
THEOREM RoutesAreSingle == Spec => []SingleRoute
<1>1. RecordInv => SingleRoute
  BY DEF RecordInv, RecordsSound, Sound, SingleRoute, Records
<1> QED BY <1>1, RecordInvariant, PTL

\* A draft PR is selected or reported only for a proven contradiction with its
\* candidate at hand: the verdict and the receipt are set before anything is planned.
THEOREM DraftsAreProven == Spec => []DraftNeedsProof
<1>1. RecordInv => DraftNeedsProof
  BY DEF RecordInv, RecordsSound, Sound, DraftNeedsProof, Records
<1> QED BY <1>1, RecordInvariant, PTL

\* At most one call is inside a publisher for the same action, also when run leases
\* expire under their owners: a publishing call dispatches an action under its lease.
THEOREM PublicationsExcludeEachOther == Spec => []PublishExclusion
<1>1. RecordInv /\ ActionLeaseHeld => PublishExclusion
  BY DEF RecordInv, Placed, ActionLeaseHeld, PublishExclusion
<1> QED
  BY <1>1, TypeCorrect, RecordInvariant, ActionLeaseHeldInit, ActionLeaseHeldStep, PTL DEF Spec

-----------------------------------------------------------------------------
(***************************************************************************)
(* PART 5.  The outcome of a run.                                          *)
(***************************************************************************)

\* The draft PR or the issue is selected or reported.
Picked(r) == r.pr \in {"READY", "OPENED"} \/ r.issue \in {"PLANNED", "OPENED"}

MayPublish(r, s) == s.github_actions_enabled /\ r.repository

Published(r, s) == HasReceipt(r) <=> r.verdict = "CONTRADICTED" /\ MayPublish(r, s)

\* What every record shows of the workflow that wrote it, under the settings s: a routed
\* record selects an action for a contradiction, and has dispatched it when its stage is over.
Formed(r, s) ==
    /\ r.pr \in {"NONE", "READY", "BLOCKED", "SKIPPED", "OPENED"}
    /\ r.issue \in {"NONE", "PLANNED", "SKIPPED", "OPENED"}
    /\ r.pr = "NONE" <=> r.issue = "NONE"
    /\ Picked(r) => r.verdict = "CONTRADICTED"
    /\ HasReceipt(r) => MayPublish(r, s) /\ r.status \in {"ROUTING_ACTION"} \cup Terminal
    /\ r.status = "VERIFYING" => r.state = "SUCCEEDED" /\ r.pr = "NONE"
    /\ r.status = "ROUTING_ACTION" =>
          /\ r.stage = "ROUTING_ACTION" /\ r.state \in {"RUNNING", "SUCCEEDED"}
          /\ r.verdict = "CONTRADICTED" => Picked(r)
          /\ r.state = "SUCCEEDED" => Published(r, s)
    /\ r.status = "COMPLETE" => Published(r, s)

RecordsFormed == Formed(store, settings) /\ \A c \in Calls : Formed(run[c], settings)

Shows(r, status, state) == r.status = status /\ r.state = state

\* What a call knows about the status of its copy r when it goes to a control point.
Poised(r, s, point) ==
    /\ point = "startCapture" => Shows(r, "RECEIVED", "SUCCEEDED")
    /\ point = "capture"      => Shows(r, "CAPTURING", "RUNNING")
    /\ point = "startCompile" => Shows(r, "CAPTURING", "SUCCEEDED")
    /\ point = "compile"      => Shows(r, "COMPILING", "RUNNING")
    /\ point = "bind"         => Shows(r, "COMPILING", "SUCCEEDED")
    /\ point = "startProbe"   => Shows(r, "BINDING", "SUCCEEDED")
    /\ point = "probe"        => Shows(r, "PROBING", "RUNNING")
    /\ point = "evaluate"     => Shows(r, "PROBING", "SUCCEEDED")
    /\ point = "remediate"    => Shows(r, "EVALUATING", "SUCCEEDED")
    /\ point = "verify"       => Shows(r, "REMEDIATING", "SUCCEEDED")
    /\ point = "route" => /\ r.status \in {"BINDING", "EVALUATING", "VERIFYING"}
                          /\ r.state = "SUCCEEDED" /\ r.pr = "NONE"
    /\ point = "dispatch" => r.status = "ROUTING_ACTION"
    /\ point = "saveFallback" => Shows(r, "ROUTING_ACTION", "RUNNING")
    /\ point \in {"publish", "confirm"} => Shows(r, "ROUTING_ACTION", "RUNNING") /\ MayPublish(r, s)
    /\ point \in {"saveRouted", "saveOpened", "complete"} => Shows(r, "ROUTING_ACTION", "SUCCEEDED")

Stands(c) ==
    /\ Poised(run[c], settings, pc[c])
    /\ pc[c] = "unlock" => Poised(run[c], settings, next[c])
    /\ pc[c] = "reserved" /\ op[c] = "created" => Poised(run[c], settings, "startCapture")
    /\ pc[c] = "saveResume" =>
          Poised(run[c], settings, IF op[c] = "execute" THEN "startCapture" ELSE "dispatch")

-----------------------------------------------------------------------------
(* The record operators. *)

\* Before routing a record needs to show nothing but that it plans nothing.
LEMMA EarlyFormed ==
    ASSUME NEW r, NEW s, r.pr = "NONE", r.issue = "NONE",
           r.status \notin {"ROUTING_ACTION", "COMPLETE"},
           r.status = "VERIFYING" => r.state = "SUCCEEDED"
    PROVE  Formed(r, s)
BY DEF Formed, Picked, HasReceipt

\* A new run, a reset one and the absent document.
LEMMA NewRunFormed ==
    ASSUME NEW s
    PROVE  /\ \A repository \in BOOLEAN :
                 /\ Formed(new_run(repository), s)
                 /\ Shows(new_run(repository), "RECEIVED", "SUCCEEDED")
           /\ Formed(NoRun, s)
           /\ \A r \in Runs : /\ Formed(reset_interrupted_run(r), s)
                              /\ Shows(reset_interrupted_run(r), "RECEIVED", "SUCCEEDED")
<1>1. \A repository \in BOOLEAN :
         /\ new_run(repository).pr = "NONE" /\ new_run(repository).issue = "NONE"
         /\ Shows(new_run(repository), "RECEIVED", "SUCCEEDED")
  BY DEF new_run, Shows
<1>2. NoRun.pr = "NONE" /\ NoRun.issue = "NONE" /\ NoRun.status = "ABSENT"
  BY DEF NoRun, new_run
<1>3. \A r \in Runs :
         /\ reset_interrupted_run(r).pr = "NONE" /\ reset_interrupted_run(r).issue = "NONE"
         /\ Shows(reset_interrupted_run(r), "RECEIVED", "SUCCEEDED")
  BY DEF reset_interrupted_run, new_run, Shows
<1> QED BY <1>1, <1>2, <1>3, EarlyFormed DEF Shows

\* A resumed dispatch starts the routing stage again with the action it had selected.
LEMMA ResumeFormed ==
    ASSUME NEW r \in Runs, NEW s, Formed(r, s), failed_during_action_dispatch(r)
    PROVE  Formed(resume_action_dispatch(r), s) /\ resume_action_dispatch(r).status = "ROUTING_ACTION"
<1>1. Picked(r) /\ r.pr # "NONE"
  BY DEF Formed, Picked, failed_during_action_dispatch
<1> QED
  BY <1>1 DEF Formed, Picked, HasReceipt, MayPublish, resume_action_dispatch, Runs

\* Starting a stage before routing, and finishing one, on a record that plans nothing.
LEMMA StageFormed ==
    ASSUME NEW r \in Runs, NEW s, r.pr = "NONE", r.issue = "NONE"
    PROVE  /\ \A stage \in {"CAPTURING", "COMPILING", "PROBING"} :
                 /\ Formed(start_stage(r, stage), s)
                 /\ Shows(start_stage(r, stage), stage, "RUNNING")
           /\ r.status \in {"CAPTURING", "COMPILING", "PROBING"} =>
                 /\ Formed(finish_stage(r), s)
                 /\ Shows(finish_stage(r), r.status, "SUCCEEDED")
           /\ \A stage \in {"BINDING", "EVALUATING", "REMEDIATING", "VERIFYING"} :
                 LET done == finish_stage(start_stage(r, stage))
                 IN /\ done.pr = "NONE" /\ done.issue = "NONE"
                    /\ Formed(done, s) /\ Shows(done, stage, "SUCCEEDED")
<1>1. \A stage \in {"CAPTURING", "COMPILING", "PROBING"} :
         /\ start_stage(r, stage).pr = "NONE" /\ start_stage(r, stage).issue = "NONE"
         /\ Shows(start_stage(r, stage), stage, "RUNNING")
  BY DEF start_stage, Shows, Runs
<1>2. /\ finish_stage(r).pr = "NONE" /\ finish_stage(r).issue = "NONE"
      /\ Shows(finish_stage(r), r.status, "SUCCEEDED")
  BY DEF finish_stage, Shows, Runs
<1>3. \A stage \in {"BINDING", "EVALUATING", "REMEDIATING", "VERIFYING"} :
         /\ finish_stage(start_stage(r, stage)).pr = "NONE"
         /\ finish_stage(start_stage(r, stage)).issue = "NONE"
         /\ Shows(finish_stage(start_stage(r, stage)), stage, "SUCCEEDED")
  BY DEF finish_stage, start_stage, Shows, Runs
<1>4. \A stage \in {"CAPTURING", "COMPILING", "PROBING"} : Formed(start_stage(r, stage), s)
  BY <1>1, EarlyFormed DEF Shows
<1>5. r.status \in {"CAPTURING", "COMPILING", "PROBING"} => Formed(finish_stage(r), s)
  BY <1>2, EarlyFormed DEF Shows
<1>6. \A stage \in {"BINDING", "EVALUATING", "REMEDIATING", "VERIFYING"} :
         Formed(finish_stage(start_stage(r, stage)), s)
  BY <1>3, EarlyFormed DEF Shows
<1> QED BY <1>1, <1>2, <1>3, <1>4, <1>5, <1>6

\* The verdict and the receipt keep the status.
LEMMA OutcomeFormed ==
    ASSUME NEW r \in Runs, NEW s, r.pr = "NONE", r.issue = "NONE",
           r.status \in {"BINDING", "EVALUATING", "VERIFYING"}, r.state = "SUCCEEDED"
    PROVE  /\ \A verdict : /\ Formed(WithVerdict(r, verdict), s)
                           /\ Shows(WithVerdict(r, verdict), r.status, "SUCCEEDED")
                           /\ WithVerdict(r, verdict).pr = "NONE"
           /\ \A receipt : /\ Formed(WithReceipt(r, receipt), s)
                           /\ Shows(WithReceipt(r, receipt), r.status, "SUCCEEDED")
                           /\ WithReceipt(r, receipt).pr = "NONE"
<1>1. \A verdict : /\ Shows(WithVerdict(r, verdict), r.status, "SUCCEEDED")
                   /\ WithVerdict(r, verdict).pr = "NONE" /\ WithVerdict(r, verdict).issue = "NONE"
  BY DEF WithVerdict, Shows, Runs
<1>2. \A receipt : /\ Shows(WithReceipt(r, receipt), r.status, "SUCCEEDED")
                   /\ WithReceipt(r, receipt).pr = "NONE" /\ WithReceipt(r, receipt).issue = "NONE"
  BY DEF WithReceipt, Shows, Runs
<1> QED BY <1>1, <1>2, EarlyFormed DEF Shows

\* Planning starts the routing stage and selects an action for a contradiction.
LEMMA PlanFormed ==
    ASSUME NEW r \in Runs, NEW s
    PROVE  LET routed == WithPlan(start_stage(r, "ROUTING_ACTION"))
           IN /\ Formed(routed, s) /\ Shows(routed, "ROUTING_ACTION", "RUNNING")
              /\ ~HasReceipt(routed)
<1>1. CASE r.verdict = "CONTRADICTED"
  BY <1>1 DEF Formed, Shows, Picked, HasReceipt, WithPlan, plan_actions, ContradictionPlan,
              EscalatesToEmail, start_stage, Runs
<1>2. CASE r.verdict # "CONTRADICTED"
  BY <1>2 DEF Formed, Shows, Picked, HasReceipt, WithPlan, plan_actions, SkippedPlan,
              start_stage, Runs
<1> QED BY <1>1, <1>2

\* A failure keeps the actions of the record.
LEMMA FailFormed ==
    ASSUME NEW r \in Runs, NEW s, Formed(r, s), NEW note
    PROVE  /\ Formed(fail_run(r, "FAILED_SAFE", note), s)
           /\ Formed(fail_retryable(r, note), s)
<1>1. ASSUME NEW status \in {"FAILED_SAFE", "FAILED_RETRYABLE"}
      PROVE  Formed(fail_run(r, status, note), s)
  BY DEF Formed, Picked, HasReceipt, MayPublish, fail_run, Terminal, Runs
<1> QED BY <1>1 DEF fail_retryable

\* The records that the three failure paths leave.
LEMMA FailureFormed ==
    ASSUME NEW r \in Runs, NEW s
    PROVE  /\ \A failure : Formed(StoppedExecution(r, failure), s)
           /\ Formed(r, s) => Formed(ActionCheckpointFailed(r), s)
           /\ Formed(r, s) => Formed(CompletionCheckpointFailed(r), s)
<1>1. ASSUME NEW failure
      PROVE  Formed(StoppedExecution(r, failure), s)
  <2> DEFINE stopped == WithVerdict(r, "INCONCLUSIVE")
             failed == IF failure = "unavailable"
                       THEN fail_retryable(stopped, "no_side_effects")
                       ELSE fail_run(stopped, "FAILED_SAFE", "no_side_effects")
  <2>1. stopped \in Runs /\ failed \in Runs
    BY OutcomeType, FailType DEF Verdicts, Notes
  <2>2. stopped.verdict = "INCONCLUSIVE"
    BY DEF WithVerdict, Runs
  <2>3. failed.verdict = "INCONCLUSIVE" /\ failed.status \in {"FAILED_RETRYABLE", "FAILED_SAFE"}
    BY <2>1, <2>2 DEF fail_retryable, fail_run, Runs
  <2>4. StoppedExecution(r, failure) = WithPlan(failed)
    BY DEF StoppedExecution
  <2> HIDE DEF stopped, failed
  <2>5. Formed(WithPlan(failed), s)
    BY <2>1, <2>3 DEF Formed, Picked, HasReceipt, WithPlan, plan_actions, SkippedPlan, Runs
  <2> QED BY <2>4, <2>5
<1>2. Formed(r, s) => Formed(ActionCheckpointFailed(r), s)
  BY FailFormed DEF ActionCheckpointFailed
<1>3. ASSUME Formed(r, s)
      PROVE  Formed(CompletionCheckpointFailed(r), s)
  <2> DEFINE restored == [r EXCEPT !.status = "ROUTING_ACTION",
                                   !.stage = "COMPLETE", !.state = "FAILED"]
  <2>1. restored \in Runs
    <3>1. \A status, stage \in Stages :
             [r EXCEPT !.status = status, !.stage = stage, !.state = "FAILED"] \in Runs
      BY DEF Runs
    <3> QED BY <3>1 DEF Stages
  <2>2. /\ restored.pr = r.pr /\ restored.issue = r.issue /\ restored.verdict = r.verdict
        /\ restored.repository = r.repository
    BY DEF Runs
  <2>3. \E status \in {"FAILED_RETRYABLE", "FAILED_SAFE"} : \E note :
           CompletionCheckpointFailed(r) = fail_run(restored, status, note)
    BY DEF CompletionCheckpointFailed, fail_retryable
  <2> HIDE DEF restored
  <2> QED
    BY <1>3, <2>1, <2>2, <2>3
       DEF Formed, Picked, HasReceipt, MayPublish, fail_run, Terminal, Runs
<1> QED BY <1>1, <1>2, <1>3

\* The fallback selects the issue for the contradiction whose draft PR was selected.
LEMMA FallbackFormed ==
    ASSUME NEW r \in Runs, NEW s, Formed(r, s), r.pr = "READY",
           Shows(r, "ROUTING_ACTION", "RUNNING")
    PROVE  LET fallen == select_issue_fallback(r)
           IN /\ Formed(fallen, s) /\ Shows(fallen, "ROUTING_ACTION", "RUNNING")
              /\ ~HasReceipt(fallen)
BY DEF Formed, Picked, HasReceipt, MayPublish, Shows, select_issue_fallback, Runs

\* A routing stage ends with a receipt, or with nothing that could be published.
LEMMA RoutedFormed ==
    ASSUME NEW r \in Runs, NEW s, Formed(r, s), r.status = "ROUTING_ACTION",
           HasReceipt(r) \/ (r.pr # "READY" /\ ~(r.issue = "PLANNED" /\ MayPublish(r, s)))
    PROVE  Formed(finish_stage(r), s) /\ Shows(finish_stage(r), "ROUTING_ACTION", "SUCCEEDED")
BY DEF Formed, Picked, HasReceipt, MayPublish, Published, Shows, finish_stage, Runs

\* A confirmed publication ends it too.
LEMMA OpenedFormed ==
    ASSUME NEW r \in Runs, NEW s, Formed(r, s), Shows(r, "ROUTING_ACTION", "RUNNING"),
           MayPublish(r, s), NEW kind \in {"pr", "issue"},
           IF kind = "pr" THEN r.pr = "READY" ELSE r.issue = "PLANNED"
    PROVE  /\ Formed(WithOpened(r, kind), s)
           /\ Shows(WithOpened(r, kind), "ROUTING_ACTION", "SUCCEEDED")
<1>1. CASE kind = "pr"
  BY <1>1 DEF Formed, Picked, HasReceipt, MayPublish, Published, Shows, WithOpened,
              finish_stage, Runs
<1>2. CASE kind = "issue"
  BY <1>2 DEF Formed, Picked, HasReceipt, MayPublish, Published, Shows, WithOpened,
              finish_stage, Runs
<1> QED BY <1>1, <1>2

\* What _complete_run saves has been published, or had nothing to publish.
LEMMA CompletedFormed ==
    ASSUME NEW r \in Runs, NEW s, Formed(r, s), Shows(r, "ROUTING_ACTION", "SUCCEEDED")
    PROVE  Formed(Completed(r), s)
BY DEF Formed, Picked, HasReceipt, MayPublish, Published, Shows, Completed, finish_stage,
       start_stage, Terminal, Runs

-----------------------------------------------------------------------------
(* Where a step leaves its call. *)

\* At these points Poised claims nothing.
LEMMA FreelyPoised ==
    ASSUME NEW r, NEW s, NEW point \in {"idle", "unlock", "reserved", "saveResume", "release",
                                        "saveFailure", "saveOutcome"}
    PROVE  Poised(r, s, point)
BY DEF Poised

\* A call that arrives at a point knows what Poised says there.
LEMMA ArrivesStanding ==
    ASSUME NEW c \in Calls, pc'[c] \notin {"unlock", "reserved", "saveResume"},
           Poised(run'[c], settings', pc'[c])
    PROVE  Stands(c)'
BY DEF Stands

\* Leaving an operation, through the finally block or not.
LEMMA LeavesStanding ==
    ASSUME Locals, NEW c \in Calls, NEW target \in {"release", "saveFailure", "saveFallback"},
           Leave(c, target), Poised(run'[c], settings', target)
    PROVE  Stands(c)'
<1>1. CASE pc'[c] = target
  BY <1>1, ArrivesStanding
<1>2. CASE pc'[c] = "unlock" /\ next'[c] = target
  BY <1>2, FreelyPoised DEF Stands
<1> QED BY <1>1, <1>2 DEF Leave, Goto, Locals

\* A call that is over knows nothing and claims nothing.
LEMMA ForgetFormed ==
    ASSUME RecordsFormed, NEW S, Forget(S)
    PROVE  /\ \A d \in Calls : Formed(run'[d], settings)
           /\ \A d \in Calls : d \in S => Stands(d)'
<1>1. Formed(NoRun, settings)
  BY NewRunFormed
<1>2. \A d \in Calls : d \in S => pc'[d] = "idle"
  BY DEF Forget
<1> QED BY <1>1, <1>2, FreelyPoised, ArrivesStanding DEF Forget, RecordsFormed

\* An exception leaves formed copies and leaves the operation.
LEMMA RaiseFormed ==
    ASSUME Locals, RecordsFormed, NEW c \in Calls, NEW r \in Runs, Formed(r, settings),
           NEW failure, Raise(c, r, failure)
    PROVE  (\A d \in Calls : Formed(run'[d], settings)) /\ Stands(c)'
<1>1. Formed(StoppedExecution(r, failure), settings)
  BY FailureFormed
<1>2. \A d \in Calls : Formed(run'[d], settings)
  BY <1>1 DEF Raise, SetRun, Locals, RecordsFormed
<1>3. Stands(c)'
  BY LeavesStanding, FreelyPoised DEF Raise
<1> QED BY <1>2, <1>3

Landings == ControlPoints \ {"unlock", "reserved", "saveResume"}

\* A save reaches its target with the saved record or leaves the operation.
LEMMA SaveFormed ==
    ASSUME TypeOK, RecordsFormed, NEW c \in Calls, NEW r \in Runs, Formed(r, settings),
           NEW target \in Landings, Poised(r, settings, target), Save(c, r, target)
    PROVE  RecordsFormed' /\ Stands(c)'
<1>0. Locals
  BY DEF TypeOK, Locals
<1>1. settings' = settings /\ Formed(store', settings)
  BY DEF Save, StoreError, RecordsFormed
<1>2. CASE SetRun(c, r) /\ Goto(c, target)
  <2>1. pc'[c] = target /\ run'[c] = r /\ \A d \in Calls : Formed(run'[d], settings)
    BY <1>0, <1>2 DEF SetRun, Goto, Locals, RecordsFormed
  <2> QED BY <1>1, <2>1, ArrivesStanding DEF RecordsFormed, Landings
<1>3. CASE Raise(c, r, "error")
  BY <1>0, <1>1, <1>3, RaiseFormed DEF RecordsFormed
<1> QED BY <1>2, <1>3 DEF Save

\* A step without an await reaches its target.
LEMMA LocalFormed ==
    ASSUME TypeOK, RecordsFormed, NEW c \in Calls, NEW r \in Runs, Formed(r, settings),
           NEW target \in Landings, Poised(r, settings, target), Local(c, r, target)
    PROVE  RecordsFormed' /\ Stands(c)'
<1>0. Locals
  BY DEF TypeOK, Locals
<1>1. UNCHANGED <<settings, store>> /\ SetRun(c, r) /\ Goto(c, target)
  BY DEF Local
<1>2. pc'[c] = target /\ run'[c] = r /\ \A d \in Calls : Formed(run'[d], settings)
  BY <1>0, <1>1 DEF SetRun, Goto, Locals, RecordsFormed
<1> QED BY <1>1, <1>2, ArrivesStanding DEF RecordsFormed, Landings

\* The failure of an awaited service leaves the operation.
LEMMA ServiceFailsFormed ==
    ASSUME TypeOK, RecordsFormed, NEW c \in Calls, ServiceFails(c, run[c])
    PROVE  RecordsFormed' /\ Stands(c)'
<1>1. Locals /\ run[c] \in Runs /\ Formed(run[c], settings)
  BY DEF TypeOK, Locals, RecordsFormed
<1>2. (\A d \in Calls : Formed(run'[d], settings)) /\ Stands(c)'
  BY <1>1, RaiseFormed DEF ServiceFails
<1> QED BY <1>2 DEF ServiceFails, RecordsFormed

-----------------------------------------------------------------------------
(* Every step keeps RecordsFormed, and Stands of the call that takes it. *)

\* create_run: what it resumes stands where the resumption puts it.
LEMMA ResumptionFormed ==
    ASSUME NEW r \in Runs, NEW s, NEW created \in BOOLEAN, Formed(r, s),
           created => Poised(r, s, "startCapture")
    PROVE  LET resumption == Resumption(r, created)
           IN /\ Formed(resumption.run, s)
              /\ resumption.pc = "saveResume" =>
                    Poised(resumption.run, s,
                           IF resumption.op = "execute" THEN "startCapture" ELSE "dispatch")
              /\ resumption.pc # "saveResume" => Poised(resumption.run, s, resumption.pc)
<1>1. CASE created
  BY <1>1 DEF Resumption
<1>2. CASE ~created /\ r.status = "FAILED_RETRYABLE" /\ r.attempts >= MaxAttempts
  BY <1>2, FreelyPoised DEF Resumption
<1>3. CASE /\ ~created /\ r.status = "FAILED_RETRYABLE" /\ ~(r.attempts >= MaxAttempts)
           /\ failed_during_action_dispatch(r)
  <2>1. /\ Resumption(r, created).op = "dispatch" /\ Resumption(r, created).pc = "saveResume"
        /\ Resumption(r, created).run = resume_action_dispatch(r)
    BY <1>3 DEF Resumption
  <2>2. Formed(resume_action_dispatch(r), s) /\ Poised(resume_action_dispatch(r), s, "dispatch")
    BY <1>3, ResumeFormed DEF Poised
  <2> QED BY <2>1, <2>2
<1>4. CASE ~created /\ r.status = "ROUTING_ACTION"
  BY <1>4 DEF Resumption, Poised
<1>5. CASE ~created /\ r.status = "VERIFYING" /\ r.receipt # "NONE"
  BY <1>5 DEF Resumption, Poised, Formed
<1>6. CASE Resumption(r, created) =
              [op |-> "execute", pc |-> "saveResume", run |-> reset_interrupted_run(r)]
  <2>1. Formed(reset_interrupted_run(r), s) /\ Poised(reset_interrupted_run(r), s, "startCapture")
    BY NewRunFormed DEF Poised
  <2> QED BY <1>6, <2>1
<1> QED BY <1>1, <1>2, <1>3, <1>4, <1>5, <1>6 DEF Resumption

\* The steps of create_run.
LEMMA CreateRunFormed ==
    ASSUME TypeOK, RecordsFormed, NEW c \in Calls, Placed(c), Stands(c), CreateRun(c)
    PROVE  RecordsFormed' /\ Stands(c)'
<1>0. Locals /\ run[c] \in Runs /\ Formed(run[c], settings) /\ Formed(store, settings)
  BY DEF TypeOK, Locals, RecordsFormed
<1>1. CASE Reserve(c)
  <2>1. /\ run' = [run EXCEPT ![c] = store'] /\ pc' = [pc EXCEPT ![c] = "reserved"]
        /\ settings' = settings
    BY <1>1 DEF Reserve, SetRun, Goto
  <2>2. CASE store.status = "ABSENT"
    <3>1. PICK repository \in BOOLEAN : store' = new_run(repository)
      BY <1>1, <2>2 DEF Reserve
    <3>2. Formed(store', settings) /\ Poised(store', settings, "startCapture")
      BY <3>1, NewRunFormed DEF Poised
    <3>3. pc'[c] = "reserved" /\ run'[c] = store' /\ \A d \in Calls : Formed(run'[d], settings)
      BY <1>0, <2>1, <3>2 DEF RecordsFormed, Locals
    <3> QED
      BY <2>1, <3>2, <3>3, FreelyPoised DEF RecordsFormed, Stands
  <2>3. CASE store.status # "ABSENT"
    <3>1. store' = store /\ op' = op /\ op[c] = "none"
      BY <1>1, <2>3 DEF Reserve, Placed
    <3>2. pc'[c] = "reserved" /\ run'[c] = store' /\ \A d \in Calls : Formed(run'[d], settings)
      BY <1>0, <2>1, <3>1 DEF RecordsFormed, Locals
    <3> QED BY <1>0, <2>1, <3>1, <3>2, FreelyPoised DEF RecordsFormed, Stands
  <2> QED BY <2>2, <2>3
<1>2. CASE ReturnExisting(c) \/ LeaseDenied(c) \/ LeaseError(c) \/ ReleaseRunLease(c)
  <2>1. Forget({c}) /\ UNCHANGED <<store, settings>>
    BY <1>2 DEF ReturnExisting, LeaseDenied, LeaseError, ReleaseRunLease
  <2> QED BY <1>0, <2>1, ForgetFormed DEF RecordsFormed
<1>3. CASE AcquireRunLease(c)
  <2> DEFINE resumption == Resumption(run[c], op[c] = "created")
  <2>1. /\ op' = [op EXCEPT ![c] = resumption.op]
        /\ run' = [run EXCEPT ![c] = resumption.run]
        /\ pc' = [pc EXCEPT ![c] = resumption.pc]
        /\ UNCHANGED <<store, settings>>
        /\ pc[c] = "reserved"
    BY <1>3 DEF AcquireRunLease, WantsLease, SetRun, Goto
  <2>2. op[c] = "created" => Poised(run[c], settings, "startCapture")
    BY <2>1 DEF Stands
  <2>3. /\ Formed(resumption.run, settings)
        /\ resumption.pc = "saveResume" =>
              Poised(resumption.run, settings,
                     IF resumption.op = "execute" THEN "startCapture" ELSE "dispatch")
        /\ resumption.pc # "saveResume" => Poised(resumption.run, settings, resumption.pc)
    BY <1>0, <2>2, ResumptionFormed
  <2>4. resumption.pc \in {"startCapture", "release", "saveResume", "dispatch", "route"}
    BY <1>0, ResumptionType
  <2> HIDE DEF resumption
  <2>5. RecordsFormed'
    BY <1>0, <2>1, <2>3 DEF RecordsFormed, Locals
  <2>6. pc'[c] = resumption.pc /\ op'[c] = resumption.op /\ run'[c] = resumption.run
    BY <1>0, <2>1 DEF Locals
  <2>7. CASE resumption.pc = "saveResume"
    BY <2>1, <2>5, <2>3, <2>6, <2>7, FreelyPoised DEF Stands
  <2>8. CASE resumption.pc # "saveResume"
    BY <2>1, <2>5, <2>3, <2>4, <2>6, <2>8, ArrivesStanding
  <2> QED BY <2>5, <2>7, <2>8
<1>4. CASE SaveResume(c)
  <2>1. /\ Formed(store', settings) /\ settings' = settings /\ pc[c] = "saveResume"
        /\ Poised(run[c], settings, IF op[c] = "execute" THEN "startCapture" ELSE "dispatch")
    BY <1>0, <1>4 DEF SaveResume, StoreError, Stands
  <2>2. CASE /\ Goto(c, IF op[c] = "execute" THEN "startCapture" ELSE "dispatch")
             /\ UNCHANGED <<op, run, action, next>>
    <3>1. /\ pc'[c] = IF op[c] = "execute" THEN "startCapture" ELSE "dispatch"
          /\ run' = run
      BY <1>0, <2>2 DEF Goto, Locals
    <3>2. Poised(run'[c], settings', pc'[c]) /\ pc'[c] \notin {"unlock", "reserved", "saveResume"}
      BY <2>1, <3>1
    <3> QED BY <2>1, <3>1, <3>2, ArrivesStanding DEF RecordsFormed
  <2>3. CASE Forget({c})
    BY <2>1, <2>3, ForgetFormed DEF RecordsFormed
  <2> QED BY <1>4, <2>2, <2>3 DEF SaveResume
<1> QED BY <1>1, <1>2, <1>3, <1>4 DEF CreateRun

\* The steps of _execute: each stage is started from the one before it.
LEMMA ExecuteFormed ==
    ASSUME TypeOK, RecordsFormed, NEW c \in Calls, Placed(c), Stands(c), Execute(c)
    PROVE  RecordsFormed' /\ Stands(c)'
<1>0. run[c] \in Runs /\ Formed(run[c], settings) /\ Poised(run[c], settings, pc[c])
  BY DEF TypeOK, RecordsFormed, Stands
<1>1. pc[c] \in Early => run[c].pr = "NONE" /\ run[c].issue = "NONE"
  BY <1>0 DEF Placed, Formed
<1>2. Early \cup {"route", "dispatch"} \subseteq Landings
  BY DEF Early, Landings, ControlPoints, TaskSection
<1>3. {"CAPTURING", "COMPILING", "BINDING", "PROBING", "EVALUATING", "REMEDIATING",
       "VERIFYING", "ROUTING_ACTION"} \subseteq Stages
  BY DEF Stages
<1>4. ASSUME NEW r \in Runs, Formed(r, settings), NEW target \in Early \cup {"route", "dispatch"},
             Poised(r, settings, target), Save(c, r, target)
      PROVE  RecordsFormed' /\ Stands(c)'
  BY <1>2, <1>4, SaveFormed
<1>5. CASE StartCapture(c) \/ StartCompile(c) \/ StartProbe(c)
  <2>1. PICK stage \in {"CAPTURING", "COMPILING", "PROBING"}, target \in {"capture", "compile", "probe"} :
           /\ Save(c, start_stage(run[c], stage), target)
           /\ pc[c] \in Early
           /\ <<stage, target>> \in {<<"CAPTURING", "capture">>, <<"COMPILING", "compile">>,
                                     <<"PROBING", "probe">>}
    BY <1>5 DEF StartCapture, StartCompile, StartProbe, Early
  <2>2. /\ start_stage(run[c], stage) \in Runs /\ Formed(start_stage(run[c], stage), settings)
        /\ Shows(start_stage(run[c], stage), stage, "RUNNING")
    BY <1>0, <1>1, <1>3, <2>1, StageType, StageFormed
  <2>3. Poised(start_stage(run[c], stage), settings, target)
    BY <2>1, <2>2 DEF Poised
  <2> QED BY <1>4, <2>1, <2>2, <2>3 DEF Early
<1>6. CASE Capture(c) \/ Compile(c) \/ Probe(c)
  <2>1. CASE ServiceFails(c, run[c])
    BY <2>1, ServiceFailsFormed
  <2>2. ASSUME NEW status \in {"CAPTURING", "COMPILING", "PROBING"},
               NEW target \in {"startCompile", "bind", "evaluate"}, pc[c] \in Early,
               <<status, target>> \in {<<"CAPTURING", "startCompile">>, <<"COMPILING", "bind">>,
                                       <<"PROBING", "evaluate">>},
               run[c].status = status, Save(c, finish_stage(run[c]), target)
        PROVE  RecordsFormed' /\ Stands(c)'
    <3>1. /\ finish_stage(run[c]) \in Runs /\ Formed(finish_stage(run[c]), settings)
          /\ Shows(finish_stage(run[c]), status, "SUCCEEDED")
      BY <1>0, <1>1, <2>2, StageType, StageFormed
    <3>2. Poised(finish_stage(run[c]), settings, target)
      BY <2>2, <3>1 DEF Poised
    <3> QED BY <1>4, <2>2, <3>1, <3>2 DEF Early
  <2>3. CASE pc[c] = "capture" /\ Save(c, finish_stage(run[c]), "startCompile")
    BY <1>0, <2>2, <2>3 DEF Early, Poised, Shows
  <2>4. CASE pc[c] = "compile" /\ Save(c, finish_stage(run[c]), "bind")
    BY <1>0, <2>2, <2>4 DEF Early, Poised, Shows
  <2>5. CASE pc[c] = "probe" /\ Save(c, finish_stage(run[c]), "evaluate")
    BY <1>0, <2>2, <2>5 DEF Early, Poised, Shows
  <2> QED BY <1>6, <2>1, <2>3, <2>4, <2>5 DEF Capture, Compile, Probe
<1>7. CASE Bind(c)
  <2>1. /\ Bound(run[c]) \in Runs /\ Formed(Bound(run[c]), settings)
        /\ Shows(Bound(run[c]), "BINDING", "SUCCEEDED")
        /\ Bound(run[c]).pr = "NONE" /\ Bound(run[c]).issue = "NONE"
    BY <1>0, <1>1, <1>7, StageType, StageFormed DEF Bound, Bind, Early
  <2>2. CASE Save(c, Bound(run[c]), "startProbe")
    BY <1>4, <2>1, <2>2 DEF Early, Poised
  <2>3. CASE Local(c, WithVerdict(Bound(run[c]), "NOT_TESTED"), "route")
    <3>1. /\ WithVerdict(Bound(run[c]), "NOT_TESTED") \in Runs
          /\ Formed(WithVerdict(Bound(run[c]), "NOT_TESTED"), settings)
          /\ Poised(WithVerdict(Bound(run[c]), "NOT_TESTED"), settings, "route")
      BY <2>1, OutcomeType, OutcomeFormed DEF Verdicts, Poised, Shows
    <3> QED BY <1>2, <2>3, <3>1, LocalFormed
  <2> QED BY <1>7, <2>2, <2>3 DEF Bind
<1>8. CASE Evaluate(c)
  <2> DEFINE evaluated == finish_stage(start_stage(run[c], "EVALUATING"))
  <2>1. PICK verdict \in {"SUPPORTED", "CONTRADICTED", "INCONCLUSIVE"} :
          Save(c, WithVerdict(evaluated, verdict),
               IF verdict = "CONTRADICTED" THEN "remediate" ELSE "route")
    BY <1>8 DEF Evaluate
  <2>2. /\ evaluated \in Runs /\ Shows(evaluated, "EVALUATING", "SUCCEEDED")
        /\ evaluated.pr = "NONE" /\ evaluated.issue = "NONE"
    BY <1>0, <1>1, <1>3, <1>8, StageType, StageFormed DEF Evaluate, Early
  <2> HIDE DEF evaluated
  <2>3. /\ WithVerdict(evaluated, verdict) \in Runs
        /\ Formed(WithVerdict(evaluated, verdict), settings)
        /\ Poised(WithVerdict(evaluated, verdict), settings, "remediate")
        /\ Poised(WithVerdict(evaluated, verdict), settings, "route")
    BY <2>2, OutcomeType, OutcomeFormed DEF Verdicts, Poised, Shows
  <2> QED BY <1>4, <2>1, <2>3 DEF Early
<1>9. CASE Remediate(c)
  <2> DEFINE remediated == finish_stage(start_stage(run[c], "REMEDIATING"))
  <2>1. /\ remediated \in Runs /\ Formed(remediated, settings)
        /\ Shows(remediated, "REMEDIATING", "SUCCEEDED")
    BY <1>0, <1>1, <1>3, <1>9, StageType, StageFormed DEF Remediate, Early
  <2>2. Save(c, remediated, "verify")
    BY <1>9 DEF Remediate
  <2> HIDE DEF remediated
  <2> QED BY <1>4, <2>1, <2>2 DEF Early, Poised
<1>10. CASE Verify(c)
  <2> DEFINE verified == finish_stage(start_stage(run[c], "VERIFYING"))
  <2>1. PICK receipt \in {"UNPROVEN", "PROVEN"} :
          Save(c, WithReceipt(verified, receipt), "route")
    BY <1>10 DEF Verify
  <2>2. /\ verified \in Runs /\ Shows(verified, "VERIFYING", "SUCCEEDED")
        /\ verified.pr = "NONE" /\ verified.issue = "NONE"
    BY <1>0, <1>1, <1>3, <1>10, StageType, StageFormed DEF Verify, Early
  <2> HIDE DEF verified
  <2>3. /\ WithReceipt(verified, receipt) \in Runs
        /\ Formed(WithReceipt(verified, receipt), settings)
        /\ Poised(WithReceipt(verified, receipt), settings, "route")
    BY <2>2, OutcomeType, OutcomeFormed DEF Poised, Shows
  <2> QED BY <1>4, <2>1, <2>3
<1>11. CASE Route(c)
  <2> DEFINE routed == WithPlan(start_stage(run[c], "ROUTING_ACTION"))
  <2>1. routed \in Runs /\ Formed(routed, settings) /\ Shows(routed, "ROUTING_ACTION", "RUNNING")
    BY <1>0, <1>3, StageType, PlanType, PlanFormed
  <2>2. Save(c, routed, "dispatch")
    BY <1>11 DEF Route
  <2> HIDE DEF routed
  <2> QED BY <1>4, <2>1, <2>2 DEF Poised, Shows
<1>12. CASE SaveFailure(c)
  <2>1. /\ pc'[c] = "release" /\ Formed(store', settings)
        /\ UNCHANGED <<run, settings>>
    BY <1>0, <1>12 DEF SaveFailure, StoreError, Goto, TypeOK, RecordsFormed
  <2> QED BY <2>1, FreelyPoised, ArrivesStanding DEF RecordsFormed
<1> QED BY <1>5, <1>6, <1>7, <1>8, <1>9, <1>10, <1>11, <1>12 DEF Execute

\* The steps of the dispatchers: an action is selected in a routing stage that runs, and
\* the stage is over when the receipt is in the copy.
LEMMA DispatchFormed ==
    ASSUME TypeOK, RecordsFormed, NEW c \in Calls, Placed(c), Stands(c),
           DispatchAndComplete(c)
    PROVE  RecordsFormed' /\ Stands(c)'
<1>0. Locals /\ run[c] \in Runs /\ Formed(run[c], settings) /\ Poised(run[c], settings, pc[c])
  BY DEF TypeOK, Locals, RecordsFormed, Stands
<1>a. ASSUME NEW r \in Runs, Formed(r, settings), NEW target, Local(c, r, target),
             Poised(r, settings, target),
             target \in {"saveFallback", "saveRouted", "saveOpened", "saveOutcome", "complete",
                         "release"}
      PROVE  RecordsFormed' /\ Stands(c)'
  BY <1>a, LocalFormed DEF Landings, ControlPoints, TaskSection
<1>b. \A note : /\ Formed(fail_retryable(run[c], note), settings)
                /\ Formed(fail_run(run[c], "FAILED_SAFE", note), settings)
  BY <1>0, FailFormed
<1>c. /\ finish_stage(run[c]) \in Runs /\ select_issue_fallback(run[c]) \in Runs
  BY <1>0, StageType, PlanType
<1>d. Publishing(c) => Shows(run[c], "ROUTING_ACTION", "RUNNING") /\ MayPublish(run[c], settings)
  BY <1>0 DEF Publishing, Poised
<1>1. CASE Dispatch(c)
  <2>1. pc[c] = "dispatch" /\ run[c].status = "ROUTING_ACTION"
    BY <1>0, <1>1 DEF Dispatch, Poised
  <2>2. CASE Decision(run[c]) = "complete" /\ Local(c, run[c], "complete")
    <3>1. Poised(run[c], settings, "complete")
      BY <2>1, <2>2 DEF Decision, Routed, Poised, Shows
    <3> QED BY <1>0, <1>a, <2>2, <3>1
  <2>3. CASE /\ Decision(run[c]) \in {"keep", "nothing"}
             /\ Local(c, finish_stage(run[c]), "saveRouted")
    <3>1. \/ HasReceipt(run[c])
          \/ /\ run[c].pr # "READY"
             /\ ~(run[c].issue = "PLANNED" /\ MayPublish(run[c], settings))
      BY <2>3 DEF Decision, CanPublish, MayPublish
    <3>2. /\ Formed(finish_stage(run[c]), settings)
          /\ Poised(finish_stage(run[c]), settings, "saveRouted")
      BY <1>0, <2>1, <3>1, RoutedFormed DEF Poised
    <3> QED BY <1>a, <1>c, <2>3, <3>2
  <2>4. CASE /\ Decision(run[c]) = "fallback"
             /\ Local(c, select_issue_fallback(run[c]), "saveFallback")
    <3>1. run[c].pr = "READY" /\ Shows(run[c], "ROUTING_ACTION", "RUNNING")
      BY <1>0, <2>1, <2>4 DEF Decision, Routed, Formed, Shows
    <3>2. /\ Formed(select_issue_fallback(run[c]), settings)
          /\ Poised(select_issue_fallback(run[c]), settings, "saveFallback")
      BY <1>0, <3>1, FallbackFormed DEF Poised
    <3> QED BY <1>a, <1>c, <2>4, <3>2
  <2> QED BY <1>1, <2>2, <2>3, <2>4 DEF Dispatch
<1>2. CASE SaveFallback(c)
  <2>1. Poised(run[c], settings, "dispatch") /\ Save(c, run[c], "dispatch")
    BY <1>0, <1>2 DEF SaveFallback, Poised, Shows
  <2> QED BY <1>0, <2>1, SaveFormed DEF Landings, ControlPoints, TaskSection
<1>3. CASE SaveRouted(c)
  <2>1. Poised(run[c], settings, "complete") /\ Save(c, run[c], "complete")
    BY <1>0, <1>3 DEF SaveRouted, Poised, Shows
  <2> QED BY <1>0, <2>1, SaveFormed DEF Landings, ControlPoints, TaskSection
<1>4. ASSUME NEW kind \in {"pr", "issue"}, AcquireActionLease(c, kind)
      PROVE  RecordsFormed' /\ Stands(c)'
  <2>1. /\ pc'[c] = "publish" /\ pc[c] = "dispatch" /\ Decision(run[c]) = kind
        /\ UNCHANGED <<settings, store, run>>
    BY <1>0, <1>4 DEF AcquireActionLease, ChooseAction, Goto, Locals
  <2>2. run[c].status = "ROUTING_ACTION" /\ ~Routed(run[c]) /\ MayPublish(run[c], settings)
    BY <1>0, <2>1 DEF Decision, CanPublish, MayPublish, Poised
  <2>3. Poised(run[c], settings, "publish")
    BY <1>0, <2>2 DEF Formed, Routed, Poised, Shows
  <2>4. Stands(c)'
    BY <2>1, <2>3, ArrivesStanding
  <2> QED BY <2>1, <2>4 DEF RecordsFormed
<1>5. ASSUME NEW kind \in {"pr", "issue"}, ActionLeaseDenied(c, kind)
      PROVE  RecordsFormed' /\ Stands(c)'
  BY <1>0, <1>5, <1>a, FreelyPoised DEF ActionLeaseDenied
<1>6. ASSUME NEW failure, Raise(c, run[c], failure), UNCHANGED <<settings, store>>
      PROVE  RecordsFormed' /\ Stands(c)'
  BY <1>0, <1>6, RaiseFormed DEF RecordsFormed
<1>7. ASSUME NEW kind \in {"pr", "issue"}, ActionLeaseError(c, kind)
      PROVE  RecordsFormed' /\ Stands(c)'
  BY <1>6, <1>7 DEF ActionLeaseError
<1>8. CASE PublishWrites(c)
  <2>1. pc[c] = "publish" /\ pc'[c] = "confirm" /\ UNCHANGED <<settings, store, run>>
    BY <1>0, <1>8 DEF PublishWrites, Goto, Locals
  <2>2. Poised(run[c], settings, "confirm")
    BY <1>0, <2>1 DEF Poised
  <2>3. Stands(c)'
    BY <2>1, <2>2, ArrivesStanding
  <2> QED BY <2>1, <2>3 DEF RecordsFormed
<1>9. CASE PublishReturns(c)
  <2>1. /\ action[c] \in {"pr", "issue"}
        /\ IF action[c] = "pr" THEN run[c].pr = "READY" ELSE run[c].issue = "PLANNED"
    BY <1>9 DEF PublishReturns, Placed
  <2>2. /\ WithOpened(run[c], action[c]) \in Runs
        /\ Formed(WithOpened(run[c], action[c]), settings)
        /\ Poised(WithOpened(run[c], action[c]), settings, "saveOpened")
    BY <1>0, <1>9, <1>d, <2>1, OutcomeType, OpenedFormed DEF PublishReturns, Poised
  <2> QED BY <1>9, <1>a, <2>2 DEF PublishReturns
<1>10. CASE PublishRejects(c)
  <2>1. /\ run' = [run EXCEPT ![c] = select_issue_fallback(run[c])]
        /\ UNCHANGED <<settings, store>> /\ Leave(c, "saveFallback") /\ run[c].pr = "READY"
    BY <1>10 DEF PublishRejects, SetRun, Placed
  <2>2. /\ Formed(select_issue_fallback(run[c]), settings)
        /\ Poised(select_issue_fallback(run[c]), settings, "saveFallback")
    BY <1>0, <1>10, <1>d, <2>1, FallbackFormed DEF PublishRejects, Poised
  <2>3. run'[c] = select_issue_fallback(run[c]) /\ \A d \in Calls : Formed(run'[d], settings)
    BY <1>0, <2>1, <2>2 DEF Locals, RecordsFormed
  <2>4. Stands(c)'
    BY <1>0, <2>1, <2>2, <2>3, LeavesStanding
  <2> QED BY <2>1, <2>3, <2>4 DEF RecordsFormed
<1>11. CASE PublishUncertain(c)
  BY <1>0, <1>11, <1>a, <1>b, FailType, FreelyPoised DEF PublishUncertain, Notes
<1>12. CASE PublishRefused(c)
  BY <1>0, <1>12, <1>a, <1>b, FailType, FreelyPoised DEF PublishRefused, Notes
<1>13. CASE PublishRaises(c)
  BY <1>6, <1>13 DEF PublishRaises
<1>14. CASE SaveOpened(c)
  <2>1. Formed(store', settings) /\ UNCHANGED settings /\ pc[c] = "saveOpened"
    BY <1>0, <1>14 DEF SaveOpened, StoreError, RecordsFormed
  <2>2. CASE Goto(c, "complete") /\ UNCHANGED run
    <3>1. Poised(run'[c], settings', pc'[c]) /\ pc'[c] = "complete"
      BY <1>0, <2>1, <2>2 DEF Goto, Locals, Poised
    <3> QED BY <2>1, <2>2, <3>1, ArrivesStanding DEF RecordsFormed
  <2>3. CASE SetRun(c, ActionCheckpointFailed(run[c])) /\ Leave(c, "saveFailure")
    <3>1. Stands(c)'
      BY <1>0, <2>3, LeavesStanding, FreelyPoised
    <3>2. Formed(ActionCheckpointFailed(run[c]), settings)
      BY <1>0, FailureFormed
    <3> QED BY <1>0, <2>1, <2>3, <3>1, <3>2 DEF SetRun, Locals, RecordsFormed
  <2> QED BY <1>14, <2>2, <2>3 DEF SaveOpened
<1>15. CASE SaveOutcome(c)
  <2>1. Formed(store', settings) /\ UNCHANGED <<settings, run>>
    BY <1>0, <1>15 DEF SaveOutcome, StoreError, RecordsFormed
  <2>2. Stands(c)'
    BY <1>0, <1>15, LeavesStanding, FreelyPoised DEF SaveOutcome
  <2> QED BY <2>1, <2>2 DEF RecordsFormed
<1>16. CASE Complete(c)
  <2>1. /\ Formed(Completed(run[c]), settings)
        /\ Formed(CompletionCheckpointFailed(run[c]), settings)
    BY <1>0, <1>16, CompletedFormed, FailureFormed DEF Complete, Poised
  <2>2. Formed(store', settings) /\ UNCHANGED settings
    BY <2>1, <1>16 DEF Complete, StoreError, RecordsFormed
  <2>3. PICK r \in {Completed(run[c]), CompletionCheckpointFailed(run[c])} : SetRun(c, r)
    BY <1>16 DEF Complete
  <2>4. Stands(c)'
    BY <1>0, <1>16, LeavesStanding, FreelyPoised DEF Complete
  <2>5. Formed(r, settings)
    BY <2>1, <2>3
  <2> QED BY <1>0, <2>2, <2>3, <2>4, <2>5 DEF SetRun, Locals, RecordsFormed
<1>17. CASE ReleaseActionLease(c)
  <2>1. /\ pc'[c] = next[c] /\ UNCHANGED <<settings, store, run>>
        /\ next[c] \in Exits /\ Poised(run[c], settings, next[c])
    BY <1>0, <1>17 DEF ReleaseActionLease, Goto, Locals, Placed, Stands
  <2>2. Stands(c)'
    BY <2>1, ArrivesStanding DEF Exits
  <2> QED BY <2>1, <2>2 DEF RecordsFormed
<1> QED
  BY <1>1, <1>2, <1>3, <1>4, <1>5, <1>7, <1>8, <1>9, <1>10, <1>11, <1>12, <1>13, <1>14,
     <1>15, <1>16, <1>17 DEF DispatchAndComplete

-----------------------------------------------------------------------------
(* The inductive invariant and what follows from it. *)

FormInv == RecordsFormed /\ \A c \in Calls : Stands(c)

\* At the start there is no document and nobody has a copy.
LEMMA FormInvInit == Init => FormInv
<1> SUFFICES ASSUME Init PROVE FormInv
  OBVIOUS
<1>1. Formed(NoRun, settings)
  BY NewRunFormed
<1>2. store = NoRun /\ \A c \in Calls : run[c] = NoRun /\ pc[c] = "idle"
  BY DEF Init
<1>3. \A c \in Calls : Stands(c)
  BY <1>2, FreelyPoised DEF Stands
<1> QED BY <1>1, <1>2, <1>3 DEF FormInv, RecordsFormed

\* No step changes the settings.
LEMMA SettingsFixed == [Next]_vars => settings' = settings
<1>1. \A c \in Calls : CreateRun(c) => settings' = settings
  BY DEF CreateRun, Reserve, ReturnExisting, LeaseDenied, LeaseError, AcquireRunLease,
         SaveResume, ReleaseRunLease
<1>2. \A c \in Calls : Execute(c) => settings' = settings
  BY DEF Execute, StartCapture, Capture, StartCompile, Compile, Bind, StartProbe, Probe,
         Evaluate, Remediate, Verify, Route, SaveFailure, Save, ServiceFails, Local
<1>3. \A c \in Calls : DispatchAndComplete(c) => settings' = settings
  BY DEF DispatchAndComplete, Dispatch, SaveFallback, SaveRouted, AcquireActionLease,
         ActionLeaseDenied, ActionLeaseError, PublishWrites, PublishReturns, PublishRejects,
         PublishUncertain, PublishRefused, PublishRaises, SaveOpened, SaveOutcome, Complete,
         ReleaseActionLease, Save, Local
<1>4. Expiry \/ HandleDraft \/ (\E i \in Instances : Crash(i)) => settings' = settings
  BY DEF Expiry, ExpireRunLease, ExpireActionLease, HandleDraft, Crash
<1> QED BY <1>1, <1>2, <1>3, <1>4 DEF Next, CallStep, vars

\* Every step keeps the invariant.
LEMMA FormInvStep ==
    ASSUME TypeOK, RecordInv, FormInv, [Next]_vars
    PROVE  FormInv'
<1>0. /\ Locals /\ RecordsSound /\ RecordsFormed
      /\ \A c \in Calls : Placed(c) /\ Stands(c)
      /\ settings' = settings
  BY SettingsFixed DEF TypeOK, Locals, RecordInv, FormInv
<1>1. CASE UNCHANGED <<store, pc, op, run, next>>
  BY <1>0, <1>1 DEF FormInv, RecordsFormed, Stands
<1>2. ASSUME NEW c \in Calls, CallStep(c)
      PROVE  FormInv'
  <2>1. RecordsFormed' /\ Stands(c)'
    BY <1>0, <1>2, CreateRunFormed, ExecuteFormed, DispatchFormed DEF CallStep
  <2>2. Untouched(c)
    BY <1>0, <1>2, CreateRunUntouched, ExecuteUntouched, DispatchUntouched DEF CallStep
  <2>3. \A d \in Calls \ {c} : Stands(d)'
    BY <1>0, <2>2 DEF Untouched, Stands
  <2> QED BY <2>1, <2>3 DEF FormInv
<1>3. CASE Expiry \/ HandleDraft
  BY <1>1, <1>3 DEF Expiry, ExpireRunLease, ExpireActionLease, HandleDraft
<1>4. ASSUME NEW i \in Instances, Crash(i)
      PROVE  FormInv'
  <2> DEFINE S == {c \in Calls : InstanceOf[c] = i}
  <2>1. Forget(S) /\ UNCHANGED <<store, settings>>
    BY <1>4 DEF Crash
  <2> HIDE DEF S
  <2>2. RecordsFormed' /\ \A d \in Calls : d \in S => Stands(d)'
    BY <1>0, <2>1, ForgetFormed DEF RecordsFormed
  <2>3. \A d \in Calls : d \notin S => Stands(d)'
    BY <1>0, <2>1 DEF Forget, Stands
  <2> QED BY <2>2, <2>3 DEF FormInv
<1> QED BY <1>1, <1>2, <1>3, <1>4 DEF Next, vars

\* The invariant holds in every reachable state.
LEMMA FormInvariant == Spec => []FormInv
BY TypeCorrect, RecordInvariant, FormInvInit, FormInvStep, PTL DEF Spec

\* Whatever checkpoint a call resumed from, it starts a stage only from one that allows it
\* and that is over, and finishes only one that runs: no InvalidTransition is raised.
THEOREM TransitionsAreValid == Spec => []NoInvalidTransition
<1>1. ASSUME FormInv, NEW c \in Calls
      PROVE  /\ pc[c] \in DOMAIN StartedAt =>
                   StartedAt[pc[c]] \in Allowed[run[c].status] /\ run[c].state # "RUNNING"
             /\ pc[c] \in {"capture", "compile", "probe", "publish", "confirm"} =>
                   run[c].state = "RUNNING"
             /\ pc[c] = "dispatch" /\ ~Routed(run[c]) => run[c].state = "RUNNING"
  <2>1. Poised(run[c], settings, pc[c]) /\ Formed(run[c], settings)
    BY <1>1 DEF FormInv, Stands, RecordsFormed
  <2>2. pc[c] \in DOMAIN StartedAt =>
           StartedAt[pc[c]] \in Allowed[run[c].status] /\ run[c].state # "RUNNING"
    BY <2>1 DEF Poised, Shows, StartedAt, Allowed, Stages
  <2>3. pc[c] \in {"capture", "compile", "probe", "publish", "confirm"} =>
           run[c].state = "RUNNING"
    BY <2>1 DEF Poised, Shows
  <2>4. pc[c] = "dispatch" /\ ~Routed(run[c]) => run[c].state = "RUNNING"
    BY <2>1 DEF Poised, Formed, Routed
  <2> QED BY <2>2, <2>3, <2>4
<1>2. FormInv => NoInvalidTransition
  BY <1>1 DEF NoInvalidTransition
<1> QED BY <1>2, FormInvariant, PTL

\* A COMPLETE record reports a receipt exactly when it is a contradiction that may be
\* published: _dispatch_and_complete ends the routing stage on no other path, and a
\* resumption of a run whose routing is over completes it as it is.
THEOREM CompletionsArePublished == Spec => []CompleteMeansPublished
<1>1. FormInv => CompleteMeansPublished
  BY DEF FormInv, RecordsFormed, Formed, Published, MayPublish, CanPublish,
         CompleteMeansPublished, Records
<1> QED BY <1>1, FormInvariant, PTL

-----------------------------------------------------------------------------
(* Serial executions: leases outlive the work and no lease was granted to a *)
(* call with a stale copy.  Then the document can answer for GitHub.        *)

\* GitHub holds no artifact that a publisher would find again.
Clear(p, i) == p # "draft" /\ i # "open"

\* Under the settings s, a record that does not end the run accounts for the draft PR p
\* and the issue i: it selects or reports what GitHub holds, and a retry of it reconciles
\* that with GitHub instead of starting from scratch.
Reconciled(r, s, p, i) ==
    \/ r.status = "FAILED_SAFE"
    \/ Clear(p, i)
    \/ /\ p = "draft" => r.pr \in {"READY", "OPENED"}
       /\ i = "open" => r.issue \in {"PLANNED", "OPENED"}
       /\ MayPublish(r, s)
       /\ \/ r.status \in {"ROUTING_ACTION", "COMPLETE"}
          \/ r.status = "FAILED_RETRYABLE" /\ (HasReceipt(r) \/ r.stage = "ROUTING_ACTION")

\* The control point of a call, looking through the release of its action lease.
Where(c) == IF pc[c] = "unlock" THEN next[c] ELSE pc[c]

\* What ties the copy of the one executing call to the document and to GitHub.
Steady(c) ==
    /\ Reconciled(run[c], settings, pull_request, issue)
    /\ HasReceipt(store) => run[c].pr = store.pr /\ run[c].issue = store.issue
    /\ Where(c) \in {"dispatch", "publish", "confirm"} => run[c] = store
    /\ Where(c) = "saveFallback" => Clear(pull_request, issue)
    /\ op[c] = "execute" /\ Where(c) \in {"dispatch", "publish"} => Clear(pull_request, issue)
    /\ op[c] = "execute" /\ Where(c) \in {"dispatch", "publish", "confirm", "saveFallback",
                                          "saveRouted"} => ~HasReceipt(run[c])
    /\ store.status \in Final =>
          \/ Where(c) = "release"
          \/ /\ Where(c) = "saveFailure" /\ store.status = "COMPLETE"
             /\ run[c].note \in {"confirmed", "not_dispatched"}

Standing == /\ ~(pull_request = "draft" /\ issue = "open")
            /\ Reconciled(store, settings, pull_request, issue)

SerialInv == Serial => Standing /\ \A c \in Calls : Executing(c) => Steady(c)

\* The receipts of the document survive the step.
KeepsReceipts == HasReceipt(store) => store'.pr = store.pr /\ store'.issue = store.issue

-----------------------------------------------------------------------------
(* Records that account for GitHub. *)

\* When GitHub holds nothing there is nothing to account for.
LEMMA ClearReconciled ==
    ASSUME NEW r, NEW s, NEW p, NEW i, Clear(p, i) \/ r.status = "FAILED_SAFE"
    PROVE  Reconciled(r, s, p, i)
BY DEF Reconciled

\* A record that plans nothing accounts for GitHub only when GitHub holds nothing.
LEMMA PlansNothing ==
    ASSUME NEW r, NEW s, NEW p, NEW i, Reconciled(r, s, p, i), r.status # "FAILED_SAFE",
           r.pr = "NONE" /\ r.issue = "NONE"
    PROVE  Clear(p, i) /\ ~HasReceipt(r)
BY DEF Reconciled, Clear, HasReceipt

\* A record that selects one action leaves no room for the other on GitHub.
LEMMA OtherAbsent ==
    ASSUME NEW r, NEW s, NEW p, NEW i, Sound(r, p, i), Reconciled(r, s, p, i),
           r.status # "FAILED_SAFE"
    PROVE  /\ r.pr = "READY" => i # "open" /\ ~HasReceipt(r)
           /\ r.issue = "PLANNED" => p # "draft" /\ ~HasReceipt(r)
BY DEF Sound, Reconciled, Clear, HasReceipt, SelectedStates

\* Finishing the routing stage, completing the run and an uncertain outcome keep the account.
LEMMA RoutingReconciled ==
    ASSUME NEW r \in Runs, NEW s, NEW p, NEW i, Formed(r, s), Reconciled(r, s, p, i),
           r.status = "ROUTING_ACTION"
    PROVE  /\ Reconciled(finish_stage(r), s, p, i)
           /\ Reconciled(Completed(r), s, p, i)
           /\ r.state = "RUNNING" => \A note : Reconciled(fail_retryable(r, note), s, p, i)
<1>1. Reconciled(finish_stage(r), s, p, i)
  BY DEF Reconciled, MayPublish, finish_stage, Runs
<1>2. Reconciled(Completed(r), s, p, i)
  BY DEF Reconciled, MayPublish, Completed, finish_stage, start_stage, Runs
<1>3. ASSUME r.state = "RUNNING", NEW note, NEW status \in {"FAILED_SAFE", "FAILED_RETRYABLE"}
      PROVE  Reconciled(fail_run(r, status, note), s, p, i)
  BY <1>3 DEF Reconciled, MayPublish, fail_run, Formed, Runs
<1> QED BY <1>1, <1>2, <1>3 DEF fail_retryable

\* So do the failed checkpoints: what GitHub holds is in the receipt they keep.
LEMMA CheckpointReconciled ==
    ASSUME NEW r \in Runs, NEW s, NEW p, NEW i, Formed(r, s), Reconciled(r, s, p, i),
           Shows(r, "ROUTING_ACTION", "SUCCEEDED")
    PROVE  /\ Reconciled(ActionCheckpointFailed(r), s, p, i)
           /\ Reconciled(CompletionCheckpointFailed(r), s, p, i)
           /\ CompletionCheckpointFailed(r).note \in {"confirmed", "not_dispatched"}
<1>1. \/ Clear(p, i)
      \/ /\ HasReceipt(r) /\ MayPublish(r, s)
         /\ p = "draft" => r.pr \in {"READY", "OPENED"}
         /\ i = "open" => r.issue \in {"PLANNED", "OPENED"}
  BY DEF Reconciled, Clear, Formed, Published, Picked, Shows
<1>2. ASSUME NEW q \in Runs, q.pr = r.pr, q.issue = r.issue, q.repository = r.repository,
             NEW note, NEW status \in {"FAILED_SAFE", "FAILED_RETRYABLE"}
      PROVE  /\ Reconciled(fail_run(q, status, note), s, p, i)
             /\ fail_run(q, status, note).note = note
  <2>1. /\ fail_run(q, status, note).pr = r.pr /\ fail_run(q, status, note).issue = r.issue
        /\ fail_run(q, status, note).repository = r.repository
        /\ fail_run(q, status, note).status = status /\ fail_run(q, status, note).note = note
    BY <1>2 DEF fail_run, Runs
  <2> QED BY <1>1, <2>1 DEF Reconciled, HasReceipt, MayPublish, Clear
<1>3. Reconciled(ActionCheckpointFailed(r), s, p, i)
  BY <1>2 DEF ActionCheckpointFailed, fail_retryable
<1>4. /\ Reconciled(CompletionCheckpointFailed(r), s, p, i)
      /\ CompletionCheckpointFailed(r).note \in {"confirmed", "not_dispatched"}
  <2> DEFINE restored == [r EXCEPT !.status = "ROUTING_ACTION",
                                   !.stage = "COMPLETE", !.state = "FAILED"]
  <2>1. restored \in Runs
    <3>1. \A status, stage \in Stages :
             [r EXCEPT !.status = status, !.stage = stage, !.state = "FAILED"] \in Runs
      BY DEF Runs
    <3> QED BY <3>1 DEF Stages
  <2>2. restored.pr = r.pr /\ restored.issue = r.issue /\ restored.repository = r.repository
    BY DEF Runs
  <2>3. PICK status \in {"FAILED_RETRYABLE", "FAILED_SAFE"}, note \in {"confirmed", "not_dispatched"} :
           CompletionCheckpointFailed(r) = fail_run(restored, status, note)
    BY DEF CompletionCheckpointFailed, fail_retryable
  <2> HIDE DEF restored
  <2> QED BY <1>2, <2>1, <2>2, <2>3
<1> QED BY <1>3, <1>4

\* A confirmed receipt accounts for what was published.
LEMMA OpenedReconciled ==
    ASSUME NEW r \in Runs, NEW s, NEW p, NEW i, Reconciled(r, s, p, i),
           r.status = "ROUTING_ACTION", NEW kind
    PROVE  Reconciled(WithOpened(r, kind), s, p, i)
BY DEF Reconciled, MayPublish, WithOpened, finish_stage, Runs

\* What a resumption works on: a reset happens only when GitHub holds nothing, and no
\* receipt is dropped by it.
LEMMA ResumptionReconciled ==
    ASSUME NEW r \in Runs, NEW s, NEW p, NEW i, Formed(r, s), Reconciled(r, s, p, i),
           r.status \notin Final, NEW created \in BOOLEAN
    PROVE  LET resumption == Resumption(r, created)
           IN /\ Reconciled(resumption.run, s, p, i)
              /\ HasReceipt(r) => resumption.run.pr = r.pr /\ resumption.run.issue = r.issue
              /\ resumption.pc = "dispatch" => resumption.run = r /\ resumption.op # "execute"
<1>1. CASE Resumption(r, created).run = r
  BY <1>1 DEF Resumption
<1>2. CASE /\ Resumption(r, created) =
                 [op |-> "dispatch", pc |-> "saveResume", run |-> resume_action_dispatch(r)]
           /\ r.status = "FAILED_RETRYABLE"
  <2>1. /\ resume_action_dispatch(r).pr = r.pr /\ resume_action_dispatch(r).issue = r.issue
        /\ Reconciled(resume_action_dispatch(r), s, p, i)
    BY <1>2 DEF resume_action_dispatch, Reconciled, MayPublish, Runs
  <2> QED BY <1>2, <2>1
<1>3. CASE /\ Resumption(r, created) =
                 [op |-> "execute", pc |-> "saveResume", run |-> reset_interrupted_run(r)]
           /\ r.status # "ROUTING_ACTION"
           /\ r.status = "FAILED_RETRYABLE" => ~failed_during_action_dispatch(r)
  <2>1. ~HasReceipt(r)
    BY <1>3 DEF Formed, HasReceipt, Terminal, Final, failed_during_action_dispatch
  <2>2. Clear(p, i)
    BY <1>3, <2>1 DEF Reconciled, Clear, HasReceipt, Final, failed_during_action_dispatch
  <2> QED BY <1>3, <2>1, <2>2, ClearReconciled
<1>4. CASE created
  BY <1>1, <1>4 DEF Resumption
<1>5. CASE ~created /\ r.status = "FAILED_RETRYABLE"
  BY <1>1, <1>2, <1>3, <1>5 DEF Resumption
<1>6. CASE ~created /\ r.status # "FAILED_RETRYABLE"
  BY <1>1, <1>3, <1>6 DEF Resumption
<1> QED BY <1>4, <1>5, <1>6

-----------------------------------------------------------------------------
(* The steps of the executing call. *)

\* What a step of an executing call leaves behind.
Settles(c) == Standing' /\ Steady(c)' /\ KeepsReceipts

\* Leaving an operation leads to the target, looking through the finally block.
LEMMA LeaveWhere ==
    ASSUME Locals, NEW c \in Calls, NEW target \in Exits, Leave(c, target)
    PROVE  Where(c)' = target
<1>1. \/ pc'[c] = target
      \/ pc'[c] = "unlock" /\ next'[c] = target
  BY DEF Leave, Goto, Locals
<1>2. target # "unlock"
  BY DEF Exits
<1> QED BY <1>1, <1>2 DEF Where

\* A step that leaves GitHub alone and saves at most its own record.
LEMMA ArrivesSteady ==
    ASSUME NEW c \in Calls, Standing, UNCHANGED <<settings, pull_request, issue>>, op'[c] = op[c],
           Reconciled(run'[c], settings, pull_request, issue),
           Reconciled(store', settings, pull_request, issue),
           HasReceipt(store') => run'[c].pr = store'.pr /\ run'[c].issue = store'.issue,
           HasReceipt(store) => store'.pr = store.pr /\ store'.issue = store.issue,
           Where(c)' \in {"dispatch", "publish", "confirm"} => run'[c] = store',
           Where(c)' = "saveFallback" => Clear(pull_request, issue),
           op[c] = "execute" /\ Where(c)' \in {"dispatch", "publish"} => Clear(pull_request, issue),
           op[c] = "execute" /\ Where(c)' \in {"dispatch", "publish", "confirm", "saveFallback",
                                               "saveRouted"} => ~HasReceipt(run'[c]),
           \/ store'.status \notin Final
           \/ Where(c)' = "release"
           \/ /\ Where(c)' = "saveFailure" /\ store'.status = "COMPLETE"
              /\ run'[c].note \in {"confirmed", "not_dispatched"}
    PROVE  Settles(c)
<1>1. Standing'
  BY DEF Standing
<1>2. Steady(c)'
  BY DEF Steady
<1>3. KeepsReceipts
  BY DEF KeepsReceipts
<1> QED BY <1>1, <1>2, <1>3 DEF Settles

\* The record that an aborted execution leaves reports nothing.
LEMMA StoppedShows ==
    ASSUME NEW r \in Runs, NEW failure
    PROVE  /\ ~HasReceipt(StoppedExecution(r, failure))
           /\ failure # "unavailable" => StoppedExecution(r, failure).status = "FAILED_SAFE"
<1> DEFINE stopped == WithVerdict(r, "INCONCLUSIVE")
           failed == IF failure = "unavailable"
                     THEN fail_retryable(stopped, "no_side_effects")
                     ELSE fail_run(stopped, "FAILED_SAFE", "no_side_effects")
<1>1. stopped \in Runs /\ failed \in Runs
  BY OutcomeType, FailType DEF Verdicts, Notes
<1>2. stopped.verdict = "INCONCLUSIVE"
  BY DEF WithVerdict, Runs
<1>3. /\ failed.verdict = "INCONCLUSIVE"
      /\ failure # "unavailable" => failed.status = "FAILED_SAFE"
  BY <1>1, <1>2 DEF fail_retryable, fail_run, Runs
<1>4. StoppedExecution(r, failure) = WithPlan(failed)
  BY DEF StoppedExecution
<1> HIDE DEF stopped, failed
<1> QED
  BY <1>1, <1>3, <1>4 DEF HasReceipt, WithPlan, plan_actions, SkippedPlan, Runs

\* An exception, after a save that may have been applied.
LEMMA RaiseSteady ==
    ASSUME Locals, Standing, NEW c \in Calls, NEW r \in Runs, NEW failure, Raise(c, r, failure),
           UNCHANGED <<settings, pull_request, issue, op>>,
           store' \in {store, r},
           store.status \notin Final, r.status \notin Final,
           Reconciled(r, settings, pull_request, issue),
           HasReceipt(store) => r.pr = store.pr /\ r.issue = store.issue,
           op[c] = "execute" => ~HasReceipt(r),
           op[c] = "execute" /\ failure = "unavailable" => Clear(pull_request, issue)
    PROVE  Settles(c)
<1>1. /\ Reconciled(store', settings, pull_request, issue)
      /\ store'.status \notin Final
      /\ HasReceipt(store) => store'.pr = store.pr /\ store'.issue = store.issue
      /\ HasReceipt(store') => r.pr = store'.pr /\ r.issue = store'.issue
  BY DEF Standing
<1>2. CASE op[c] = "execute" /\ r.status \notin Terminal
  <2>1. run'[c] = StoppedExecution(r, failure) /\ Where(c)' = "saveFailure"
    BY <1>2, LeaveWhere DEF Raise, SetRun, Locals, Exits
  <2>2. ~HasReceipt(store')
    BY <1>1, <1>2 DEF HasReceipt
  <2>3. Reconciled(StoppedExecution(r, failure), settings, pull_request, issue)
    BY <1>2, StoppedShows, ClearReconciled
  <2> QED BY <1>1, <2>1, <2>2, <2>3, ArrivesSteady
<1>3. CASE ~(op[c] = "execute" /\ r.status \notin Terminal)
  <2>1. run'[c] = r /\ Where(c)' = "release"
    BY <1>3, LeaveWhere DEF Raise, SetRun, Locals, Exits
  <2> QED BY <1>1, <2>1, ArrivesSteady
<1> QED BY <1>2, <1>3

\* A save of a record that keeps the receipts and accounts for GitHub.
LEMMA SaveSteady ==
    ASSUME TypeOK, Standing, NEW c \in Calls, NEW r \in Runs,
           NEW target \in Early \cup {"route", "dispatch", "complete"}, Save(c, r, target),
           store.status \notin Final, r.status \notin Final,
           Reconciled(r, settings, pull_request, issue),
           HasReceipt(store) => r.pr = store.pr /\ r.issue = store.issue,
           op[c] = "execute" => ~HasReceipt(r),
           op[c] = "execute" /\ target = "dispatch" => Clear(pull_request, issue)
    PROVE  Settles(c)
<1>0. Locals /\ UNCHANGED <<settings, pull_request, issue, op>>
  BY DEF TypeOK, Locals, Save, github
<1>1. CASE store' = r /\ SetRun(c, r) /\ Goto(c, target)
  <2>1. run'[c] = r /\ pc'[c] = target
    BY <1>0, <1>1 DEF SetRun, Goto, Locals
  <2>2. Where(c)' = target
    BY <2>1 DEF Where, Early
  <2> QED BY <1>0, <1>1, <2>1, <2>2, ArrivesSteady DEF Early
<1>2. CASE StoreError(r) /\ Raise(c, r, "error")
  BY <1>0, <1>2, RaiseSteady DEF StoreError
<1> QED BY <1>1, <1>2 DEF Save

\* A step without an await that keeps the receipts and accounts for GitHub.
LEMMA LocalSteady ==
    ASSUME TypeOK, Standing, NEW c \in Calls, NEW r \in Runs, NEW target \in Landings,
           Local(c, r, target), store.status \notin Final,
           Reconciled(r, settings, pull_request, issue),
           HasReceipt(store) => r.pr = store.pr /\ r.issue = store.issue,
           target \notin {"dispatch", "publish", "confirm"},
           target = "saveFallback" => Clear(pull_request, issue),
           op[c] = "execute" /\ target \in {"saveFallback", "saveRouted"} => ~HasReceipt(r)
    PROVE  Settles(c)
<1>0. Locals /\ UNCHANGED <<settings, store, pull_request, issue, op>>
  BY DEF TypeOK, Locals, Local, github
<1>1. run'[c] = r /\ pc'[c] = target
  BY <1>0 DEF Local, SetRun, Goto, Locals
<1>2. Where(c)' = target
  BY <1>1 DEF Where, Landings
<1> QED BY <1>0, <1>1, <1>2, ArrivesSteady DEF Standing

\* Before routing the copy plans nothing, so GitHub holds nothing and the document
\* reports nothing.
LEMMA EarlySteady ==
    ASSUME NEW c \in Calls, Placed(c), Stands(c), Formed(run[c], settings), Steady(c),
           pc[c] \in Early \cup {"route"}
    PROVE  /\ run[c].pr = "NONE" /\ run[c].issue = "NONE" /\ ~HasReceipt(run[c])
           /\ Clear(pull_request, issue) /\ ~HasReceipt(store) /\ store.status \notin Final
<1>1. run[c].pr = "NONE" /\ run[c].issue = "NONE"
  BY DEF Placed, Stands, Poised, Formed
<1>2. run[c].status # "FAILED_SAFE"
  BY DEF Stands, Poised, Shows, Early
<1>3. Clear(pull_request, issue) /\ ~HasReceipt(run[c])
  BY <1>1, <1>2, PlansNothing DEF Steady
<1>4. ~HasReceipt(store)
  BY <1>1 DEF Steady, HasReceipt
<1>5. store.status \notin Final
  BY DEF Steady, Where, Early
<1> QED BY <1>1, <1>3, <1>4, <1>5

\* The steps of _execute.
LEMMA ExecuteSteady ==
    ASSUME TypeOK, RecordsFormed, Standing, NEW c \in Calls, Placed(c), Stands(c), Steady(c),
           Execute(c)
    PROVE  Settles(c)
<1>0. Locals /\ run[c] \in Runs /\ Formed(run[c], settings)
  BY DEF TypeOK, Locals, RecordsFormed
<1>1. CASE SaveFailure(c)
  <2>1. /\ run' = run /\ op' = op /\ UNCHANGED <<settings, pull_request, issue>>
        /\ store' \in {store, run[c]} /\ pc'[c] = "release"
    BY <1>0, <1>1 DEF SaveFailure, StoreError, Goto, Locals, github
  <2>2. Where(c)' = "release"
    BY <2>1 DEF Where
  <2> QED BY <2>1, <2>2, ArrivesSteady DEF Steady, Standing
<1> SUFFICES ASSUME ~SaveFailure(c) PROVE Settles(c)
  BY <1>1
<1>2. pc[c] \in Early \cup {"route"}
  BY DEF Execute, Early, StartCapture, Capture, StartCompile, Compile, Bind, StartProbe, Probe,
         Evaluate, Remediate, Verify, Route
<1>3. /\ run[c].pr = "NONE" /\ run[c].issue = "NONE" /\ ~HasReceipt(run[c])
      /\ Clear(pull_request, issue) /\ ~HasReceipt(store) /\ store.status \notin Final
  BY <1>0, <1>2, EarlySteady
<1>4. \A r : Reconciled(r, settings, pull_request, issue)
  BY <1>3, ClearReconciled
<1>5. ASSUME NEW r \in Runs, NEW target \in Early \cup {"route", "dispatch"}, Save(c, r, target),
             ~HasReceipt(r), r.status \notin Final
      PROVE  Settles(c)
  BY <1>3, <1>4, <1>5, SaveSteady
<1>6. {"CAPTURING", "COMPILING", "BINDING", "PROBING", "EVALUATING", "REMEDIATING",
       "VERIFYING", "ROUTING_ACTION"} \subseteq Stages
  BY DEF Stages
<1>7. ASSUME NEW q \in Runs, q.pr = "NONE", q.issue = "NONE"
      PROVE  /\ \A s \in Stages \ Final : /\ ~HasReceipt(start_stage(q, s))
                                          /\ start_stage(q, s).pr = "NONE"
                                          /\ start_stage(q, s).issue = "NONE"
                                          /\ start_stage(q, s).status \notin Final
             /\ ~HasReceipt(finish_stage(q)) /\ finish_stage(q).status = q.status
             /\ finish_stage(q).pr = "NONE" /\ finish_stage(q).issue = "NONE"
             /\ \A verdict : /\ ~HasReceipt(WithVerdict(q, verdict))
                             /\ WithVerdict(q, verdict).status = q.status
             /\ \A receipt : /\ ~HasReceipt(WithReceipt(q, receipt))
                             /\ WithReceipt(q, receipt).status = q.status
  BY <1>7 DEF HasReceipt, start_stage, finish_stage, WithVerdict, WithReceipt, Runs
<1>8. ASSUME NEW s \in {"BINDING", "EVALUATING", "REMEDIATING", "VERIFYING"}
      PROVE  LET done == finish_stage(start_stage(run[c], s))
             IN /\ done \in Runs /\ ~HasReceipt(done) /\ done.status \notin Final
                /\ done.pr = "NONE" /\ done.issue = "NONE"
  <2>1. s \in Stages \ Final
    BY <1>6 DEF Final
  <2>2. start_stage(run[c], s) \in Runs /\ finish_stage(start_stage(run[c], s)) \in Runs
    BY <1>0, <2>1, StageType
  <2>3. /\ start_stage(run[c], s).pr = "NONE" /\ start_stage(run[c], s).issue = "NONE"
        /\ start_stage(run[c], s).status \notin Final
    BY <1>0, <1>3, <1>7, <2>1
  <2> QED BY <1>7, <2>2, <2>3
<1>9. CASE StartCapture(c) \/ StartCompile(c) \/ StartProbe(c)
  <2>1. PICK s \in {"CAPTURING", "COMPILING", "PROBING"}, target \in {"capture", "compile", "probe"} :
           Save(c, start_stage(run[c], s), target)
    BY <1>9 DEF StartCapture, StartCompile, StartProbe
  <2>2. s \in Stages \ Final
    BY <1>6 DEF Final
  <2> QED BY <1>0, <1>3, <1>5, <1>7, <2>1, <2>2, StageType DEF Early
<1>10. CASE Capture(c) \/ Compile(c) \/ Probe(c)
  <2>1. CASE ServiceFails(c, run[c])
    <3>1. /\ UNCHANGED <<settings, pull_request, issue, op, store>>
          /\ \E failure : Raise(c, run[c], failure)
      BY <2>1 DEF ServiceFails, github
    <3>2. run[c].status \notin Final
      BY <1>10 DEF Capture, Compile, Probe, Stands, Poised, Shows, Final
    <3> QED BY <1>0, <1>3, <1>4, <3>1, <3>2, RaiseSteady
  <2>2. ASSUME NEW target \in {"startCompile", "bind", "evaluate"}, Save(c, finish_stage(run[c]), target)
        PROVE  Settles(c)
    <3>1. run[c].status \notin Final
      BY <1>10 DEF Capture, Compile, Probe, Stands, Poised, Shows, Final
    <3> QED BY <1>0, <1>3, <1>5, <1>7, <2>2, <3>1, StageType DEF Early
  <2> QED BY <1>10, <2>1, <2>2 DEF Capture, Compile, Probe
<1>11. CASE Bind(c)
  <2>1. /\ Bound(run[c]) \in Runs /\ ~HasReceipt(Bound(run[c]))
        /\ Bound(run[c]).status \notin Final
        /\ Bound(run[c]).pr = "NONE" /\ Bound(run[c]).issue = "NONE"
    BY <1>8 DEF Bound
  <2>2. CASE Save(c, Bound(run[c]), "startProbe")
    BY <1>5, <2>1, <2>2 DEF Early
  <2>3. CASE Local(c, WithVerdict(Bound(run[c]), "NOT_TESTED"), "route")
    BY <1>3, <1>4, <2>1, <2>3, OutcomeType, LocalSteady
       DEF Verdicts, Landings, ControlPoints, TaskSection
  <2> QED BY <1>11, <2>2, <2>3 DEF Bind
<1>12. CASE Evaluate(c)
  <2> DEFINE evaluated == finish_stage(start_stage(run[c], "EVALUATING"))
  <2>1. PICK verdict \in {"SUPPORTED", "CONTRADICTED", "INCONCLUSIVE"} :
          Save(c, WithVerdict(evaluated, verdict),
               IF verdict = "CONTRADICTED" THEN "remediate" ELSE "route")
    BY <1>12 DEF Evaluate
  <2>2. /\ evaluated \in Runs /\ evaluated.status \notin Final
        /\ evaluated.pr = "NONE" /\ evaluated.issue = "NONE"
    BY <1>8
  <2> HIDE DEF evaluated
  <2>3. WithVerdict(evaluated, verdict) \in Runs
    BY <2>2, OutcomeType DEF Verdicts
  <2> QED BY <1>5, <1>7, <2>1, <2>2, <2>3 DEF Early
<1>13. CASE Remediate(c)
  BY <1>5, <1>8, <1>13 DEF Remediate, Early
<1>14. CASE Verify(c)
  <2> DEFINE verified == finish_stage(start_stage(run[c], "VERIFYING"))
  <2>1. PICK receipt \in {"UNPROVEN", "PROVEN"} :
          Save(c, WithReceipt(verified, receipt), "route")
    BY <1>14 DEF Verify
  <2>2. /\ verified \in Runs /\ verified.status \notin Final
        /\ verified.pr = "NONE" /\ verified.issue = "NONE"
    BY <1>8
  <2> HIDE DEF verified
  <2> QED BY <1>5, <1>7, <2>1, <2>2, OutcomeType
<1>15. CASE Route(c)
  <2> DEFINE routed == WithPlan(start_stage(run[c], "ROUTING_ACTION"))
  <2>1. /\ routed \in Runs /\ ~HasReceipt(routed) /\ routed.status \notin Final
    BY <1>0, <1>6, StageType, PlanType, PlanFormed DEF Shows, Final
  <2>2. Save(c, routed, "dispatch")
    BY <1>15 DEF Route
  <2> HIDE DEF routed
  <2> QED BY <1>5, <2>1, <2>2
<1> QED BY <1>9, <1>10, <1>11, <1>12, <1>13, <1>14, <1>15 DEF Execute

\* The steps of the dispatchers: the document selects what is about to be published, a
\* rejection leaves nothing behind, and a failure keeps the way back to the artifact.
LEMMA DispatchSteady ==
    ASSUME TypeOK, RecordsSound, RecordsFormed, Standing, NEW c \in Calls, Placed(c), Stands(c),
           Steady(c), DispatchAndComplete(c)
    PROVE  Settles(c)
<1>0. /\ Locals /\ run[c] \in Runs /\ Formed(run[c], settings)
      /\ Sound(run[c], pull_request, issue) /\ Poised(run[c], settings, pc[c])
      /\ Reconciled(run[c], settings, pull_request, issue)
      /\ HasReceipt(store) => run[c].pr = store.pr /\ run[c].issue = store.issue
  BY DEF TypeOK, Locals, RecordsFormed, RecordsSound, Stands, Steady
<1>a. pc[c] # "unlock" => Where(c) = pc[c]
  BY DEF Where
<1>b. pc[c] \in {"dispatch", "publish", "confirm", "saveFallback", "saveRouted", "saveOpened",
                 "saveOutcome", "complete"} => store.status \notin Final
  BY <1>a DEF Steady
<1>c. pc[c] \in {"dispatch", "publish", "confirm"} => run[c] = store
  BY <1>a DEF Steady
<1>d. {"saveFallback", "saveRouted", "saveOpened", "saveOutcome", "complete", "release"}
         \subseteq Landings
  BY DEF Landings, ControlPoints, TaskSection
<1>e. "ROUTING_ACTION" # "FAILED_SAFE" /\ "ROUTING_ACTION" \notin Final
  BY DEF Final
<1>f. pc[c] \in {"publish", "confirm"} =>
         Shows(run[c], "ROUTING_ACTION", "RUNNING") /\ MayPublish(run[c], settings)
  BY <1>0 DEF Poised
<1>1. CASE Dispatch(c)
  <2>1. pc[c] = "dispatch" /\ run[c].status = "ROUTING_ACTION" /\ run[c] = store
    BY <1>0, <1>1, <1>c DEF Dispatch, Poised
  <2>2. CASE Decision(run[c]) = "complete" /\ Local(c, run[c], "complete")
    BY <1>0, <1>b, <1>d, <2>1, <2>2, LocalSteady
  <2>3. CASE /\ Decision(run[c]) \in {"keep", "nothing"}
             /\ Local(c, finish_stage(run[c]), "saveRouted")
    <3>1. /\ finish_stage(run[c]) \in Runs
          /\ Reconciled(finish_stage(run[c]), settings, pull_request, issue)
      BY <1>0, <2>1, StageType, RoutingReconciled
    <3>2. finish_stage(run[c]).pr = run[c].pr /\ finish_stage(run[c]).issue = run[c].issue
      BY <1>0 DEF finish_stage, Runs
    <3>3. op[c] = "execute" => ~HasReceipt(finish_stage(run[c]))
      BY <1>a, <2>1, <3>2 DEF Steady, HasReceipt
    <3> QED BY <1>b, <1>d, <2>1, <2>3, <3>1, <3>2, <3>3, LocalSteady
  <2>4. CASE /\ Decision(run[c]) = "fallback"
             /\ Local(c, select_issue_fallback(run[c]), "saveFallback")
    <3>1. /\ run[c].pr = "READY" /\ Shows(run[c], "ROUTING_ACTION", "RUNNING")
          /\ ~MayPublish(run[c], settings)
      BY <1>0, <2>1, <2>4 DEF Decision, Routed, Formed, Shows, Sound, CanPublish, MayPublish
    <3>2. Clear(pull_request, issue)
      BY <1>0, <1>e, <2>1, <3>1 DEF Reconciled
    <3>3. ~HasReceipt(run[c])
      BY <1>0, <1>e, <2>1, <3>1, OtherAbsent
    <3>4. select_issue_fallback(run[c]) \in Runs /\ ~HasReceipt(select_issue_fallback(run[c]))
      BY <1>0, <3>1, PlanType, FallbackFormed
    <3> QED BY <1>b, <1>d, <2>1, <2>4, <3>2, <3>3, <3>4, ClearReconciled, LocalSteady
  <2> QED BY <1>1, <2>2, <2>3, <2>4 DEF Dispatch
<1>2. CASE SaveFallback(c)
  <2>1. /\ pc[c] = "saveFallback" /\ Save(c, run[c], "dispatch")
        /\ run[c].status = "ROUTING_ACTION"
    BY <1>0, <1>2 DEF SaveFallback, Poised, Shows
  <2>2. Clear(pull_request, issue) /\ (op[c] = "execute" => ~HasReceipt(run[c]))
    BY <1>a, <2>1 DEF Steady
  <2> QED BY <1>0, <1>b, <1>e, <2>1, <2>2, SaveSteady
<1>3. CASE SaveRouted(c)
  <2>1. /\ pc[c] = "saveRouted" /\ Save(c, run[c], "complete")
        /\ run[c].status = "ROUTING_ACTION"
    BY <1>0, <1>3 DEF SaveRouted, Poised, Shows
  <2>2. op[c] = "execute" => ~HasReceipt(run[c])
    BY <1>a, <2>1 DEF Steady
  <2> QED BY <1>0, <1>b, <1>e, <2>1, <2>2, SaveSteady
<1>4. ASSUME NEW kind \in {"pr", "issue"}, AcquireActionLease(c, kind)
      PROVE  Settles(c)
  <2>1. /\ pc'[c] = "publish" /\ pc[c] = "dispatch" /\ op' = op
        /\ UNCHANGED <<settings, store, run, pull_request, issue>>
    BY <1>0, <1>4 DEF AcquireActionLease, ChooseAction, Goto, Locals, github
  <2>2. Where(c)' = "publish"
    BY <2>1 DEF Where
  <2> QED BY <1>a, <2>1, <2>2, ArrivesSteady DEF Steady, Standing
<1>5. ASSUME NEW kind \in {"pr", "issue"}, ActionLeaseDenied(c, kind)
      PROVE  Settles(c)
  BY <1>0, <1>5, <1>b, <1>d, LocalSteady DEF ActionLeaseDenied, ChooseAction
<1>6. ASSUME NEW failure, Raise(c, run[c], failure),
             UNCHANGED <<settings, store, pull_request, issue, op>>,
             pc[c] \in {"dispatch", "publish", "confirm"},
             failure = "unavailable" => pc[c] = "publish"
      PROVE  Settles(c)
  <2>1. run[c].status = "ROUTING_ACTION"
    BY <1>0, <1>6 DEF Poised, Shows
  <2>2. /\ op[c] = "execute" => ~HasReceipt(run[c])
        /\ op[c] = "execute" /\ failure = "unavailable" => Clear(pull_request, issue)
    BY <1>6, <1>a DEF Steady
  <2> QED BY <1>0, <1>6, <1>b, <1>e, <2>1, <2>2, RaiseSteady
<1>7. ASSUME NEW kind \in {"pr", "issue"}, ActionLeaseError(c, kind)
      PROVE  Settles(c)
  BY <1>6, <1>7 DEF ActionLeaseError, ChooseAction, github
<1>8. CASE PublishWrites(c)
  <2>1. /\ pc[c] = "publish" /\ pc'[c] = "confirm" /\ run[c] = store
        /\ UNCHANGED <<settings, store, op, run>>
    BY <1>0, <1>8, <1>c DEF PublishWrites, Goto, Locals
  <2>2. Shows(run[c], "ROUTING_ACTION", "RUNNING") /\ MayPublish(run[c], settings)
    BY <1>f, <2>1
  <2>3. /\ run[c].pr = "READY" => issue # "open" /\ ~HasReceipt(run[c])
        /\ run[c].issue = "PLANNED" => pull_request # "draft" /\ ~HasReceipt(run[c])
    BY <1>0, <1>e, <2>2, OtherAbsent DEF Shows
  <2>4. \/ /\ run[c].pr = "READY" /\ pull_request' = "draft" /\ issue' = issue
           /\ issue # "open" /\ ~HasReceipt(run[c])
        \/ /\ run[c].issue = "PLANNED" /\ issue' = "open" /\ pull_request' = pull_request
           /\ pull_request # "draft" /\ ~HasReceipt(run[c])
    BY <1>8, <2>1, <2>3 DEF PublishWrites, Placed, Publishing
  <2>5. Reconciled(run[c], settings, pull_request', issue')
    BY <2>2, <2>4 DEF Reconciled, Shows
  <2>6. Standing'
    BY <2>1, <2>4, <2>5 DEF Standing
  <2>7. Where(c)' = "confirm"
    BY <2>1 DEF Where
  <2>8. Steady(c)'
    BY <1>b, <2>1, <2>4, <2>5, <2>7 DEF Steady
  <2> QED BY <2>1, <2>6, <2>8 DEF Settles, KeepsReceipts
<1>9. CASE PublishReturns(c)
  <2>1. /\ pc[c] \in {"publish", "confirm"} /\ run[c] = store
        /\ Shows(run[c], "ROUTING_ACTION", "RUNNING")
    BY <1>9, <1>c, <1>f DEF PublishReturns, Publishing
  <2>2. ~HasReceipt(run[c])
    BY <1>0, <1>9, <1>e, <2>1, OtherAbsent DEF PublishReturns, Placed, Shows
  <2>3. /\ WithOpened(run[c], action[c]) \in Runs
        /\ Reconciled(WithOpened(run[c], action[c]), settings, pull_request, issue)
    BY <1>0, <2>1, OutcomeType, OpenedReconciled DEF Shows
  <2>4. Local(c, WithOpened(run[c], action[c]), "saveOpened")
    BY <1>9 DEF PublishReturns
  <2> QED BY <1>b, <1>d, <2>1, <2>2, <2>3, <2>4, LocalSteady
<1>10. CASE PublishRejects(c)
  <2>1. /\ run'[c] = select_issue_fallback(run[c]) /\ op' = op
        /\ UNCHANGED <<settings, store, pull_request, issue>>
        /\ run[c].pr = "READY" /\ pc[c] \in {"publish", "confirm"} /\ pull_request # "draft"
    BY <1>0, <1>10 DEF PublishRejects, SetRun, Placed, Publishing, Locals, github
  <2>2. Where(c)' = "saveFallback"
    BY <1>0, <1>10, LeaveWhere DEF PublishRejects, Exits
  <2>3. Shows(run[c], "ROUTING_ACTION", "RUNNING") /\ run[c] = store
    BY <1>c, <1>f, <2>1
  <2>4. Clear(pull_request, issue) /\ ~HasReceipt(run[c])
    BY <1>0, <1>e, <2>1, <2>3, OtherAbsent DEF Shows, Clear
  <2>5. ~HasReceipt(select_issue_fallback(run[c]))
    BY <1>0, <2>1, <2>3, FallbackFormed
  <2> QED BY <1>b, <2>1, <2>2, <2>3, <2>4, <2>5, ClearReconciled, ArrivesSteady
<1>11. CASE PublishUncertain(c)
  <2>1. pc[c] \in {"publish", "confirm"} /\ Local(c, fail_retryable(run[c], "uncertain"), "saveOutcome")
    BY <1>11 DEF PublishUncertain, Publishing
  <2>2. Shows(run[c], "ROUTING_ACTION", "RUNNING") /\ run[c] = store
    BY <1>c, <1>f, <2>1
  <2>3. /\ fail_retryable(run[c], "uncertain") \in Runs
        /\ Reconciled(fail_retryable(run[c], "uncertain"), settings, pull_request, issue)
    BY <1>0, <2>2, FailType, RoutingReconciled DEF Notes, Shows
  <2>4. /\ fail_retryable(run[c], "uncertain").pr = run[c].pr
        /\ fail_retryable(run[c], "uncertain").issue = run[c].issue
    BY <1>0 DEF fail_retryable, fail_run, Runs
  <2> QED BY <1>b, <1>d, <2>1, <2>2, <2>3, <2>4, LocalSteady
<1>12. CASE PublishRefused(c)
  <2> DEFINE refused == fail_run(run[c], "FAILED_SAFE", "no_side_effects")
  <2>1. pc[c] = "publish" /\ Local(c, refused, "saveOutcome")
    BY <1>12 DEF PublishRefused
  <2>2. refused \in Runs
    BY <1>0, FailType DEF Notes
  <2>3. /\ refused.status = "FAILED_SAFE"
        /\ refused.pr = run[c].pr /\ refused.issue = run[c].issue
    BY <1>0 DEF fail_run, Runs
  <2> HIDE DEF refused
  <2> QED BY <1>0, <1>b, <1>d, <2>1, <2>2, <2>3, ClearReconciled, LocalSteady
<1>13. CASE PublishRaises(c)
  BY <1>6, <1>13 DEF PublishRaises, Publishing, github
<1>14. CASE SaveOpened(c)
  <2>1. /\ store' \in {store, run[c]} /\ UNCHANGED <<settings, pull_request, issue, op>>
        /\ pc[c] = "saveOpened" /\ Shows(run[c], "ROUTING_ACTION", "SUCCEEDED")
    BY <1>0, <1>14 DEF SaveOpened, StoreError, github, Poised
  <2>2. store'.status \notin Final
    BY <1>b, <1>e, <2>1 DEF Shows
  <2>3. CASE Goto(c, "complete") /\ UNCHANGED run
    <3>1. Where(c)' = "complete"
      BY <1>0, <2>3 DEF Goto, Locals, Where
    <3> QED BY <1>0, <2>1, <2>2, <2>3, <3>1, ArrivesSteady DEF Standing
  <2>4. CASE SetRun(c, ActionCheckpointFailed(run[c])) /\ Leave(c, "saveFailure")
    <3>1. Where(c)' = "saveFailure" /\ run'[c] = ActionCheckpointFailed(run[c])
      BY <1>0, <2>4, LeaveWhere DEF SetRun, Locals, Exits
    <3>2. Reconciled(ActionCheckpointFailed(run[c]), settings, pull_request, issue)
      BY <1>0, <2>1, CheckpointReconciled
    <3>3. /\ ActionCheckpointFailed(run[c]).pr = run[c].pr
          /\ ActionCheckpointFailed(run[c]).issue = run[c].issue
      BY <1>0 DEF ActionCheckpointFailed, fail_retryable, fail_run, Runs
    <3> QED BY <1>0, <2>1, <2>2, <3>1, <3>2, <3>3, ArrivesSteady DEF Standing
  <2> QED BY <1>14, <2>3, <2>4 DEF SaveOpened
<1>15. CASE SaveOutcome(c)
  <2>1. store' \in {store, run[c]} /\ UNCHANGED <<settings, pull_request, issue, op, run>>
    BY <1>15 DEF SaveOutcome, StoreError, github
  <2>2. Where(c)' = "release"
    BY <1>0, <1>15, LeaveWhere DEF SaveOutcome, Exits
  <2> QED BY <1>0, <2>1, <2>2, ArrivesSteady DEF Standing
<1>16. CASE Complete(c)
  <2>1. /\ pc[c] = "complete" /\ Shows(run[c], "ROUTING_ACTION", "SUCCEEDED")
        /\ UNCHANGED <<settings, pull_request, issue, op>>
    BY <1>0, <1>16 DEF Complete, Poised, github
  <2>2. /\ Completed(run[c]).pr = run[c].pr /\ Completed(run[c]).issue = run[c].issue
        /\ Completed(run[c]).status = "COMPLETE"
        /\ Reconciled(Completed(run[c]), settings, pull_request, issue)
    BY <1>0, <2>1, RoutingReconciled DEF Completed, finish_stage, start_stage, Runs, Shows
  <2>3. CASE /\ store' = Completed(run[c]) /\ SetRun(c, Completed(run[c])) /\ Leave(c, "release")
    <3>1. Where(c)' = "release" /\ run'[c] = Completed(run[c])
      BY <1>0, <2>3, LeaveWhere DEF SetRun, Locals, Exits
    <3> QED BY <1>0, <2>1, <2>2, <2>3, <3>1, ArrivesSteady
  <2>4. CASE /\ store' \in {store, Completed(run[c])}
             /\ SetRun(c, CompletionCheckpointFailed(run[c])) /\ Leave(c, "saveFailure")
    <3>1. Where(c)' = "saveFailure" /\ run'[c] = CompletionCheckpointFailed(run[c])
      BY <1>0, <2>4, LeaveWhere DEF SetRun, Locals, Exits
    <3>2. /\ Reconciled(CompletionCheckpointFailed(run[c]), settings, pull_request, issue)
          /\ CompletionCheckpointFailed(run[c]).note \in {"confirmed", "not_dispatched"}
      BY <1>0, <2>1, CheckpointReconciled
    <3>3. /\ CompletionCheckpointFailed(run[c]).pr = run[c].pr
          /\ CompletionCheckpointFailed(run[c]).issue = run[c].issue
      BY <1>0 DEF CompletionCheckpointFailed, fail_retryable, fail_run, Runs
    <3>4. /\ Reconciled(store', settings, pull_request, issue)
          /\ HasReceipt(store') => run'[c].pr = store'.pr /\ run'[c].issue = store'.issue
          /\ HasReceipt(store) => store'.pr = store.pr /\ store'.issue = store.issue
          /\ store'.status \notin Final \/ store'.status = "COMPLETE"
      BY <1>0, <1>b, <2>1, <2>2, <2>4, <3>1, <3>3 DEF Standing, HasReceipt
    <3> QED BY <2>1, <3>1, <3>2, <3>4, ArrivesSteady
  <2> QED BY <1>16, <2>3, <2>4 DEF Complete, StoreError
<1>17. CASE ReleaseActionLease(c)
  <2>1. /\ pc[c] = "unlock" /\ pc'[c] = next[c] /\ next[c] \in Exits /\ op' = op
        /\ UNCHANGED <<settings, store, run, pull_request, issue>>
    BY <1>0, <1>17 DEF ReleaseActionLease, Goto, Locals, Placed, github
  <2>2. Where(c)' = Where(c) /\ Where(c) \in Exits
    BY <2>1 DEF Where, Exits
  <2> QED BY <2>1, <2>2, ArrivesSteady DEF Steady, Standing
<1> QED
  BY <1>1, <1>2, <1>3, <1>4, <1>5, <1>7, <1>8, <1>9, <1>10, <1>11, <1>12, <1>13, <1>14,
     <1>15, <1>16, <1>17 DEF DispatchAndComplete

\* A failed or finished call executes no longer; nobody else is affected.
LEMMA OthersSteady ==
    ASSUME NEW c \in Calls, Untouched(c), \A d \in Calls : Executing(d) => Steady(d),
           UNCHANGED <<settings, store, pull_request, issue>>
    PROVE  \A d \in Calls \ {c} : Executing(d)' => Steady(d)'
BY DEF Untouched, Executing, Steady, Where

\* The steps of create_run: the lease is granted to one call, with the document as its copy.
LEMMA CreateRunSteady ==
    ASSUME TypeOK, RecordsFormed, RunLeaseHeld, Serial', NEW c \in Calls, Placed(c), Stands(c),
           Standing, \A d \in Calls : Executing(d) => Steady(d),
           \A d \in Calls : Stands(d), CreateRun(c)
    PROVE  /\ Standing' /\ KeepsReceipts
           /\ \A d \in Calls : Executing(d)' => Steady(d)'
<1>0. Locals /\ run[c] \in Runs /\ Formed(run[c], settings) /\ Untouched(c)
  BY CreateRunUntouched DEF TypeOK, Locals, RecordsFormed
<1>1. CASE Reserve(c)
  <2>1. /\ pc'[c] = "reserved" /\ UNCHANGED <<settings, pull_request, issue>>
    BY <1>0, <1>1 DEF Reserve, SetRun, Goto, Locals, github
  <2>2. ~Executing(c)'
    BY <2>1 DEF Executing, TaskSection
  <2>3. CASE store.status # "ABSENT"
    <3>1. store' = store
      BY <1>1, <2>3 DEF Reserve
    <3> QED BY <1>0, <2>1, <2>2, <3>1, OthersSteady DEF Standing, KeepsReceipts
  <2>4. CASE store.status = "ABSENT"
    <3>1. PICK repository \in BOOLEAN : store' = new_run(repository)
      BY <1>1, <2>4 DEF Reserve
    <3>2. /\ store'.pr = "NONE" /\ store'.issue = "NONE" /\ store'.status = "RECEIVED"
          /\ ~HasReceipt(store')
      BY <3>1 DEF new_run, HasReceipt
    <3>3. Clear(pull_request, issue) /\ ~HasReceipt(store)
      BY <2>4 DEF Standing, Reconciled, RecordsFormed, Formed, HasReceipt, Terminal
    <3>4. Standing' /\ KeepsReceipts
      BY <2>1, <3>3, ClearReconciled DEF Standing, KeepsReceipts
    <3>5. ASSUME NEW d \in Calls, Executing(d)'
          PROVE  Steady(d)'
      <4>1. d # c /\ Executing(d) /\ Where(d)' = Where(d) /\ run'[d] = run[d] /\ op'[d] = op[d]
        BY <1>0, <2>2, <3>5 DEF Untouched, Executing, Where
      <4>2. Steady(d) /\ Stands(d)
        BY <4>1
      <4>3. Where(d) \notin {"dispatch", "publish", "confirm"}
        <5>1. Where(d) \in {"dispatch", "publish", "confirm"} => run[d].status = "ROUTING_ACTION"
          BY <4>2 DEF Where, Stands, Poised, Shows
        <5> QED BY <2>4, <4>2, <5>1 DEF Steady
      <4> QED BY <2>1, <3>2, <4>1, <4>2, <4>3 DEF Steady, Final
    <3> QED BY <3>4, <3>5
  <2> QED BY <2>3, <2>4
<1>2. CASE ReturnExisting(c) \/ LeaseDenied(c) \/ LeaseError(c) \/ ReleaseRunLease(c)
  <2>1. Forget({c}) /\ UNCHANGED <<settings, store, pull_request, issue>>
    BY <1>2 DEF ReturnExisting, LeaseDenied, LeaseError, ReleaseRunLease, github
  <2>2. ~Executing(c)'
    BY <2>1 DEF Forget, Executing, TaskSection
  <2> QED BY <1>0, <2>1, <2>2, OthersSteady DEF Standing, KeepsReceipts
<1>3. CASE AcquireRunLease(c)
  <2> DEFINE resumption == Resumption(run[c], op[c] = "created")
  <2>1. /\ op' = [op EXCEPT ![c] = resumption.op]
        /\ run' = [run EXCEPT ![c] = resumption.run]
        /\ pc' = [pc EXCEPT ![c] = resumption.pc]
        /\ UNCHANGED <<settings, store, pull_request, issue>>
        /\ run[c] = store /\ run[c].status \notin Final
    BY <1>3 DEF AcquireRunLease, WantsLease, SetRun, Goto, github, Serial
  <2>2. resumption.pc \in {"startCapture", "release", "saveResume", "dispatch", "route"}
    BY <1>0, ResumptionType
  <2>3. /\ Reconciled(resumption.run, settings, pull_request, issue)
        /\ HasReceipt(run[c]) => /\ resumption.run.pr = run[c].pr
                                 /\ resumption.run.issue = run[c].issue
        /\ resumption.pc = "dispatch" => resumption.run = run[c] /\ resumption.op # "execute"
    BY <1>0, <2>1, ResumptionReconciled DEF Standing
  <2> HIDE DEF resumption
  <2>4. pc'[c] = resumption.pc /\ op'[c] = resumption.op /\ run'[c] = resumption.run
    BY <1>0, <2>1 DEF Locals
  <2>5. Where(c)' = resumption.pc
    BY <2>2, <2>4 DEF Where
  <2>6. Steady(c)'
    BY <2>1, <2>2, <2>3, <2>4, <2>5 DEF Steady
  <2> QED BY <1>0, <2>1, <2>6, OthersSteady DEF Standing, KeepsReceipts
<1>4. CASE SaveResume(c)
  <2>1. /\ store' \in {store, run[c]} /\ UNCHANGED <<settings, pull_request, issue>>
        /\ pc[c] = "saveResume" /\ Executing(c)
    BY <1>4 DEF SaveResume, StoreError, github, Executing
  <2>2. Steady(c) /\ Where(c) = "saveResume"
    BY <2>1 DEF Where
  <2>3. Standing' /\ KeepsReceipts
    BY <2>1, <2>2 DEF Standing, Steady, KeepsReceipts
  <2>4. \A d \in Calls \ {c} : ~Executing(d)'
    BY <1>0, <2>1 DEF RunLeaseHeld, Serial, Untouched, Executing
  <2>5. CASE Forget({c})
    BY <2>3, <2>4, <2>5 DEF Forget, Executing, TaskSection
  <2>6. CASE /\ store' = run[c] /\ UNCHANGED <<op, run, action, next>>
             /\ Goto(c, IF op[c] = "execute" THEN "startCapture" ELSE "dispatch")
    <3>1. Where(c)' = IF op[c] = "execute" THEN "startCapture" ELSE "dispatch"
      BY <1>0, <2>6 DEF Goto, Locals, Where
    <3>2. run[c].status \notin Final
      BY <2>1 DEF Stands, Poised, Shows, Final
    <3>3. Steady(c)'
      BY <2>1, <2>2, <2>6, <3>1, <3>2 DEF Steady
    <3> QED BY <2>3, <2>4, <3>3
  <2> QED BY <1>4, <2>5, <2>6 DEF SaveResume
<1> QED BY <1>1, <1>2, <1>3, <1>4 DEF CreateRun

-----------------------------------------------------------------------------
(* The serial invariant and what follows from it. *)

\* At the start GitHub holds nothing and nobody executes.
LEMMA SerialInvInit == Init => SerialInv
BY ClearReconciled DEF Init, SerialInv, Standing, Clear, Executing, TaskSection

\* Whoever was overtaken stays overtaken.
LEMMA OvertakenStays == ASSUME TypeOK, [Next]_vars, Serial' PROVE Serial
<1>1. \A c \in Calls : CreateRun(c) => (overtaken => overtaken')
  BY DEF CreateRun, Reserve, ReturnExisting, LeaseDenied, LeaseError, AcquireRunLease,
         SaveResume, ReleaseRunLease
<1>2. \A c \in Calls : Execute(c) => overtaken' = overtaken
  BY DEF Execute, StartCapture, Capture, StartCompile, Compile, Bind, StartProbe, Probe,
         Evaluate, Remediate, Verify, Route, SaveFailure, Save, ServiceFails, Local
<1>3. \A c \in Calls : DispatchAndComplete(c) => overtaken' = overtaken
  BY DEF DispatchAndComplete, Dispatch, SaveFallback, SaveRouted, AcquireActionLease,
         ActionLeaseDenied, ActionLeaseError, PublishWrites, PublishReturns, PublishRejects,
         PublishUncertain, PublishRefused, PublishRaises, SaveOpened, SaveOutcome, Complete,
         ReleaseActionLease, Save, Local
<1>4. Expiry \/ HandleDraft \/ (\E i \in Instances : Crash(i)) => overtaken' = overtaken
  BY DEF Expiry, ExpireRunLease, ExpireActionLease, HandleDraft, Crash
<1> QED BY <1>1, <1>2, <1>3, <1>4 DEF Next, CallStep, vars, Serial

\* Every step keeps the serial invariant, and the receipts of the document.
LEMMA SerialStep ==
    ASSUME TypeOK, RecordInv, FormInv, RunLeaseHeld, SerialInv, [Next]_vars, Serial'
    PROVE  SerialInv' /\ KeepsReceipts
<1>0. /\ Serial /\ Standing /\ (\A d \in Calls : Executing(d) => Steady(d))
      /\ Locals /\ RecordsSound /\ RecordsFormed
      /\ \A d \in Calls : Placed(d) /\ Stands(d)
  BY OvertakenStays DEF SerialInv, TypeOK, Locals, RecordInv, FormInv
<1> SUFFICES /\ Standing' /\ KeepsReceipts
             /\ \A d \in Calls : Executing(d)' => Steady(d)'
  BY DEF SerialInv
<1>1. CASE UNCHANGED <<settings, store, pull_request, issue, pc, op, run, next>>
  BY <1>0, <1>1 DEF Standing, KeepsReceipts, Executing, Steady, Where
<1>2. ASSUME NEW c \in Calls, CreateRun(c)
      PROVE  Standing' /\ KeepsReceipts /\ \A d \in Calls : Executing(d)' => Steady(d)'
  BY <1>0, <1>2, CreateRunSteady
<1>3. ASSUME NEW c \in Calls, Execute(c) \/ DispatchAndComplete(c)
      PROVE  Standing' /\ KeepsReceipts /\ \A d \in Calls : Executing(d)' => Steady(d)'
  <2>1. Untouched(c) /\ Executing(c)
    BY <1>0, <1>3, ExecuteUntouched, DispatchUntouched DEF Executing
  <2>2. Settles(c)
    BY <1>0, <1>3, <2>1, ExecuteSteady, DispatchSteady
  <2>3. \A d \in Calls \ {c} : ~Executing(d)'
    BY <1>0, <2>1 DEF RunLeaseHeld, Serial, Untouched, Executing
  <2> QED BY <2>2, <2>3 DEF Settles
<1>4. CASE Expiry
  BY <1>1, <1>4 DEF Expiry, ExpireRunLease, ExpireActionLease, github
<1>5. CASE HandleDraft
  <2>1. /\ pull_request = "draft" /\ pull_request' = "handled"
        /\ UNCHANGED <<settings, store, issue, pc, op, run, next>>
    BY <1>5 DEF HandleDraft
  <2>2. ASSUME NEW r, Reconciled(r, settings, pull_request, issue)
        PROVE  Reconciled(r, settings, pull_request', issue)
    BY <2>1, <2>2 DEF Reconciled, Clear
  <2>3. Standing' /\ KeepsReceipts
    BY <1>0, <2>1, <2>2 DEF Standing, KeepsReceipts
  <2>4. ASSUME NEW d \in Calls, Executing(d)'
        PROVE  Steady(d)'
    <3>1. Steady(d) /\ Where(d)' = Where(d)
      BY <1>0, <2>1, <2>4 DEF Executing, Where
    <3>2. ~Clear(pull_request, issue)
      BY <2>1 DEF Clear
    <3> QED BY <2>1, <2>2, <3>1, <3>2 DEF Steady
  <2> QED BY <2>3, <2>4
<1>6. ASSUME NEW i \in Instances, Crash(i)
      PROVE  Standing' /\ KeepsReceipts /\ \A d \in Calls : Executing(d)' => Steady(d)'
  <2> DEFINE S == {c \in Calls : InstanceOf[c] = i}
  <2>1. Forget(S) /\ UNCHANGED <<settings, store, pull_request, issue>>
    BY <1>6 DEF Crash, github
  <2> HIDE DEF S
  <2>2. \A d \in Calls : d \in S => ~Executing(d)'
    BY <2>1 DEF Forget, Executing, TaskSection
  <2>3. ASSUME NEW d \in Calls, d \notin S, Executing(d)'
        PROVE  Steady(d)'
    <3>1. /\ pc'[d] = pc[d] /\ op'[d] = op[d] /\ run'[d] = run[d] /\ next'[d] = next[d]
          /\ Executing(d)
      BY <2>1, <2>3 DEF Forget, Executing
    <3> QED BY <1>0, <2>1, <3>1 DEF Steady, Where
  <2> QED BY <1>0, <2>1, <2>2, <2>3 DEF Standing, KeepsReceipts
<1> QED BY <1>1, <1>2, <1>3, <1>4, <1>5, <1>6 DEF Next, CallStep, vars, leases, github

\* The serial invariant holds in every reachable state.
LEMMA SerialInvariant == Spec => [](TypeOK /\ RecordInv /\ FormInv /\ RunLeaseHeld /\ SerialInv)
<1>1. TypeOK /\ RecordInv /\ FormInv /\ RunLeaseHeld /\ SerialInv /\ [Next]_vars => SerialInv'
  BY SerialStep DEF SerialInv
<1> QED
  BY <1>1, TypeCorrect, RecordInvariant, FormInvariant, RunLeaseHeldInit, RunLeaseHeldStep,
     SerialInvInit, PTL DEF Spec

\* Only a reservation of an absent document and an executing call write the document, and
\* none of them writes to GitHub in the same step.
LEMMA StoreWriters ==
    ASSUME Next, store' # store
    PROVE  /\ UNCHANGED github
           /\ \/ store.status = "ABSENT"
              \/ \E c \in Calls : Executing(c) /\ pc[c] \notin {"release", "unlock"}
<1>1. ASSUME NEW c \in Calls, CreateRun(c)
      PROVE  /\ UNCHANGED github
             /\ store.status = "ABSENT" \/ (Executing(c) /\ pc[c] \notin {"release", "unlock"})
  BY <1>1 DEF CreateRun, Reserve, ReturnExisting, LeaseDenied, LeaseError, AcquireRunLease,
              SaveResume, ReleaseRunLease, Executing
<1>2. ASSUME NEW c \in Calls, Execute(c)
      PROVE  UNCHANGED github /\ Executing(c) /\ pc[c] \notin {"release", "unlock"}
  <2>1. UNCHANGED github
    BY <1>2 DEF Execute, StartCapture, Capture, StartCompile, Compile, Bind, StartProbe, Probe,
                Evaluate, Remediate, Verify, Route, SaveFailure, Save, ServiceFails, Local
  <2>2. pc[c] \in Early \cup {"route", "saveFailure"}
    BY <1>2 DEF Execute, StartCapture, Capture, StartCompile, Compile, Bind, StartProbe, Probe,
                Evaluate, Remediate, Verify, Route, SaveFailure, Early
  <2> QED BY <2>1, <2>2 DEF Early, Executing, TaskSection
<1>3. ASSUME NEW c \in Calls, DispatchAndComplete(c)
      PROVE  UNCHANGED github /\ Executing(c) /\ pc[c] \notin {"release", "unlock"}
  <2>1. SaveFallback(c) \/ SaveRouted(c) \/ SaveOpened(c) \/ SaveOutcome(c) \/ Complete(c)
    BY <1>3 DEF DispatchAndComplete, Dispatch, AcquireActionLease, ActionLeaseDenied,
                ActionLeaseError, PublishWrites, PublishReturns, PublishRejects,
                PublishUncertain, PublishRefused, PublishRaises, ReleaseActionLease, Local
  <2> QED
    BY <2>1 DEF SaveFallback, SaveRouted, SaveOpened, SaveOutcome, Complete, Save, Executing,
                TaskSection
<1>4. ~(Expiry \/ HandleDraft \/ \E i \in Instances : Crash(i))
  BY DEF Expiry, ExpireRunLease, ExpireActionLease, HandleDraft, Crash
<1> QED BY <1>1, <1>2, <1>3, <1>4 DEF Next, CallStep

\* At most one artifact of the run stands on GitHub: the issue is published only after the
\* publisher vouched that no draft PR of the run is left, and never the other way round.
THEOREM ArtifactsAreSingle == Spec => []OneLiveArtifact
<1>1. SerialInv => OneLiveArtifact
  BY DEF SerialInv, Standing, OneLiveArtifact
<1> QED BY <1>1, SerialInvariant, PTL

\* No step of anybody drops a receipt from the document: failures, fallbacks, resumptions
\* and resets keep the OPENED state that the executing call read or wrote.
THEOREM ReceiptsAreKept == Spec => ReceiptKept
<1>1. TypeOK /\ RecordInv /\ FormInv /\ RunLeaseHeld /\ SerialInv /\ [Next]_vars
         => [Serial' /\ HasReceipt(store) => store'.pr = store.pr /\ store'.issue = store.issue]_vars
  BY SerialStep DEF KeepsReceipts
<1> QED BY <1>1, SerialInvariant, PTL DEF Spec, ReceiptKept

\* A run restarts from scratch only while GitHub holds nothing of it: the document that is
\* reset accounts for every artifact, so one that holds an artifact is resumed instead.
THEOREM NoRestartsAfterPublication == Spec => NoRestartAfterPublication
<1>1. ASSUME TypeOK, RecordInv, FormInv, RunLeaseHeld, SerialInv, [Next]_vars,
             store'.status = "RECEIVED", store.status # "RECEIVED", Serial'
      PROVE  pull_request # "draft" /\ issue = "absent"
  <2>1. Standing' /\ store' # store
    BY <1>1, SerialStep DEF SerialInv
  <2>2. UNCHANGED github
    BY <1>1, <2>1, StoreWriters DEF vars
  <2>3. Clear(pull_request, issue)
    BY <1>1, <2>1, <2>2 DEF Standing, Reconciled, github
  <2> QED BY <1>1, <2>3 DEF Clear, TypeOK
<1>2. TypeOK /\ RecordInv /\ FormInv /\ RunLeaseHeld /\ SerialInv /\ [Next]_vars
         => [store'.status = "RECEIVED" /\ store.status # "RECEIVED" /\ Serial'
               => pull_request # "draft" /\ issue = "absent"]_vars
  BY <1>1
<1> QED BY <1>2, SerialInvariant, PTL DEF Spec, NoRestartAfterPublication

\* A final document is never written again, except by the call that could not confirm its
\* own COMPLETE checkpoint: every other executing call is past its last save.
THEOREM FinalIsForever == Spec => FinalForever
<1>1. ASSUME TypeOK, RecordInv, FormInv, RunLeaseHeld, SerialInv, [Next]_vars,
             store.status \in Final, store' # store, Serial'
      PROVE  /\ store.status = "COMPLETE"
             /\ \E c \in Calls : /\ pc[c] = "saveFailure"
                                /\ run[c].note \in {"confirmed", "not_dispatched"}
  <2>1. Serial /\ Next
    BY <1>1, OvertakenStays DEF vars
  <2>2. PICK c \in Calls : Executing(c) /\ pc[c] \notin {"release", "unlock"}
    BY <1>1, <2>1, StoreWriters DEF Final
  <2>3. Steady(c) /\ Where(c) = pc[c]
    BY <1>1, <2>1, <2>2 DEF SerialInv, Where
  <2> QED BY <1>1, <2>2, <2>3 DEF Steady
<1>2. TypeOK /\ RecordInv /\ FormInv /\ RunLeaseHeld /\ SerialInv /\ [Next]_vars
         => [store.status \in Final /\ store' # store /\ Serial' =>
               /\ store.status = "COMPLETE"
               /\ \E c \in Calls : /\ pc[c] = "saveFailure"
                                  /\ run[c].note \in {"confirmed", "not_dispatched"}]_vars
  BY <1>1
<1> QED BY <1>2, SerialInvariant, PTL DEF Spec, FinalForever
-----------------------------------------------------------------------------
(***************************************************************************)
(* PART 6.  The promise: AuditService implements AuditPromise.             *)
(***************************************************************************)

Failures == {"FAILED_RETRYABLE", "FAILED_SAFE"}
Working == Stages \ Terminal

\* What the steps of _execute and _dispatch_and_complete rely on: nothing precedes the
\* reservation, and a failure record is at hand where one is saved.
BegunInv ==
    /\ store.status = "ABSENT" =>
          /\ pull_request = "absent" /\ issue = "absent"
          /\ \A c \in Calls : pc[c] = "idle"
    /\ \A c \in Calls : /\ pc[c] # "idle" => run[c].status # "ABSENT"
                        /\ Where(c) \in {"saveFailure", "saveOutcome"} => run[c].status \in Failures

\* In a serial execution a retryable document is resumed or left alone, and neither a
\* resumption nor the failure record that replaces a COMPLETE one reports anything new.
RetryInv ==
    Serial => \A c \in Calls : Executing(c) =>
        /\ store.status = "FAILED_RETRYABLE" => Where(c) \in {"saveResume", "release"}
        /\ store.status = "COMPLETE" /\ Where(c) = "saveFailure" =>
              run[c].pr = store.pr /\ run[c].issue = store.issue
        /\ Where(c) = "saveResume" => (HasReceipt(run[c]) => HasReceipt(store))

-----------------------------------------------------------------------------
(* The status that each record operator leaves. *)

\* Stages, plans and receipts change the status only where they say so.
LEMMA StageStatus ==
    ASSUME NEW r \in Runs
    PROVE  /\ \A s \in Stages : start_stage(r, s).status = s
           /\ finish_stage(r).status = r.status
           /\ WithPlan(r).status = r.status
           /\ select_issue_fallback(r).status = r.status
           /\ \A verdict : WithVerdict(r, verdict).status = r.status
           /\ \A receipt : WithReceipt(r, receipt).status = r.status
           /\ \A kind : WithOpened(r, kind).status = r.status
           /\ Bound(r).status = "BINDING" /\ Completed(r).status = "COMPLETE"
<1>1. \A q \in Runs : \A s \in Stages : start_stage(q, s).status = s
  BY DEF start_stage, Runs
<1>2. \A q \in Runs : finish_stage(q).status = q.status
  BY DEF finish_stage, Runs
<1>3. WithPlan(r).status = r.status /\ select_issue_fallback(r).status = r.status
  BY DEF WithPlan, select_issue_fallback, Runs
<1>4. \A verdict, receipt : /\ WithVerdict(r, verdict).status = r.status
                            /\ WithReceipt(r, receipt).status = r.status
  BY DEF WithVerdict, WithReceipt, Runs
<1>5. ASSUME NEW kind PROVE WithOpened(r, kind).status = r.status
  <2>1. /\ [r EXCEPT !.pr = "OPENED"] \in Runs /\ [r EXCEPT !.issue = "OPENED"] \in Runs
    BY DEF Runs, ActionStates
  <2>2. /\ [r EXCEPT !.pr = "OPENED"].status = r.status
        /\ [r EXCEPT !.issue = "OPENED"].status = r.status
    BY DEF Runs
  <2> QED BY <1>2, <2>1, <2>2 DEF WithOpened
<1>6. Bound(r).status = "BINDING" /\ Completed(r).status = "COMPLETE"
  <2>1. {"BINDING", "COMPLETE"} \subseteq Stages
    BY DEF Stages
  <2> QED BY <1>1, <1>2, <2>1, StageType DEF Bound, Completed
<1> QED BY <1>1, <1>2, <1>3, <1>4, <1>5, <1>6

\* Every failure path leaves a failed record, and a failed completion keeps the receipt.
LEMMA FailureStatus ==
    ASSUME NEW r \in Runs
    PROVE  /\ \A note : fail_retryable(r, note).status \in Failures
           /\ \A note : fail_run(r, "FAILED_SAFE", note).status \in Failures
           /\ \A failure : StoppedExecution(r, failure).status \in Failures
           /\ ActionCheckpointFailed(r).status \in Failures
           /\ CompletionCheckpointFailed(r).status \in Failures
           /\ CompletionCheckpointFailed(r).pr = r.pr /\ CompletionCheckpointFailed(r).issue = r.issue
<1>1. \A q \in Runs : \A note : \A status \in Failures : fail_run(q, status, note).status = status
  BY DEF fail_run, Runs, Failures
<1>2. \A q \in Runs : \A note : /\ fail_retryable(q, note).status \in Failures
                                /\ fail_run(q, "FAILED_SAFE", note).status \in Failures
  BY <1>1 DEF fail_retryable, Failures
<1>3. ASSUME NEW failure PROVE StoppedExecution(r, failure).status \in Failures
  <2> DEFINE stopped == WithVerdict(r, "INCONCLUSIVE")
             failed == IF failure = "unavailable"
                       THEN fail_retryable(stopped, "no_side_effects")
                       ELSE fail_run(stopped, "FAILED_SAFE", "no_side_effects")
  <2>1. stopped \in Runs /\ failed \in Runs
    BY OutcomeType, FailType DEF Verdicts, Notes
  <2>2. failed.status \in Failures
    BY <1>2, <2>1
  <2>3. StoppedExecution(r, failure) = WithPlan(failed)
    BY DEF StoppedExecution
  <2> HIDE DEF stopped, failed
  <2> QED BY <2>1, <2>2, <2>3, StageStatus
<1>4. ActionCheckpointFailed(r).status \in Failures
  BY <1>2 DEF ActionCheckpointFailed
<1>5. /\ CompletionCheckpointFailed(r).status \in Failures
      /\ CompletionCheckpointFailed(r).pr = r.pr /\ CompletionCheckpointFailed(r).issue = r.issue
  <2> DEFINE undone == [r EXCEPT !.status = "ROUTING_ACTION", !.stage = "COMPLETE", !.state = "FAILED"]
  <2>1. \A status, stage \in Stages :
           [r EXCEPT !.status = status, !.stage = stage, !.state = "FAILED"] \in Runs
    BY DEF Runs
  <2>2. undone \in Runs /\ undone.pr = r.pr /\ undone.issue = r.issue
    <3>1. undone \in Runs
      BY <2>1 DEF Stages
    <3> QED BY <3>1 DEF Runs
  <2> HIDE DEF undone
  <2>3. \A q \in Runs : \A note, status :
           fail_run(q, status, note).pr = q.pr /\ fail_run(q, status, note).issue = q.issue
    BY DEF fail_run, Runs
  <2>4. \A note : /\ fail_retryable(undone, note).pr = undone.pr
                  /\ fail_retryable(undone, note).issue = undone.issue
    BY <2>2, <2>3 DEF fail_retryable
  <2> QED BY <1>2, <2>2, <2>4 DEF CompletionCheckpointFailed, undone
<1> QED BY <1>2, <1>3, <1>4, <1>5

\* A resumed run works and reports nothing new; a retryable one is resumed or left alone.
LEMMA ResumptionStatus ==
    ASSUME NEW r \in Runs, r.status # "ABSENT", NEW created \in BOOLEAN
    PROVE  /\ Resumption(r, created).run.status # "ABSENT"
           /\ r.status = "FAILED_RETRYABLE" /\ ~created =>
                 Resumption(r, created).pc \in {"saveResume", "release"}
           /\ HasReceipt(Resumption(r, created).run) => HasReceipt(r)
<1>1. /\ reset_interrupted_run(r).status = "RECEIVED"
      /\ ~HasReceipt(reset_interrupted_run(r))
  BY DEF reset_interrupted_run, new_run, HasReceipt
<1>2. /\ resume_action_dispatch(r).status = "ROUTING_ACTION"
      /\ HasReceipt(resume_action_dispatch(r)) => HasReceipt(r)
  BY DEF resume_action_dispatch, Runs, HasReceipt
<1> QED BY <1>1, <1>2 DEF Resumption

-----------------------------------------------------------------------------
(* What a step of an executing call does to the document and to its copy. *)

Moves(c) ==
    /\ run'[c].status # "ABSENT" /\ Where(c)' # "saveResume"
    /\ Where(c)' \in {"saveFailure", "saveOutcome"} => run'[c].status \in Failures
    /\ \/ store' = store
       \/ store'.status \in Working
       \/ store'.status \in Failures /\ Where(c)' = "release"
       \/ /\ store'.status = "COMPLETE"
          /\ run'[c].pr = store'.pr /\ run'[c].issue = store'.issue

\* An exception, after a save that may have been applied.
LEMMA RaiseMoves ==
    ASSUME Locals, NEW c \in Calls, NEW r \in Runs, NEW failure, Raise(c, r, failure),
           r.status \in Working, store' \in {store, r}
    PROVE  Moves(c)
<1>0. r.status # "ABSENT"
  BY DEF Working, Stages
<1>1. CASE op[c] = "execute" /\ r.status \notin Terminal
  <2>1. run'[c] = StoppedExecution(r, failure)
    BY <1>1 DEF Raise, SetRun, Locals
  <2>2. Where(c)' = "saveFailure"
    BY <1>1, LeaveWhere DEF Raise, Exits
  <2> QED BY <2>1, <2>2, FailureStatus DEF Moves, Failures
<1>2. CASE ~(op[c] = "execute" /\ r.status \notin Terminal)
  <2>1. run'[c] = r /\ Where(c)' = "release"
    BY <1>2, LeaveWhere DEF Raise, SetRun, Locals, Exits
  <2> QED BY <1>0, <2>1 DEF Moves
<1> QED BY <1>1, <1>2

\* A save of a working record.
LEMMA SaveMoves ==
    ASSUME Locals, NEW c \in Calls, NEW r \in Runs, r.status \in Working,
           NEW target \in Early \cup {"route", "dispatch", "complete"}, Save(c, r, target)
    PROVE  Moves(c)
<1>1. CASE store' = r /\ SetRun(c, r) /\ Goto(c, target)
  <2>1. run'[c] = r /\ Where(c)' = target
    BY <1>1 DEF SetRun, Goto, Locals, Where, Early
  <2> QED BY <1>1, <2>1 DEF Moves, Early, Working, Stages
<1>2. CASE StoreError(r) /\ Raise(c, r, "error")
  BY <1>2, RaiseMoves DEF StoreError
<1> QED BY <1>1, <1>2 DEF Save

\* A step without an await.
LEMMA LocalMoves ==
    ASSUME Locals, NEW c \in Calls, NEW r, NEW target \in Landings, Local(c, r, target),
           r.status # "ABSENT", target \in {"saveFailure", "saveOutcome"} => r.status \in Failures
    PROVE  Moves(c)
<1>1. run'[c] = r /\ Where(c)' = target /\ store' = store
  BY DEF Local, SetRun, Goto, Locals, Where, Landings
<1>2. target # "saveResume"
  BY DEF Landings
<1> QED BY <1>1, <1>2 DEF Moves

\* The steps of _execute.
LEMMA ExecuteMoves ==
    ASSUME TypeOK, BegunInv, NEW c \in Calls, Stands(c), Execute(c)
    PROVE  Moves(c) /\ pc[c] \notin {"idle", "saveResume", "release", "unlock"}
<1>0. Locals /\ run[c] \in Runs
  BY DEF TypeOK, Locals
<1>w. /\ {"CAPTURING", "COMPILING", "BINDING", "PROBING", "EVALUATING", "REMEDIATING",
          "VERIFYING", "ROUTING_ACTION"} \subseteq Working
      /\ Working \subseteq Stages /\ "ABSENT" \notin Working
  BY DEF Working, Stages, Terminal
<1>s. \A s \in Working : LET r == start_stage(run[c], s)
                         IN /\ r \in Runs /\ r.status = s
                            /\ finish_stage(r) \in Runs /\ finish_stage(r).status = s
  <2> SUFFICES ASSUME NEW s \in Working
               PROVE  /\ start_stage(run[c], s) \in Runs /\ start_stage(run[c], s).status = s
                      /\ finish_stage(start_stage(run[c], s)) \in Runs
                      /\ finish_stage(start_stage(run[c], s)).status = s
    OBVIOUS
  <2>1. s \in Stages
    BY <1>w
  <2>2. start_stage(run[c], s) \in Runs /\ start_stage(run[c], s).status = s
    BY <1>0, <2>1, StageStatus, StageType
  <2> QED BY <2>2, StageStatus, StageType
<1>e. finish_stage(run[c]) \in Runs /\ finish_stage(run[c]).status = run[c].status
  BY <1>0, StageStatus, StageType
<1>p. pc[c] \in Early \cup {"route", "saveFailure"}
  BY DEF Execute, StartCapture, Capture, StartCompile, Compile, Bind, StartProbe, Probe,
         Evaluate, Remediate, Verify, Route, SaveFailure, Early
<1> SUFFICES Moves(c)
  BY <1>p DEF Early
<1>f. ASSUME run[c].status \in Working, ServiceFails(c, run[c])
      PROVE  Moves(c)
  BY <1>0, <1>f, RaiseMoves DEF ServiceFails
<1>1. CASE StartCapture(c)
  BY <1>0, <1>1, <1>w, <1>s, SaveMoves DEF StartCapture, Early
<1>2. CASE Capture(c)
  <2>1. run[c].status = "CAPTURING"
    BY <1>2 DEF Capture, Stands, Poised, Shows
  <2>2. CASE Save(c, finish_stage(run[c]), "startCompile")
    BY <1>0, <1>e, <1>w, <2>1, <2>2, SaveMoves DEF Early
  <2> QED BY <1>2, <1>f, <1>w, <2>1, <2>2 DEF Capture
<1>3. CASE StartCompile(c)
  BY <1>0, <1>3, <1>w, <1>s, SaveMoves DEF StartCompile, Early
<1>4. CASE Compile(c)
  <2>1. run[c].status = "COMPILING"
    BY <1>4 DEF Compile, Stands, Poised, Shows
  <2>2. CASE Save(c, finish_stage(run[c]), "bind")
    BY <1>0, <1>e, <1>w, <2>1, <2>2, SaveMoves DEF Early
  <2> QED BY <1>4, <1>f, <1>w, <2>1, <2>2 DEF Compile
<1>5. CASE Bind(c)
  <2>1. Bound(run[c]) \in Runs /\ Bound(run[c]).status \in Working
    BY <1>0, <1>w, StageStatus, StageType
  <2>2. WithVerdict(Bound(run[c]), "NOT_TESTED").status \in Working
    BY <2>1, StageStatus
  <2>3. CASE Save(c, Bound(run[c]), "startProbe")
    BY <1>0, <2>1, <2>3, SaveMoves DEF Early
  <2>4. CASE Local(c, WithVerdict(Bound(run[c]), "NOT_TESTED"), "route")
    <3>1. "route" \in Landings
      BY DEF Landings, ControlPoints, TaskSection
    <3> QED BY <1>0, <1>w, <2>2, <2>4, <3>1, LocalMoves
  <2> QED BY <1>5, <2>3, <2>4 DEF Bind
<1>6. CASE StartProbe(c)
  BY <1>0, <1>6, <1>w, <1>s, SaveMoves DEF StartProbe, Early
<1>7. CASE Probe(c)
  <2>1. run[c].status = "PROBING"
    BY <1>7 DEF Probe, Stands, Poised, Shows
  <2>2. CASE Save(c, finish_stage(run[c]), "evaluate")
    BY <1>0, <1>e, <1>w, <2>1, <2>2, SaveMoves DEF Early
  <2> QED BY <1>7, <1>f, <1>w, <2>1, <2>2 DEF Probe
<1>8. CASE Evaluate(c)
  <2>1. PICK verdict \in {"SUPPORTED", "CONTRADICTED", "INCONCLUSIVE"} :
           Save(c, WithVerdict(finish_stage(start_stage(run[c], "EVALUATING")), verdict),
                IF verdict = "CONTRADICTED" THEN "remediate" ELSE "route")
    BY <1>8 DEF Evaluate
  <2> DEFINE r == finish_stage(start_stage(run[c], "EVALUATING"))
  <2>2. r \in Runs /\ r.status = "EVALUATING"
    BY <1>w, <1>s
  <2> HIDE DEF r
  <2>3. WithVerdict(r, verdict) \in Runs /\ WithVerdict(r, verdict).status \in Working
    BY <1>w, <2>2, StageStatus, OutcomeType DEF Verdicts
  <2>4. Save(c, WithVerdict(r, verdict), IF verdict = "CONTRADICTED" THEN "remediate" ELSE "route")
    BY <2>1 DEF r
  <2> QED BY <1>0, <2>3, <2>4, SaveMoves DEF Early
<1>9. CASE Remediate(c)
  <2>1. /\ finish_stage(start_stage(run[c], "REMEDIATING")) \in Runs
        /\ finish_stage(start_stage(run[c], "REMEDIATING")).status \in Working
    BY <1>w, <1>s
  <2> QED BY <1>0, <1>9, <2>1, SaveMoves DEF Remediate, Early
<1>10. CASE Verify(c)
  <2>1. PICK receipt \in {"UNPROVEN", "PROVEN"} :
           Save(c, WithReceipt(finish_stage(start_stage(run[c], "VERIFYING")), receipt), "route")
    BY <1>10 DEF Verify
  <2> DEFINE r == finish_stage(start_stage(run[c], "VERIFYING"))
  <2>2. r \in Runs /\ r.status = "VERIFYING"
    BY <1>w, <1>s
  <2> HIDE DEF r
  <2>3. WithReceipt(r, receipt) \in Runs /\ WithReceipt(r, receipt).status \in Working
    BY <1>w, <2>2, StageStatus, OutcomeType
  <2>4. Save(c, WithReceipt(r, receipt), "route")
    BY <2>1 DEF r
  <2> QED BY <1>0, <2>3, <2>4, SaveMoves
<1>11. CASE Route(c)
  <2> DEFINE r == start_stage(run[c], "ROUTING_ACTION")
  <2>1. r \in Runs /\ r.status = "ROUTING_ACTION"
    BY <1>w, <1>s
  <2>2. Save(c, WithPlan(r), "dispatch")
    BY <1>11 DEF Route
  <2> HIDE DEF r
  <2>3. WithPlan(r) \in Runs
    BY <2>1, PlanType
  <2>4. WithPlan(r).status \in Working
    BY <1>w, <2>1, StageStatus
  <2> QED BY <1>0, <2>2, <2>3, <2>4, SaveMoves
<1>12. CASE SaveFailure(c)
  <2>1. pc[c] = "saveFailure" /\ run' = run /\ store' \in {store, run[c]} /\ pc'[c] = "release"
    BY <1>0, <1>12 DEF SaveFailure, StoreError, Goto, Locals
  <2>2. run[c].status \in Failures
    BY <2>1 DEF BegunInv, Where
  <2> QED BY <2>1, <2>2 DEF Moves, Where, Failures
<1> QED BY <1>1, <1>2, <1>3, <1>4, <1>5, <1>6, <1>7, <1>8, <1>9, <1>10, <1>11, <1>12
     DEF Execute

\* The steps of _dispatch_and_complete and of its finally block.
LEMMA DispatchMoves ==
    ASSUME TypeOK, BegunInv, NEW c \in Calls, Stands(c), Placed(c), DispatchAndComplete(c)
    PROVE  /\ Moves(c) /\ pc[c] \notin {"idle", "saveResume", "release"}
           /\ pc[c] = "unlock" => Where(c)' = Where(c) /\ store' = store /\ run' = run
<1>0. Locals /\ run[c] \in Runs
  BY DEF TypeOK, Locals
<1>w. "ROUTING_ACTION" \in Working /\ "ABSENT" \notin Working
  BY DEF Working, Stages, Terminal
<1>l. {"complete", "saveRouted", "saveFallback", "release", "saveOpened", "saveOutcome"}
         \subseteq Landings
  BY DEF Landings, ControlPoints, TaskSection
<1>f. {"saveFallback", "saveFailure", "release"} \subseteq Exits
  BY DEF Exits
<1>r. pc[c] \in {"dispatch", "saveFallback", "publish", "confirm", "saveRouted", "saveOpened",
                 "complete"} => run[c].status = "ROUTING_ACTION"
  BY DEF Stands, Poised, Shows
<1>p. /\ pc[c] \in {"dispatch", "publish", "confirm", "saveFallback", "saveRouted", "saveOpened",
                    "saveOutcome", "complete", "unlock"}
      /\ pc[c] = "unlock" => ReleaseActionLease(c)
  BY DEF DispatchAndComplete, Dispatch, ChooseAction, AcquireActionLease, ActionLeaseDenied,
         ActionLeaseError, SaveFallback, SaveRouted, PublishWrites, PublishReturns,
         PublishRejects, PublishUncertain, PublishRefused, PublishRaises, Publishing,
         SaveOpened, SaveOutcome, Complete, ReleaseActionLease
<1>u. ASSUME ReleaseActionLease(c)
      PROVE  Where(c)' = Where(c) /\ store' = store /\ run' = run
  <2>1. /\ pc[c] = "unlock" /\ pc'[c] = next[c] /\ store' = store /\ run' = run
        /\ next[c] \in Exits
    BY <1>0, <1>u DEF ReleaseActionLease, Goto, Locals, Placed
  <2> QED BY <2>1 DEF Where, Exits
<1> SUFFICES Moves(c)
  BY <1>p, <1>u
<1>1. CASE Dispatch(c)
  <2>1. run[c].status = "ROUTING_ACTION"
    BY <1>1, <1>r DEF Dispatch
  <2>2. PICK r \in {run[c], finish_stage(run[c]), select_issue_fallback(run[c])},
             target \in {"complete", "saveRouted", "saveFallback"} : Local(c, r, target)
    BY <1>1 DEF Dispatch
  <2>3. r.status # "ABSENT"
    BY <1>0, <2>1, <2>2, StageStatus
  <2> QED BY <1>0, <1>l, <2>2, <2>3, LocalMoves
<1>2. ASSUME NEW kind \in {"pr", "issue"}, AcquireActionLease(c, kind)
      PROVE  Moves(c)
  <2>1. pc[c] = "dispatch" /\ pc'[c] = "publish" /\ run' = run /\ store' = store
    BY <1>0, <1>2 DEF AcquireActionLease, ChooseAction, Goto, Locals
  <2> QED BY <1>r, <2>1 DEF Moves, Where
<1>3. ASSUME NEW kind \in {"pr", "issue"}, ActionLeaseDenied(c, kind)
      PROVE  Moves(c)
  <2>1. pc[c] = "dispatch" /\ Local(c, run[c], "release")
    BY <1>3 DEF ActionLeaseDenied, ChooseAction
  <2>2. run[c].status # "ABSENT"
    BY <1>r, <2>1
  <2> QED BY <1>0, <1>l, <2>1, <2>2, LocalMoves
<1>4. ASSUME NEW kind \in {"pr", "issue"}, ActionLeaseError(c, kind)
      PROVE  Moves(c)
  <2>1. pc[c] = "dispatch" /\ store' = store /\ Raise(c, run[c], "error")
    BY <1>4 DEF ActionLeaseError, ChooseAction
  <2>2. run[c].status \in Working
    BY <1>r, <1>w, <2>1
  <2> QED BY <1>0, <2>1, <2>2, RaiseMoves
<1>5. CASE SaveFallback(c) \/ SaveRouted(c)
  <2>1. run[c].status \in Working
    BY <1>5, <1>r, <1>w DEF SaveFallback, SaveRouted
  <2>2. Save(c, run[c], "dispatch") \/ Save(c, run[c], "complete")
    BY <1>5 DEF SaveFallback, SaveRouted
  <2> QED BY <1>0, <2>1, <2>2, SaveMoves
<1>6. CASE PublishWrites(c)
  <2>1. pc[c] = "publish" /\ pc'[c] = "confirm" /\ run' = run /\ store' = store
    BY <1>0, <1>6 DEF PublishWrites, Goto, Locals
  <2> QED BY <1>r, <2>1 DEF Moves, Where
<1>7. CASE PublishReturns(c)
  <2>1. run[c].status = "ROUTING_ACTION" /\ Local(c, WithOpened(run[c], action[c]), "saveOpened")
    BY <1>7, <1>r DEF PublishReturns, Publishing
  <2>2. WithOpened(run[c], action[c]).status # "ABSENT"
    BY <1>0, <2>1, StageStatus
  <2> QED BY <1>0, <1>l, <2>1, <2>2, LocalMoves
<1>8. CASE PublishRejects(c)
  <2>1. run[c].status = "ROUTING_ACTION" /\ store' = store
    BY <1>8, <1>r DEF PublishRejects, Publishing
  <2>2. run'[c] = select_issue_fallback(run[c]) /\ Where(c)' = "saveFallback"
    BY <1>0, <1>8, <1>f, LeaveWhere DEF PublishRejects, SetRun, Locals
  <2>3. run'[c].status = "ROUTING_ACTION"
    BY <1>0, <2>1, <2>2, StageStatus
  <2> QED BY <2>1, <2>2, <2>3 DEF Moves
<1>9. CASE PublishUncertain(c) \/ PublishRefused(c)
  <2>1. PICK r \in {fail_retryable(run[c], "uncertain"),
                    fail_run(run[c], "FAILED_SAFE", "no_side_effects")} :
           Local(c, r, "saveOutcome")
    BY <1>9 DEF PublishUncertain, PublishRefused
  <2>2. r.status \in Failures
    BY <1>0, <2>1, FailureStatus
  <2> QED BY <1>0, <1>l, <2>1, <2>2, LocalMoves DEF Failures
<1>10. CASE PublishRaises(c)
  <2>1. run[c].status \in Working /\ store' = store
    BY <1>10, <1>r, <1>w DEF PublishRaises, Publishing
  <2>2. \E failure : Raise(c, run[c], failure)
    BY <1>10 DEF PublishRaises
  <2> QED BY <1>0, <2>1, <2>2, RaiseMoves
<1>11. CASE SaveOpened(c)
  <2>1. run[c].status = "ROUTING_ACTION" /\ store' \in {store, run[c]} /\ pc[c] = "saveOpened"
    BY <1>11, <1>r DEF SaveOpened, StoreError
  <2>2. CASE Goto(c, "complete") /\ UNCHANGED run
    BY <1>0, <1>w, <2>1, <2>2 DEF Goto, Locals, Moves, Where
  <2>3. CASE SetRun(c, ActionCheckpointFailed(run[c])) /\ Leave(c, "saveFailure")
    <3>1. run'[c] = ActionCheckpointFailed(run[c])
      BY <1>0, <2>3 DEF SetRun, Locals
    <3>2. run'[c].status \in Failures /\ Where(c)' = "saveFailure"
      BY <1>0, <1>f, <2>3, <3>1, FailureStatus, LeaveWhere
    <3> QED BY <1>w, <2>1, <3>2 DEF Moves, Failures
  <2> QED BY <1>11, <2>2, <2>3 DEF SaveOpened
<1>12. CASE SaveOutcome(c)
  <2>1. pc[c] = "saveOutcome" /\ store' \in {store, run[c]} /\ run' = run /\ Leave(c, "release")
    BY <1>12 DEF SaveOutcome, StoreError
  <2>2. Where(c)' = "release" /\ run[c].status \in Failures
    BY <1>0, <1>f, <2>1, LeaveWhere DEF BegunInv, Where
  <2> QED BY <2>1, <2>2 DEF Moves, Failures
<1>13. CASE Complete(c)
  <2>1. /\ Completed(run[c]).status = "COMPLETE"
        /\ Completed(run[c]).pr = run[c].pr /\ Completed(run[c]).issue = run[c].issue
    BY <1>0, StageStatus DEF Completed, finish_stage, start_stage, Runs
  <2>2. store' \in {store, Completed(run[c])}
    BY <1>13 DEF Complete, StoreError
  <2>3. CASE SetRun(c, Completed(run[c])) /\ Leave(c, "release")
    <3>1. run'[c] = Completed(run[c]) /\ Where(c)' = "release"
      BY <1>0, <1>f, <2>3, LeaveWhere DEF SetRun, Locals
    <3> QED BY <2>1, <2>2, <3>1 DEF Moves
  <2>4. CASE SetRun(c, CompletionCheckpointFailed(run[c])) /\ Leave(c, "saveFailure")
    <3>1. run'[c] = CompletionCheckpointFailed(run[c])
      BY <1>0, <2>4 DEF SetRun, Locals
    <3>2. /\ run'[c].status \in Failures
          /\ run'[c].pr = run[c].pr /\ run'[c].issue = run[c].issue
      BY <1>0, <3>1, FailureStatus
    <3>3. Where(c)' = "saveFailure"
      BY <1>0, <1>f, <2>4, LeaveWhere
    <3> QED BY <2>1, <2>2, <3>2, <3>3 DEF Moves, Failures
  <2> QED BY <1>13, <2>3, <2>4 DEF Complete
<1>14. CASE ReleaseActionLease(c)
  <2>1. pc[c] = "unlock" /\ Where(c)' = Where(c) /\ store' = store /\ run' = run
    BY <1>14, <1>u DEF ReleaseActionLease
  <2>2. Where(c) # "saveResume"
    BY <1>14, <2>1 DEF ReleaseActionLease, Placed, Where, Exits
  <2> QED BY <2>1, <2>2 DEF Moves, BegunInv
<1> QED
  BY <1>1, <1>2, <1>3, <1>4, <1>5, <1>6, <1>7, <1>8, <1>9, <1>10, <1>11, <1>12, <1>13, <1>14
     DEF DispatchAndComplete

-----------------------------------------------------------------------------
(* The two invariants. *)

\* Nothing has happened at the start.
LEMMA BegunInit == Init => BegunInv /\ RetryInv
BY DEF Init, BegunInv, RetryInv, Where, Executing, TaskSection

\* A step of an executing call, with the document that it found.
LEMMA TaskMoves ==
    ASSUME TypeOK, RecordInv, FormInv, BegunInv, NEW c \in Calls,
           Execute(c) \/ DispatchAndComplete(c)
    PROVE  /\ Moves(c) /\ Untouched(c) /\ Executing(c)
           /\ pc[c] \notin {"idle", "saveResume", "release"}
           /\ pc[c] = "unlock" => Where(c)' = Where(c) /\ store' = store /\ run' = run
           /\ store.status # "ABSENT" /\ store'.status # "ABSENT"
<1>1. Locals /\ Placed(c) /\ Stands(c)
  BY DEF TypeOK, Locals, RecordInv, FormInv
<1>2. /\ Moves(c) /\ pc[c] \notin {"idle", "saveResume", "release"}
      /\ pc[c] = "unlock" => Where(c)' = Where(c) /\ store' = store /\ run' = run
  BY <1>1, ExecuteMoves, DispatchMoves
<1>3. Untouched(c) /\ Executing(c)
  BY <1>1, ExecuteUntouched, DispatchUntouched DEF Executing
<1>4. store.status # "ABSENT"
  BY <1>2 DEF BegunInv
<1>5. store'.status # "ABSENT"
  BY <1>2, <1>4 DEF Moves, Working, Stages, Failures
<1> QED BY <1>2, <1>3, <1>4, <1>5

\* Every step keeps the first: only a reservation precedes the first step of a call.
LEMMA BegunStep ==
    ASSUME TypeOK, RecordInv, FormInv, BegunInv, [Next]_vars
    PROVE  BegunInv'
<1>0. Locals /\ \A c \in Calls : Placed(c) /\ Stands(c) /\ run[c] \in Runs
  BY DEF TypeOK, Locals, RecordInv, FormInv
<1>1. CASE UNCHANGED <<store, pull_request, issue, pc, run, next>>
  BY <1>1 DEF BegunInv, Where
<1>2. CASE HandleDraft
  <2>1. store.status # "ABSENT" /\ UNCHANGED <<store, pc, run, next>>
    BY <1>2 DEF HandleDraft, BegunInv
  <2> QED BY <2>1 DEF BegunInv, Where
<1>3. ASSUME NEW S, Forget(S), UNCHANGED <<pull_request, issue>>,
             store' = store \/ (store.status # "ABSENT" /\ store'.status # "ABSENT")
      PROVE  BegunInv'
  <2>1. \A d \in Calls : \/ pc'[d] = "idle"
                         \/ pc'[d] = pc[d] /\ run'[d] = run[d] /\ next'[d] = next[d]
    BY <1>3 DEF Forget
  <2>2. \A d \in Calls : pc'[d] = "idle" => Where(d)' = "idle"
    BY DEF Where
  <2>3. \A d \in Calls : /\ pc'[d] # "idle" => run'[d].status # "ABSENT"
                         /\ Where(d)' \in {"saveFailure", "saveOutcome"} => run'[d].status \in Failures
    BY <2>1, <2>2 DEF BegunInv, Where
  <2>4. store'.status = "ABSENT" =>
          pull_request' = "absent" /\ issue' = "absent" /\ \A d \in Calls : pc'[d] = "idle"
    BY <1>3, <2>1 DEF BegunInv
  <2> QED BY <2>3, <2>4 DEF BegunInv
<1>4. ASSUME NEW c \in Calls, Untouched(c), store'.status # "ABSENT", run'[c].status # "ABSENT",
             Where(c)' \in {"saveFailure", "saveOutcome"} => run'[c].status \in Failures
      PROVE  BegunInv'
  BY <1>4 DEF BegunInv, Untouched, Where
<1>5. ASSUME NEW c \in Calls, Execute(c) \/ DispatchAndComplete(c)
      PROVE  BegunInv'
  BY <1>4, <1>5, TaskMoves DEF Moves
<1>6. ASSUME NEW c \in Calls, Reserve(c)
      PROVE  BegunInv'
  <2>1. pc'[c] = "reserved" /\ run'[c] = store' /\ Untouched(c)
    BY <1>0, <1>6, CreateRunUntouched DEF Reserve, CreateRun, SetRun, Goto, Locals
  <2>2. store'.status # "ABSENT"
    BY <1>6 DEF Reserve, new_run
  <2> QED BY <1>4, <2>1, <2>2 DEF Where
<1>7. ASSUME NEW c \in Calls,
             ReturnExisting(c) \/ LeaseDenied(c) \/ LeaseError(c) \/ ReleaseRunLease(c)
      PROVE  BegunInv'
  BY <1>3, <1>7 DEF ReturnExisting, LeaseDenied, LeaseError, ReleaseRunLease, github
<1>8. ASSUME NEW c \in Calls, AcquireRunLease(c)
      PROVE  BegunInv'
  <2> DEFINE resumption == Resumption(run[c], op[c] = "created")
  <2>1. pc[c] = "reserved" /\ store' = store
    BY <1>8 DEF AcquireRunLease, WantsLease
  <2>2. store.status # "ABSENT" /\ run[c].status # "ABSENT"
    BY <2>1 DEF BegunInv
  <2>3. run'[c] = resumption.run /\ pc'[c] = resumption.pc
    BY <1>0, <1>8 DEF AcquireRunLease, SetRun, Goto, Locals
  <2>4. /\ resumption.pc \in {"startCapture", "release", "saveResume", "dispatch", "route"}
        /\ resumption.run.status # "ABSENT"
    BY <1>0, <2>2, ResumptionType, ResumptionStatus
  <2> HIDE DEF resumption
  <2>5. Where(c)' \notin {"saveFailure", "saveOutcome"}
    BY <2>3, <2>4 DEF Where
  <2>6. Untouched(c)
    BY <1>0, <1>8, CreateRunUntouched DEF CreateRun
  <2> QED BY <1>4, <2>1, <2>2, <2>3, <2>4, <2>5, <2>6
<1>9. ASSUME NEW c \in Calls, SaveResume(c)
      PROVE  BegunInv'
  <2>1. /\ pc[c] = "saveResume" /\ store' \in {store, run[c]} /\ UNCHANGED <<pull_request, issue>>
    BY <1>9 DEF SaveResume, StoreError, github
  <2>2. store.status # "ABSENT" /\ run[c].status # "ABSENT" /\ store'.status # "ABSENT"
    BY <2>1 DEF BegunInv
  <2>3. CASE Forget({c})
    BY <1>3, <2>1, <2>2, <2>3
  <2>4. CASE /\ Goto(c, IF op[c] = "execute" THEN "startCapture" ELSE "dispatch")
             /\ UNCHANGED <<op, run, action, next>>
    <3>1. Where(c)' \in {"startCapture", "dispatch"} /\ Untouched(c) /\ run' = run
      BY <1>0, <2>4 DEF Goto, Locals, Where, Untouched
    <3> QED BY <1>4, <2>2, <3>1
  <2> QED BY <1>9, <2>3, <2>4 DEF SaveResume
<1>10. CASE Expiry
  BY <1>1, <1>10 DEF Expiry, ExpireRunLease, ExpireActionLease, github
<1>11. ASSUME NEW i \in Instances, Crash(i)
      PROVE  BegunInv'
  BY <1>3, <1>11 DEF Crash, github
<1> QED BY <1>1, <1>2, <1>5, <1>6, <1>7, <1>8, <1>9, <1>10, <1>11
     DEF Next, CallStep, CreateRun, vars

\* Every step keeps the second: one call executes at a time, and nobody else writes the
\* document meanwhile.
LEMMA RetryStep ==
    ASSUME TypeOK, RecordInv, FormInv, RunLeaseHeld, SerialInv, BegunInv, RetryInv, [Next]_vars
    PROVE  RetryInv'
<1> DEFINE Kept(c) ==
        /\ store.status = "FAILED_RETRYABLE" => Where(c) \in {"saveResume", "release"}
        /\ store.status = "COMPLETE" /\ Where(c) = "saveFailure" =>
              run[c].pr = store.pr /\ run[c].issue = store.issue
        /\ Where(c) = "saveResume" => (HasReceipt(run[c]) => HasReceipt(store))
<1> SUFFICES ASSUME Serial' PROVE \A d \in Calls : Executing(d)' => Kept(d)'
  BY DEF RetryInv
<1>0. /\ Serial /\ Locals
      /\ \A c \in Calls : Placed(c) /\ Stands(c) /\ run[c] \in Runs
      /\ \A c \in Calls : Executing(c) => Steady(c) /\ Kept(c)
      /\ \A c, d \in Calls : Executing(c) /\ Executing(d) => c = d
  BY OvertakenStays DEF TypeOK, Locals, RecordInv, FormInv, SerialInv, RetryInv, RunLeaseHeld, Serial
<1>1. ASSUME NEW d \in Calls, store' = store, pc'[d] = pc[d], run'[d] = run[d], next'[d] = next[d],
             Executing(d)'
      PROVE  Kept(d)'
  <2>1. Executing(d) /\ Where(d)' = Where(d)
    BY <1>1 DEF Executing, Where
  <2> QED BY <1>0, <1>1, <2>1
<1>2. ASSUME NEW S, Forget(S), store' = store
      PROVE  \A d \in Calls : Executing(d)' => Kept(d)'
  <2>1. \A d \in Calls : \/ ~Executing(d)'
                         \/ pc'[d] = pc[d] /\ run'[d] = run[d] /\ next'[d] = next[d]
    BY <1>2 DEF Forget, Executing, TaskSection
  <2> HIDE DEF Kept
  <2> QED BY <1>1, <1>2, <2>1
<1>3. CASE UNCHANGED <<store, pc, run, next>>
  BY <1>1, <1>3
<1>4. ASSUME NEW c \in Calls, Untouched(c), Executing(c)
      PROVE  \A d \in Calls \ {c} : ~Executing(d)'
  BY <1>0, <1>4 DEF Untouched, Executing
<1>5. ASSUME NEW c \in Calls, Execute(c) \/ DispatchAndComplete(c)
      PROVE  Kept(c)' /\ \A d \in Calls \ {c} : ~Executing(d)'
  <2>1. /\ Moves(c) /\ Untouched(c) /\ Executing(c)
        /\ pc[c] \notin {"idle", "saveResume", "release"}
        /\ pc[c] = "unlock" => Where(c)' = Where(c) /\ store' = store /\ run' = run
    BY <1>5, TaskMoves
  <2>2. Steady(c) /\ Kept(c)
    BY <1>0, <2>1
  <2>3. CASE pc[c] = "unlock"
    BY <1>4, <2>1, <2>2, <2>3
  <2>4. CASE pc[c] # "unlock"
    <3>1. Where(c) = pc[c] /\ store.status # "FAILED_RETRYABLE"
      BY <2>1, <2>2, <2>4 DEF Where
    <3>2. store.status = "COMPLETE" => Where(c)' = "release"
      <4>1. store.status = "COMPLETE" => pc[c] = "saveFailure"
        BY <2>1, <2>2, <3>1 DEF Steady, Final
      <4>2. pc[c] = "saveFailure" => SaveFailure(c)
        BY <1>5 DEF Execute, StartCapture, Capture, StartCompile, Compile, Bind, StartProbe,
             Probe, Evaluate, Remediate, Verify, Route, DispatchAndComplete, Dispatch,
             ChooseAction, AcquireActionLease, ActionLeaseDenied, ActionLeaseError,
             SaveFallback, SaveRouted, PublishWrites, PublishReturns, PublishRejects,
             PublishUncertain, PublishRefused, PublishRaises, Publishing, SaveOpened,
             SaveOutcome, Complete, ReleaseActionLease
      <4>3. SaveFailure(c) => pc'[c] = "release"
        BY <1>0 DEF SaveFailure, Goto, Locals
      <4> QED BY <4>1, <4>2, <4>3 DEF Where
    <3>3. Where(c)' # "saveResume"
      BY <2>1 DEF Moves
    <3>4. store'.status = "FAILED_RETRYABLE" => Where(c)' = "release"
      BY <2>1, <3>1 DEF Moves, Working, Terminal, Failures
    <3>5. store'.status = "COMPLETE" /\ Where(c)' = "saveFailure" =>
             run'[c].pr = store'.pr /\ run'[c].issue = store'.issue
      BY <2>1, <3>2 DEF Moves, Working, Terminal, Failures
    <3> QED BY <1>4, <2>1, <3>3, <3>4, <3>5
  <2> QED BY <2>3, <2>4
<1>6. ASSUME NEW c \in Calls, Reserve(c)
      PROVE  \A d \in Calls : Executing(d)' => Kept(d)'
  <2>1. pc'[c] = "reserved" /\ Untouched(c)
    BY <1>0, <1>6, CreateRunUntouched DEF Reserve, CreateRun, Goto, Locals
  <2>2. ~Executing(c)'
    BY <2>1 DEF Executing, TaskSection
  <2>3. CASE store.status = "ABSENT"
    BY <2>1, <2>2, <2>3 DEF BegunInv, Untouched, Executing, TaskSection
  <2>4. CASE store.status # "ABSENT"
    <3>1. store' = store
      BY <1>6, <2>4 DEF Reserve
    <3> HIDE DEF Kept
    <3> QED BY <1>1, <2>1, <2>2, <3>1 DEF Untouched
  <2> QED BY <2>3, <2>4
<1>7. ASSUME NEW c \in Calls,
             ReturnExisting(c) \/ LeaseDenied(c) \/ LeaseError(c) \/ ReleaseRunLease(c)
      PROVE  \A d \in Calls : Executing(d)' => Kept(d)'
  BY <1>2, <1>7 DEF ReturnExisting, LeaseDenied, LeaseError, ReleaseRunLease
<1>8. ASSUME NEW c \in Calls, AcquireRunLease(c)
      PROVE  \A d \in Calls : Executing(d)' => Kept(d)'
  <2> DEFINE resumption == Resumption(run[c], op[c] = "created")
  <2>1. /\ pc[c] = "reserved" /\ store' = store /\ run[c] = store /\ run[c].status \notin Final
    BY <1>8 DEF AcquireRunLease, WantsLease, Serial
  <2>2. run'[c] = resumption.run /\ pc'[c] = resumption.pc /\ Untouched(c)
    BY <1>0, <1>8, CreateRunUntouched DEF AcquireRunLease, CreateRun, SetRun, Goto, Locals
  <2>3. op[c] = "created" => run[c].status = "RECEIVED"
    BY <1>0, <2>1 DEF Stands, Poised, Shows
  <2>4. /\ resumption.pc \in {"startCapture", "release", "saveResume", "dispatch", "route"}
        /\ run[c].status = "FAILED_RETRYABLE" => resumption.pc \in {"saveResume", "release"}
        /\ HasReceipt(resumption.run) => HasReceipt(run[c])
    BY <1>0, <2>1, <2>3, ResumptionType, ResumptionStatus DEF BegunInv
  <2> HIDE DEF resumption
  <2>5. Where(c)' = resumption.pc
    BY <2>2, <2>4 DEF Where
  <2>6. Kept(c)'
    BY <2>1, <2>2, <2>4, <2>5
  <2> HIDE DEF Kept
  <2> QED BY <1>1, <2>1, <2>2, <2>6 DEF Untouched
<1>9. ASSUME NEW c \in Calls, SaveResume(c)
      PROVE  \A d \in Calls : Executing(d)' => Kept(d)'
  <2>1. pc[c] = "saveResume" /\ Executing(c) /\ Untouched(c)
    BY <1>0, <1>9, CreateRunUntouched DEF SaveResume, Executing, CreateRun
  <2>2. \A d \in Calls \ {c} : ~Executing(d)'
    BY <1>4, <2>1
  <2>3. CASE Forget({c})
    BY <2>2, <2>3 DEF Forget, Executing, TaskSection
  <2>4. CASE /\ store' = run[c] /\ UNCHANGED <<op, run, action, next>>
             /\ Goto(c, IF op[c] = "execute" THEN "startCapture" ELSE "dispatch")
    <3>1. Where(c)' \in {"startCapture", "dispatch"}
      BY <1>0, <2>4 DEF Goto, Locals, Where
    <3>2. run[c].status \in {"RECEIVED", "ROUTING_ACTION"}
      BY <1>0, <2>1 DEF Stands, Poised, Shows
    <3> QED BY <2>2, <2>4, <3>1, <3>2
  <2> QED BY <1>9, <2>3, <2>4 DEF SaveResume
<1>10. CASE Expiry \/ HandleDraft
  BY <1>3, <1>10 DEF Expiry, ExpireRunLease, ExpireActionLease, HandleDraft
<1>11. ASSUME NEW i \in Instances, Crash(i)
      PROVE  \A d \in Calls : Executing(d)' => Kept(d)'
  BY <1>2, <1>11 DEF Crash
<1> HIDE DEF Kept
<1> QED BY <1>3, <1>5, <1>6, <1>7, <1>8, <1>9, <1>10, <1>11
     DEF Next, CallStep, CreateRun, vars

-----------------------------------------------------------------------------
(* The workflow implements its promise. *)

\* How the outline of a document follows from its status, and its report from its actions.
LEMMA Outlines ==
    ASSUME NEW r
    PROVE  /\ r.status = "ABSENT" <=> Outline(r) = "absent"
           /\ r.status = "COMPLETE" <=> Outline(r) = "complete"
           /\ r.status = "FAILED_SAFE" <=> Outline(r) = "failed"
           /\ r.status = "FAILED_RETRYABLE" <=> Outline(r) = "retryable"
           /\ r.status \in Working => Outline(r) = "working"
           /\ Outline(r) \in {"absent", "working", "complete", "failed", "retryable"}
           /\ Reported(r) = "none" <=> ~HasReceipt(r)
           /\ Reported(r) \in {"none", "pr", "issue"}
BY DEF Outline, Reported, HasReceipt, Working, Stages, Terminal

\* Who writes the document: the step grants no lease and leaves GitHub alone.
LEMMA DocumentWriters ==
    ASSUME Next, store' # store
    PROVE  /\ UNCHANGED <<pull_request, issue, overtaken>>
           /\ \E c \in Calls : \/ store.status = "ABSENT" /\ Reserve(c)
                               \/ SaveResume(c) \/ Execute(c) \/ DispatchAndComplete(c)
<1>1. UNCHANGED <<pull_request, issue>>
  BY StoreWriters DEF github
<1>2. PICK c \in Calls : \/ store.status = "ABSENT" /\ Reserve(c)
                         \/ SaveResume(c) \/ Execute(c) \/ DispatchAndComplete(c)
  BY DEF Next, CallStep, CreateRun, Reserve, ReturnExisting, LeaseDenied, LeaseError,
         AcquireRunLease, ReleaseRunLease, Expiry, ExpireRunLease, ExpireActionLease,
         HandleDraft, Crash
<1>3. Reserve(c) \/ SaveResume(c) => overtaken' = overtaken
  BY DEF Reserve, SaveResume
<1>4. Execute(c) => overtaken' = overtaken
  BY DEF Execute, StartCapture, Capture, StartCompile, Compile, Bind, StartProbe, Probe,
         Evaluate, Remediate, Verify, Route, SaveFailure, Save, ServiceFails, Local
<1>5. DispatchAndComplete(c) => overtaken' = overtaken
  BY DEF DispatchAndComplete, Dispatch, SaveFallback, SaveRouted, AcquireActionLease,
         ActionLeaseDenied, ActionLeaseError, PublishWrites, PublishReturns, PublishRejects,
         PublishUncertain, PublishRefused, PublishRaises, SaveOpened, SaveOutcome, Complete,
         ReleaseActionLease, Save, Local
<1> QED BY <1>1, <1>2, <1>3, <1>4, <1>5

\* Who writes to GitHub: a publisher, or a person who handles the draft.
LEMMA GitHubWriters ==
    ASSUME Next, <<pull_request, issue>>' # <<pull_request, issue>>
    PROVE  /\ UNCHANGED <<store, overtaken>>
           /\ HandleDraft \/ \E c \in Calls : PublishWrites(c)
<1>1. \A c \in Calls : ~CreateRun(c)
  BY DEF CreateRun, Reserve, ReturnExisting, LeaseDenied, LeaseError, AcquireRunLease,
         SaveResume, ReleaseRunLease, github
<1>2. \A c \in Calls : ~Execute(c)
  BY DEF Execute, StartCapture, Capture, StartCompile, Compile, Bind, StartProbe, Probe,
         Evaluate, Remediate, Verify, Route, SaveFailure, Save, ServiceFails, Local, github
<1>3. \A c \in Calls : DispatchAndComplete(c) => PublishWrites(c)
  BY DEF DispatchAndComplete, Dispatch, SaveFallback, SaveRouted, AcquireActionLease,
         ActionLeaseDenied, ActionLeaseError, PublishReturns, PublishRejects,
         PublishUncertain, PublishRefused, PublishRaises, SaveOpened, SaveOutcome, Complete,
         ReleaseActionLease, Save, Local, github
<1>4. ~Expiry /\ \A i \in Instances : ~Crash(i)
  BY DEF Expiry, ExpireRunLease, ExpireActionLease, Crash, github
<1>5. HandleDraft \/ \E c \in Calls : PublishWrites(c)
  BY <1>1, <1>2, <1>3, <1>4 DEF Next, CallStep
<1> QED BY <1>5 DEF HandleDraft, PublishWrites

\* What a sound record reports was received by GitHub.
LEMMA ReportsHeld ==
    ASSUME NEW r, NEW p, NEW i, Sound(r, p, i)
    PROVE  /\ Reported(r) = "pr" => p # "absent"
           /\ Reported(r) = "issue" => i = "open"
BY DEF Sound, Reported

\* The step that creates the document: nothing existed before, and nothing is reported.
LEMMA ReserveStarts ==
    ASSUME FormInv, NEW c \in Calls, Reserve(c), store.status = "ABSENT"
    PROVE  Outline(store) = "absent" /\ Outline(store') = "working"
           /\ Reported(store) = "none" /\ Reported(store') = "none"
<1>1. ~HasReceipt(store)
  BY DEF FormInv, RecordsFormed, Formed, Terminal
<1>2. PICK repository \in BOOLEAN : store' = new_run(repository)
  BY DEF Reserve
<1>3. store'.status \in Working /\ ~HasReceipt(store')
  BY <1>2 DEF new_run, Working, Stages, Terminal, HasReceipt
<1> QED BY <1>1, <1>3, Outlines

\* Once the executions have overlapped, a step still creates the document once, takes
\* nothing back from GitHub and reports only what GitHub received.
LEMMA UnorderedStep ==
    ASSUME TypeOK, RecordInv, RecordInv', FormInv, BegunInv, [Next]_vars, ~Serial
    PROVE  Promise!Unordered
<1>0. ~Serial'
  BY OvertakenStays
<1>1. Reported(store)' \in {"none"} \cup {kind \in {"pr", "issue"} : Promise!Held(kind)'}
  <2>1. Sound(store', pull_request', issue')
    BY DEF RecordInv, RecordsSound
  <2>2. /\ Reported(store') \in {"none", "pr", "issue"}
        /\ Reported(store') = "pr" => pull_request' # "absent"
        /\ Reported(store') = "issue" => issue' = "open"
    BY <2>1, Outlines, ReportsHeld
  <2> QED BY <2>2 DEF Promise!Held
<1> SUFFICES
      /\ Outline(store) = "absent" =>
            Outline(store') \in {"absent", "working"} /\ Reported(store') = Reported(store)
               /\ pull_request' = pull_request /\ issue' = issue
      /\ Outline(store) # "absent" => Outline(store') # "absent"
      /\ pull_request' # pull_request => <<pull_request, pull_request'>> \in
            {<<"absent", "draft">>, <<"draft", "handled">>}
      /\ issue' # issue => issue = "absent" /\ issue' = "open"
  BY <1>0, <1>1 DEF Promise!Unordered, Promise!github
<1>2. CASE store' = store /\ pull_request' = pull_request /\ issue' = issue
  BY <1>2
<1>3. CASE <<pull_request, issue>>' # <<pull_request, issue>>
  <2>1. Next /\ store' = store /\ (HandleDraft \/ \E c \in Calls : PublishWrites(c))
    BY <1>3, GitHubWriters DEF vars
  <2>2. store.status # "ABSENT"
    BY <2>1 DEF BegunInv, HandleDraft, PublishWrites
  <2>3. /\ pull_request' # pull_request => <<pull_request, pull_request'>> \in
              {<<"absent", "draft">>, <<"draft", "handled">>}
        /\ issue' # issue => issue = "absent" /\ issue' = "open"
    BY <2>1 DEF HandleDraft, PublishWrites
  <2> QED BY <2>1, <2>2, <2>3, Outlines
<1>4. CASE store' # store
  <2>1. UNCHANGED <<pull_request, issue>>
    BY <1>4, DocumentWriters DEF vars
  <2>2. PICK c \in Calls : \/ store.status = "ABSENT" /\ Reserve(c)
                           \/ SaveResume(c) \/ Execute(c) \/ DispatchAndComplete(c)
    BY <1>4, DocumentWriters DEF vars
  <2>3. CASE store.status = "ABSENT" /\ Reserve(c)
    BY <2>1, <2>3, ReserveStarts
  <2>4. CASE SaveResume(c)
    <3>1. pc[c] = "saveResume" /\ store' = run[c]
      BY <1>4, <2>4 DEF SaveResume, StoreError
    <3>2. store.status # "ABSENT" /\ store'.status # "ABSENT"
      BY <3>1 DEF BegunInv
    <3> QED BY <2>1, <3>2, Outlines
  <2>5. CASE Execute(c) \/ DispatchAndComplete(c)
    <3>1. store.status # "ABSENT" /\ store'.status # "ABSENT"
      BY <2>5, TaskMoves
    <3> QED BY <2>1, <3>1, Outlines
  <2> QED BY <2>2, <2>3, <2>4, <2>5
<1> QED BY <1>2, <1>3, <1>4

\* While executions are serial, a publication comes from a working run that reports nothing
\* and has nothing standing.
LEMMA PublishesOnce ==
    ASSUME RecordInv, FormInv, SerialInv, Serial, NEW c \in Calls, PublishWrites(c)
    PROVE  Promise!Publish
<1>1. pc[c] = "publish" /\ Executing(c) /\ Where(c) = "publish"
  BY DEF PublishWrites, Executing, TaskSection, Where
<1>2. run[c] = store /\ Reconciled(store, settings, pull_request, issue)
  BY <1>1 DEF SerialInv, Steady
<1>3. store.status = "ROUTING_ACTION"
  BY <1>1, <1>2 DEF FormInv, Stands, Poised, Shows
<1>4. Outline(store) = "working"
  BY <1>3, Outlines DEF Working, Stages, Terminal
<1>5. \/ action[c] = "pr" /\ store.pr = "READY"
      \/ action[c] = "issue" /\ store.issue = "PLANNED"
  BY <1>1, <1>2 DEF RecordInv, Placed, Publishing
<1>6. /\ store.pr = "READY" => issue # "open" /\ ~HasReceipt(store)
      /\ store.issue = "PLANNED" => pull_request # "draft" /\ ~HasReceipt(store)
  BY <1>2, <1>3, OtherAbsent DEF RecordInv, RecordsSound
<1>7. Reported(store) = "none"
  BY <1>5, <1>6, Outlines
<1>8. /\ pull_request # "draft" /\ issue # "open"
      /\ \/ pull_request = "absent" /\ pull_request' = "draft" /\ UNCHANGED issue
         \/ issue = "absent" /\ issue' = "open" /\ UNCHANGED pull_request
  BY <1>5, <1>6 DEF PublishWrites
<1>9. store' = store
  BY DEF PublishWrites
<1> QED BY <1>4, <1>7, <1>8, <1>9 DEF Promise!Publish, Promise!NothingStands

\* While executions are serial, a resumption finds the run retryable or interrupted at work,
\* and reports what was reported.
LEMMA ResumesOnce ==
    ASSUME TypeOK, FormInv, SerialInv, BegunInv, RetryInv, Serial, KeepsReceipts,
           NEW c \in Calls, SaveResume(c), store' # store
    PROVE  /\ Outline(store) \in {"working", "retryable"} /\ Outline(store') = "working"
           /\ Reported(store') = Reported(store)
<1>1. pc[c] = "saveResume" /\ Executing(c) /\ Where(c) = "saveResume" /\ store' = run[c]
  BY DEF SaveResume, StoreError, Executing, Where
<1>2. Steady(c) /\ (HasReceipt(run[c]) => HasReceipt(store))
  BY <1>1 DEF SerialInv, RetryInv
<1>3. store.status # "ABSENT" /\ store.status \notin Final
  BY <1>1, <1>2 DEF BegunInv, Steady
<1>4. Outline(store) \in {"working", "retryable"}
  BY <1>3, Outlines DEF Final
<1>5. run[c].status \in {"RECEIVED", "ROUTING_ACTION"}
  BY <1>1 DEF FormInv, Stands, Poised, Shows
<1>6. Outline(store') = "working"
  BY <1>1, <1>5, Outlines DEF Working, Stages, Terminal
<1>7. Reported(store') = Reported(store)
  BY <1>1, <1>2 DEF KeepsReceipts, Reported, HasReceipt
<1> QED BY <1>4, <1>6, <1>7

\* While executions are serial, a task writes a document that is at work, except for the
\* failure record that replaces an unconfirmed COMPLETE one and reports the same.
LEMMA TasksCheckpoint ==
    ASSUME TypeOK, RecordInv, RecordInv', FormInv, SerialInv, BegunInv, RetryInv, Serial,
           KeepsReceipts, NEW c \in Calls, Execute(c) \/ DispatchAndComplete(c),
           store' # store, UNCHANGED <<pull_request, issue>>
    PROVE  Promise!Checkpoint \/ Promise!Doubt
<1>1. /\ Moves(c) /\ Executing(c) /\ pc[c] \notin {"saveResume", "release", "unlock"}
      /\ store.status # "ABSENT"
  BY TaskMoves
<1>2. /\ Where(c) = pc[c] /\ Steady(c) /\ store.status # "FAILED_RETRYABLE"
      /\ store.status = "COMPLETE" /\ pc[c] = "saveFailure" =>
            run[c].pr = store.pr /\ run[c].issue = store.issue
  BY <1>1 DEF Where, SerialInv, RetryInv
<1>3. CASE store.status \in Final
  <2>1. store.status = "COMPLETE" /\ pc[c] = "saveFailure"
    BY <1>1, <1>2, <1>3 DEF Steady
  <2>2. SaveFailure(c)
    BY <2>1 DEF Execute, StartCapture, Capture, StartCompile, Compile, Bind, StartProbe,
         Probe, Evaluate, Remediate, Verify, Route, DispatchAndComplete, Dispatch,
         ChooseAction, AcquireActionLease, ActionLeaseDenied, ActionLeaseError,
         SaveFallback, SaveRouted, PublishWrites, PublishReturns, PublishRejects,
         PublishUncertain, PublishRefused, PublishRaises, Publishing, SaveOpened,
         SaveOutcome, Complete, ReleaseActionLease
  <2>3. store' = run[c] /\ run[c].status \in Failures
    BY <1>2, <2>1, <2>2 DEF SaveFailure, StoreError, BegunInv
  <2>4. Outline(store) = "complete" /\ Outline(store') \in {"retryable", "failed"}
    BY <2>1, <2>3, Outlines DEF Failures
  <2>5. Reported(store') = Reported(store)
    BY <1>2, <2>1, <2>3 DEF Reported
  <2> QED BY <2>4, <2>5 DEF Promise!Doubt, Promise!github
<1>4. CASE store.status \notin Final
  <2>1. Outline(store) = "working"
    BY <1>1, <1>2, <1>4, Outlines DEF Final
  <2>2. Outline(store') \in {"working", "retryable", "complete", "failed"}
    BY <1>1, Outlines DEF Moves, Failures
  <2>3. /\ Reported(store') = "pr" => pull_request # "absent"
        /\ Reported(store') = "issue" => issue = "open"
    BY ReportsHeld DEF RecordInv, RecordsSound
  <2>4. HasReceipt(store) => Reported(store') = Reported(store)
    BY DEF KeepsReceipts, Reported
  <2>5. \/ Reported(store') = Reported(store)
        \/ /\ Reported(store) = "none" /\ Reported(store') \in {"pr", "issue"}
           /\ Promise!Held(Reported(store'))
    BY <2>3, <2>4, Outlines DEF Promise!Held
  <2> QED BY <2>1, <2>2, <2>5 DEF Promise!Checkpoint, Promise!github
<1> QED BY <1>3, <1>4

\* While executions are serial, every step is one the promise names, or none at all.
LEMMA OrderedStep ==
    ASSUME TypeOK, RecordInv, RecordInv', FormInv, RunLeaseHeld, SerialInv, BegunInv, RetryInv,
           [Next]_vars, Serial'
    PROVE  Promise!Ordered \/ UNCHANGED Promise!vars
<1>0. Serial /\ KeepsReceipts
  BY OvertakenStays, SerialStep
<1>1. CASE UNCHANGED <<store, pull_request, issue>>
  <2>1. Outline(store') = Outline(store) /\ Reported(store') = Reported(store)
    BY <1>1
  <2>2. Serial' = Serial
    BY <1>0 DEF Serial
  <2> QED BY <1>1, <2>1, <2>2 DEF Promise!vars, Promise!github
<1>2. CASE <<pull_request, issue>>' # <<pull_request, issue>>
  <2>1. store' = store /\ (HandleDraft \/ \E c \in Calls : PublishWrites(c))
    BY <1>2, GitHubWriters DEF vars
  <2>2. HandleDraft => Promise!Handle
    BY <2>1 DEF HandleDraft, Promise!Handle
  <2> QED BY <1>0, <2>1, <2>2, PublishesOnce DEF Promise!Ordered
<1>3. CASE store' # store
  <2>1. UNCHANGED <<pull_request, issue>>
    BY <1>3, DocumentWriters DEF vars
  <2>2. PICK c \in Calls : \/ store.status = "ABSENT" /\ Reserve(c)
                           \/ SaveResume(c) \/ Execute(c) \/ DispatchAndComplete(c)
    BY <1>3, DocumentWriters DEF vars
  <2>3. CASE store.status = "ABSENT" /\ Reserve(c)
    <3>1. Promise!Start
      BY <2>1, <2>3, ReserveStarts DEF Promise!Start, Promise!github
    <3> QED BY <3>1 DEF Promise!Ordered
  <2>4. CASE SaveResume(c)
    <3>1. /\ Outline(store) \in {"working", "retryable"} /\ Outline(store') = "working"
          /\ Reported(store') = Reported(store)
      BY <1>0, <1>3, <2>4, ResumesOnce
    <3>2. Promise!Checkpoint \/ Promise!Resume
      BY <2>1, <3>1 DEF Promise!Checkpoint, Promise!Resume, Promise!github
    <3> QED BY <3>2 DEF Promise!Ordered
  <2>5. CASE Execute(c) \/ DispatchAndComplete(c)
    BY <1>0, <1>3, <2>1, <2>5, TasksCheckpoint DEF Promise!Ordered
  <2> QED BY <2>2, <2>3, <2>4, <2>5
<1> QED BY <1>1, <1>2, <1>3

\* Every step of the workflow is a step of the promise, or changes nothing that it names.
LEMMA PromiseStep ==
    ASSUME TypeOK, RecordInv, RecordInv', FormInv, RunLeaseHeld, SerialInv, BegunInv, RetryInv,
           [Next]_vars
    PROVE  [Promise!Next]_(Promise!vars)
<1>1. CASE Serial'
  <2>1. Serial
    BY <1>1, OvertakenStays
  <2> QED BY <1>1, <2>1, OrderedStep DEF Promise!Next
<1>2. CASE ~Serial /\ ~Serial'
  BY <1>2, UnorderedStep DEF Promise!Next
<1>3. CASE Serial /\ ~Serial'
  <2>1. ASSUME overtaken' = overtaken PROVE FALSE
    BY <1>3, <2>1, Zenon DEF Serial
  <2>2. UNCHANGED <<store, pull_request, issue>>
    BY <2>1, DocumentWriters, GitHubWriters DEF vars
  <2>3. Outline(store') = Outline(store) /\ Reported(store') = Reported(store)
    BY <2>2
  <2>4. Promise!Overtake
    BY <1>3, <2>2, <2>3 DEF Promise!Overtake, Promise!github
  <2> QED BY <2>4 DEF Promise!Next
<1> QED BY <1>1, <1>2, <1>3

\* At the start there is no document, and GitHub holds nothing.
LEMMA PromiseInit == Init => Promise!Init
<1>1. Outline(NoRun) = "absent" /\ Reported(NoRun) = "none"
  BY DEF NoRun, new_run, Outline, Reported
<1>2. Init => Serial \in BOOLEAN
  BY LeaseAssumption DEF Init, Serial
<1> QED BY <1>1, <1>2 DEF Init, Promise!Init

\* The workflow keeps its promise to the callers of a key and to the readers of GitHub:
\* create_run, the operations it starts, crashes, store errors and lost leases together
\* behave like one run that works, publishes at most one artifact, reports it only when
\* GitHub holds it, and is taken up again only when it is retryable, until a lease is
\* granted to a stale copy; and even then a run is created once and reports no fiction.
THEOREM AuditKeepsItsPromise == Spec => ImplementsPromise
<1>1. BegunInv /\ TypeOK /\ RecordInv /\ FormInv /\ [Next]_vars => BegunInv'
  BY BegunStep
<1>2. TypeOK /\ RecordInv /\ FormInv /\ RunLeaseHeld /\ SerialInv /\ BegunInv /\ RetryInv
         /\ [Next]_vars => RetryInv'
  BY RetryStep
<1>3. TypeOK /\ RecordInv /\ RecordInv' /\ FormInv /\ RunLeaseHeld /\ SerialInv /\ BegunInv
         /\ RetryInv /\ [Next]_vars => [Promise!Next]_(Promise!vars)
  BY PromiseStep
<1> QED
  BY <1>1, <1>2, <1>3, BegunInit, PromiseInit, SerialInvariant, PTL
     DEF Spec, ImplementsPromise, Promise!Spec

-----------------------------------------------------------------------------
(***************************************************************************)
(* PART 7.  The caller: the tab of the judge console that repeats the key. *)
(***************************************************************************)

CONSTANTS Keys, Others, Handlers, None, MaxPolls
VARIABLES runs, latest, strays, pending, used, shown, running, error, loading, loaded,
          tab_pc, key, reply, post, polls, tab_faults, reopened, doubled, crossed

Console == INSTANCE ConsoleInvariant WITH pc <- tab_pc, faults <- tab_faults

\* What ConsoleDashboard assumes of its constants.
ConsoleParameters == None \notin Keys \cup Others /\ MaxPolls \in Nat /\ MaxFaults \in Nat

\* The states of a request that are not a run.
ConsoleMarks == {Console!Nothing, Console!Sent, Console!Arrived, Console!Failed}

\* The state of a request is never mistaken for a run that it returned.
LEMMA ConsoleMarksApart ==
    ASSUME ConsoleParameters
    PROVE  /\ Console!NoRun \in Console!Snapshots
           /\ Console!NoRun.key = None /\ Console!NoRun.status = "absent"
           /\ \A r \in ConsoleMarks : r \notin Console!Snapshots /\ r.key = None
                 /\ r.status \notin Console!Statuses
           /\ Console!Nothing # Console!Sent /\ Console!Nothing # Console!Arrived
           /\ Console!Nothing # Console!Failed /\ Console!Sent # Console!Arrived
           /\ Console!Sent # Console!Failed /\ Console!Arrived # Console!Failed
           /\ \A r \in Console!Snapshots :
                 /\ r.status \in Console!Statuses
                 /\ r.key = None => r = Console!NoRun
                 /\ r.key # None => r.key \in Console!AllKeys
<1> DEFINE Tagged(r, s) == r.key = None /\ r.status = s
<1>1. /\ Tagged(Console!Nothing, "nothing") /\ Tagged(Console!Sent, "sent")
      /\ Tagged(Console!Arrived, "arrived") /\ Tagged(Console!Failed, "failed")
      /\ Tagged(Console!NoRun, "absent")
  BY DEF Console!Nothing, Console!Sent, Console!Arrived, Console!Failed, Console!NoRun
<1>2. \A r \in Console!Snapshots :
               /\ r.status \in Console!Statuses
               /\ r.key = None => r = Console!NoRun
               /\ r.key # None => r.key \in Console!AllKeys
  BY <1>1 DEF ConsoleParameters, Console!Snapshots, Console!AllKeys, Console!Statuses
<1>3. \A r \in ConsoleMarks : r.key = None /\ r.status \notin Console!Statuses
  BY <1>1 DEF ConsoleMarks, Console!Statuses
<1>4. \A r \in ConsoleMarks : r \notin Console!Snapshots
  BY <1>2, <1>3
<1>5. Console!NoRun \in Console!Snapshots
  BY DEF Console!Snapshots
<1> QED BY <1>1, <1>2, <1>3, <1>4, <1>5

\* What the agent answers for a key: the run of the key, with its status.
LEMMA ConsoleSnapshot ==
    ASSUME ConsoleParameters, runs \in [Console!AllKeys -> Console!Statuses],
           NEW k \in Console!AllKeys
    PROVE  /\ Console!Snapshot(k) \in Console!Snapshots
           /\ Console!Snapshot(k).key = k /\ Console!Snapshot(k).status = runs[k]
BY DEF ConsoleParameters, Console!Snapshot, Console!Snapshots, Console!AllKeys

\* latest_run returns nothing, or a run with its present status.
LEMMA ConsoleLatest ==
    ASSUME ConsoleParameters, Console!TypeOK
    PROVE  /\ Console!Latest \in Console!Snapshots /\ Console!Latest.key = latest
           /\ latest # None => latest \in Console!AllKeys /\ Console!Latest.status = runs[latest]
           /\ latest = None => Console!Latest = Console!NoRun
<1>1. CASE latest = None
  <2>1. Console!Latest = Console!NoRun
    BY <1>1 DEF Console!Latest, Console!Snapshot, Console!NoRun
  <2> QED BY <1>1, <2>1, ConsoleMarksApart
<1>2. CASE latest # None
  BY <1>2, ConsoleSnapshot DEF Console!Latest, Console!TypeOK
<1> QED BY <1>1, <1>2

\* The invariant holds when the page is loaded for the first time.
LEMMA ConsoleInit ==
    ASSUME ConsoleParameters, Console!Init
    PROVE  Console!ConsoleInv
<1> USE DEF Console!All
<1>0. /\ Console!Nothing \in ConsoleMarks /\ "absent" \in Console!Statuses
  BY DEF ConsoleMarks, Console!Statuses
<1>1. Console!TypeOK
  <2>1. polls \in [Handlers -> 0 .. MaxPolls] /\ tab_faults \in 0 .. MaxFaults
    BY DEF ConsoleParameters, Console!Init
  <2>2. /\ running \in BOOLEAN /\ error \in BOOLEAN /\ loading \in BOOLEAN
        /\ reopened \in BOOLEAN /\ doubled \in BOOLEAN /\ crossed \in BOOLEAN
    BY DEF Console!Init
  <2>3. runs \in [Console!AllKeys -> Console!Statuses]
    BY <1>0 DEF Console!Init
  <2>4. /\ shown \in Console!Snapshots /\ loaded = Console!Nothing
        /\ tab_pc \in [Handlers -> {"idle", "posting", "polling"}]
        /\ key \in [Handlers -> Console!AllKeys \cup {None}]
        /\ reply \in [Handlers -> Console!Snapshots \cup {Console!Nothing, Console!Failed}]
        /\ post \in [Handlers -> Console!Snapshots \cup
                        {Console!Nothing, Console!Sent, Console!Arrived, Console!Failed}]
    BY ConsoleMarksApart DEF Console!Init
  <2> QED BY <2>1, <2>2, <2>3, <2>4 DEF Console!Init, Console!TypeOK
<1>2. Console!TabInv
  BY DEF Console!Init, Console!TabInv
<1>3. Console!CreatedInv
  BY <1>0, ConsoleMarksApart DEF Console!Init, Console!CreatedInv, Console!Answered
<1>4. Console!OverInv
  BY DEF Console!Init, Console!OverInv, Console!StaysOver, Console!Nothing
<1>5. Console!PendingInv
  BY DEF Console!Init, Console!PendingInv, Console!Live, Console!Unsettled,
     Console!Nothing, Console!Sent
<1>6. Console!RetryInv
  BY DEF Console!Init, Console!RetryInv, Console!NoRun
<1> QED BY <1>1, <1>2, <1>3, <1>4, <1>5, <1>6 DEF Console!ConsoleInv

\* create_run keeps the types, creates the run, and opens no run that is over.
LEMMA ConsoleCreates ==
    ASSUME Console!TypeOK, NEW k \in Console!AllKeys, Console!CreateRun(k)
    PROVE  /\ runs' \in [Console!AllKeys -> Console!Statuses]
           /\ latest' \in Console!AllKeys \cup {None} /\ latest' \in {latest, k}
           /\ runs'[k] # "absent"
           /\ \A j \in Console!AllKeys : /\ j # k => runs'[j] = runs[j]
                                         /\ runs[j] # "absent" => runs'[j] # "absent"
                                         /\ runs'[j] = "over" <=> runs[j] = "over"
BY DEF Console!TypeOK, Console!CreateRun, Console!Statuses

\* The state of the handlers other than h.
ConsoleOthers(h) ==
    \A g \in Handlers : g # h => /\ tab_pc'[g] = tab_pc[g] /\ key'[g] = key[g]
                                 /\ reply'[g] = reply[g] /\ post'[g] = post[g]

\* The answer for which a handler waits: that of its POST, and then of its polls.
ConsoleAnswer(h) == IF tab_pc[h] = "polling" THEN reply[h] ELSE post[h]

\* A handler ends, with a failure or with the run that its answer shows.
ConsoleEnded(h) ==
    /\ tab_pc'[h] = "idle" /\ reply'[h] = Console!Nothing /\ post'[h] = Console!Nothing
    /\ \/ UNCHANGED <<shown, pending>>
       \/ /\ ConsoleAnswer(h) \in Console!Snapshots \ {Console!NoRun}
          /\ shown' = ConsoleAnswer(h)
          /\ pending' = IF shown'.status = "working" THEN pending
                        ELSE Console!syncPendingRunKey(shown')

\* A handler shows a run and waits for another answer.
ConsoleShows(h) ==
    /\ key'[h] = key[h] /\ reply'[h] = Console!Nothing
    /\ UNCHANGED <<pending, running, error>>
    /\ shown' \in Console!Snapshots
    /\ \/ /\ tab_pc[h] = "posting" /\ tab_pc'[h] = "posting" /\ post'[h] = post[h]
          /\ shown' = reply[h]
       \/ /\ tab_pc'[h] = "polling" /\ post'[h] = Console!Nothing
          /\ shown' = ConsoleAnswer(h) /\ shown'.status = "working"

\* Whatever a handler does with an answer, it does one of these and disturbs no other.
LEMMA ConsoleCallback ==
    ASSUME ConsoleParameters, Console!TypeOK, Console!TabInv, Console!CreatedInv,
           NEW h \in Handlers, Console!Callback(h)
    PROVE  /\ UNCHANGED <<runs, latest, strays, used, loading, loaded, tab_faults, reopened,
                          doubled, crossed>>
           /\ tab_pc[h] # "idle" /\ ConsoleOthers(h)
           /\ ConsoleEnded(h) \/ ConsoleShows(h)
           /\ Console!TypeOK'
<1> USE DEF Console!agent, Console!page, Console!clicks, Console!history
<1>0. /\ tab_pc \in [Handlers -> {"idle", "posting", "polling"}]
      /\ key \in [Handlers -> Console!AllKeys \cup {None}]
      /\ reply \in [Handlers -> Console!Snapshots \cup {Console!Nothing, Console!Failed}]
      /\ post \in [Handlers -> Console!Snapshots \cup
                      {Console!Nothing, Console!Sent, Console!Arrived, Console!Failed}]
      /\ polls \in [Handlers -> 0 .. MaxPolls] /\ shown \in Console!Snapshots
      /\ pending \in Console!AllKeys \cup {None} /\ error \in BOOLEAN
  BY DEF Console!TypeOK
<1> DEFINE Clicks == /\ tab_pc \in [Handlers -> {"idle", "posting", "polling"}]
                     /\ key \in [Handlers -> Console!AllKeys \cup {None}]
                     /\ reply \in [Handlers -> Console!Snapshots \cup
                                      {Console!Nothing, Console!Failed}]
                     /\ post \in [Handlers -> Console!Snapshots \cup
                           {Console!Nothing, Console!Sent, Console!Arrived, Console!Failed}]
                     /\ polls \in [Handlers -> 0 .. MaxPolls]
           Frame == UNCHANGED <<runs, latest, strays, used, loading, loaded, tab_faults, reopened,
                                doubled, crossed>>
<1>f. ASSUME Frame, Clicks', shown' \in Console!Snapshots,
             pending' \in Console!AllKeys \cup {None}, running' \in BOOLEAN, error' \in BOOLEAN
      PROVE  Console!TypeOK'
  BY <1>f DEF Console!TypeOK
<1>r. running \in BOOLEAN
  BY DEF Console!TypeOK
<1>s. \A r \in Console!Snapshots : Console!syncPendingRunKey(r) \in Console!AllKeys \cup {None}
  BY <1>0, ConsoleMarksApart DEF Console!syncPendingRunKey
<1>e. ASSUME NEW failed \in BOOLEAN, Console!End(h, failed)
      PROVE  /\ Clicks' /\ ConsoleOthers(h) /\ running' \in BOOLEAN /\ error' \in BOOLEAN
             /\ tab_pc'[h] = "idle" /\ reply'[h] = Console!Nothing /\ post'[h] = Console!Nothing
  <2>1. running' \in BOOLEAN /\ error' \in BOOLEAN
    BY <1>e, <1>0 DEF Console!End
  <2>2. polls' \in [Handlers -> 0 .. MaxPolls]
    BY <1>e, <1>0 DEF Console!End, ConsoleParameters
  <2> QED BY <1>e, <1>0, <2>1, <2>2 DEF Console!End, ConsoleOthers
<1>c. ASSUME NEW n \in Nat, n < MaxPolls, Console!Continue(h, n)
      PROVE  /\ Clicks' /\ ConsoleOthers(h) /\ UNCHANGED <<pending, running, error>>
             /\ tab_pc'[h] = "polling" /\ reply'[h] = Console!Nothing
             /\ post'[h] = Console!Nothing /\ key'[h] = key[h]
  <2>1. polls' \in [Handlers -> 0 .. MaxPolls]
    BY <1>c, <1>0 DEF Console!Continue, ConsoleParameters
  <2> QED BY <1>c, <1>0, <2>1 DEF Console!Continue, ConsoleOthers
<1>a. ASSUME NEW n \in Nat, ConsoleAnswer(h) \in Console!Snapshots \ {Console!NoRun},
             Console!Accept(h, ConsoleAnswer(h), n), Frame
      PROVE  ConsoleOthers(h) /\ (ConsoleEnded(h) \/ ConsoleShows(h)) /\ Console!TypeOK'
  <2>1. shown' = ConsoleAnswer(h) /\ shown' \in Console!Snapshots
    BY <1>a DEF Console!Accept
  <2>2. CASE shown'.status # "working" /\ pending' = Console!syncPendingRunKey(shown')
             /\ Console!End(h, FALSE)
    BY <1>a, <1>f, <1>e, <1>s, <2>1, <2>2 DEF ConsoleEnded
  <2>3. CASE shown'.status = "working" /\ n < MaxPolls /\ Console!Continue(h, n)
    BY <1>a, <1>f, <1>c, <1>0, <1>r, <2>1, <2>3 DEF ConsoleShows
  <2>4. CASE shown'.status = "working" /\ Console!End(h, TRUE) /\ pending' = pending
    BY <1>a, <1>f, <1>e, <1>0, <2>1, <2>4 DEF ConsoleEnded
  <2> QED BY <1>a, <2>1, <2>2, <2>3, <2>4 DEF Console!Accept
<1>1. CASE Console!BootstrapPoll(h)
  <2>1. reply[h] \in Console!Snapshots
    BY <1>1 DEF Console!BootstrapPoll, Console!TabInv
  <2>2. ConsoleOthers(h) /\ ConsoleShows(h) /\ Clicks' /\ Frame
    BY <1>0, <1>1, <2>1 DEF Console!BootstrapPoll, ConsoleOthers, ConsoleShows
  <2> QED BY <1>0, <1>1, <1>f, <1>r, <2>1, <2>2 DEF Console!BootstrapPoll
<1>2. CASE Console!PostSettled(h)
  <2>1. Frame /\ tab_pc[h] = "posting" /\ ConsoleAnswer(h) = post[h]
    BY <1>2 DEF Console!PostSettled, ConsoleAnswer
  <2>2. CASE post[h] = Console!Failed /\ Console!End(h, TRUE) /\ UNCHANGED <<shown, pending>>
    BY <1>0, <1>e, <1>f, <2>1, <2>2 DEF ConsoleEnded
  <2>3. CASE post[h] # Console!Failed /\ Console!Accept(h, post[h], 0)
    <3>1. Console!Answered(h) /\ post[h] \in Console!Snapshots
      BY <1>0, <1>2, <2>1, <2>3 DEF Console!PostSettled, Console!TabInv, Console!Answered
    <3>2. post[h] # Console!NoRun
      BY <3>1, ConsoleMarksApart DEF Console!CreatedInv
    <3> QED BY <1>a, <2>1, <2>3, <3>1, <3>2
  <2> QED BY <1>2, <2>1, <2>2, <2>3 DEF Console!PostSettled
<1>3. CASE Console!LivePoll(h)
  <2>1. Frame /\ tab_pc[h] = "polling" /\ ConsoleAnswer(h) = reply[h]
    BY <1>3 DEF Console!LivePoll, ConsoleAnswer
  <2>2. CASE Console!End(h, TRUE) /\ UNCHANGED <<shown, pending>>
    BY <1>0, <1>e, <1>f, <2>1, <2>2 DEF ConsoleEnded
  <2>3. CASE /\ reply[h] \notin {Console!Failed, Console!NoRun}
             /\ Console!Accept(h, reply[h], polls[h] + 1)
    <3>1. reply[h] \in Console!Snapshots \ {Console!NoRun}
      BY <1>0, <1>3, <2>3 DEF Console!LivePoll
    <3>2. polls[h] + 1 \in Nat
      BY <1>0
    <3> QED BY <1>a, <2>1, <2>3, <3>1, <3>2
  <2> QED BY <1>3, <2>1, <2>2, <2>3 DEF Console!LivePoll
<1> QED BY <1>1, <1>2, <1>3 DEF Console!Callback

\* Every step of the tab, of its requests and of the agent keeps the types.
LEMMA ConsoleTypes ==
    ASSUME ConsoleParameters, Console!TypeOK, Console!TabInv, Console!CreatedInv, Console!Next
    PROVE  Console!TypeOK'
<1> USE DEF Console!agent, Console!page, Console!clicks, Console!history
<1>f. Console!Fault => tab_faults' \in 0 .. MaxFaults
  BY DEF Console!Fault, Console!TypeOK, ConsoleParameters
<1>k. ASSUME NEW h \in Handlers, post[h] \in {Console!Sent, Console!Arrived}
      PROVE  key[h] \in Console!AllKeys
  BY <1>k, ConsoleMarksApart DEF Console!TabInv
<1>l. Console!Latest \in Console!Snapshots
  BY ConsoleLatest
<1>1. ASSUME NEW k \in Console!AllKeys, Console!Work(k) PROVE Console!TypeOK'
  BY <1>1 DEF Console!Work, Console!Statuses, Console!TypeOK
<1>2. ASSUME NEW k \in Console!AllKeys, Console!Reopen(k) PROVE Console!TypeOK'
  BY <1>2, <1>f DEF Console!Reopen, Console!Statuses, Console!TypeOK
<1>3. ASSUME NEW k \in Console!AllKeys, Console!StartElsewhere(k) PROVE Console!TypeOK'
  BY <1>3, <1>f, ConsoleCreates DEF Console!StartElsewhere, Console!TypeOK
<1>4. ASSUME NEW k \in Console!AllKeys, Console!StrayArrives(k) PROVE Console!TypeOK'
  BY <1>4, ConsoleCreates DEF Console!StrayArrives, Console!TypeOK
<1>5. ASSUME NEW h \in Handlers, NEW k \in Console!AllKeys, Console!Click(h, k)
      PROVE  Console!TypeOK'
  <2>1. used' \subseteq Keys
    BY <1>5 DEF Console!Click, Console!TypeOK
  <2>2. running' \in BOOLEAN /\ error' \in BOOLEAN
    BY <1>5 DEF Console!Click
  <2>3. doubled' \in BOOLEAN /\ crossed' \in BOOLEAN
    BY <1>5 DEF Console!Click
  <2>4. /\ tab_pc' \in [Handlers -> {"idle", "posting", "polling"}]
        /\ key' \in [Handlers -> Console!AllKeys \cup {None}]
        /\ post' \in [Handlers -> Console!Snapshots \cup
                         {Console!Nothing, Console!Sent, Console!Arrived, Console!Failed}]
    BY <1>5 DEF Console!Click, Console!TypeOK
  <2> QED BY <1>5, <2>1, <2>2, <2>3, <2>4 DEF Console!Click, Console!TypeOK
<1>6. ASSUME NEW h \in Handlers, Console!PostArrives(h) PROVE Console!TypeOK'
  BY <1>6, <1>k, ConsoleCreates DEF Console!PostArrives, Console!TypeOK
<1>7. ASSUME NEW h \in Handlers, Console!PostAnswered(h) PROVE Console!TypeOK'
  BY <1>7, <1>k, ConsoleSnapshot DEF Console!PostAnswered, Console!TypeOK
<1>8. ASSUME NEW h \in Handlers, Console!PostFails(h) PROVE Console!TypeOK'
  BY <1>8, <1>k, <1>f DEF Console!PostFails, Console!TypeOK
<1>9. ASSUME NEW h \in Handlers, Console!FetchInterim(h) \/ Console!FetchLatest(h)
      PROVE  Console!TypeOK'
  BY <1>9, <1>f, <1>l DEF Console!FetchInterim, Console!FetchLatest, Console!TypeOK
<1>10. ASSUME NEW h \in Handlers, Console!Callback(h) PROVE Console!TypeOK'
  BY <1>10, ConsoleCallback
<1>11. CASE Console!FetchLoad
  BY <1>11, <1>f, <1>l DEF Console!FetchLoad, Console!TypeOK
<1>12. CASE Console!Load
  <2>1. loaded \in Console!Snapshots =>
           Console!syncPendingRunKey(loaded) \in Console!AllKeys \cup {None}
    BY ConsoleMarksApart DEF Console!syncPendingRunKey, Console!TypeOK
  <2>2. error' \in BOOLEAN /\ loading' \in BOOLEAN
    BY <1>12 DEF Console!Load, Console!TypeOK
  <2> QED BY <1>12, <2>1, <2>2 DEF Console!Load, Console!TypeOK
<1>13. CASE Console!RetryLoad
  BY <1>13 DEF Console!RetryLoad, Console!TypeOK
<1>14. CASE Console!Reload
  <2>1. strays' \subseteq Console!AllKeys
    BY <1>14, <1>k DEF Console!Reload, Console!TypeOK
  <2>2. error' \in BOOLEAN /\ running' \in BOOLEAN /\ loading' \in BOOLEAN
    BY <1>14 DEF Console!Reload
  <2>3. polls' \in [Handlers -> 0 .. MaxPolls]
    BY <1>14 DEF Console!Reload, Console!All, ConsoleParameters
  <2> QED BY <1>14, <1>f, <2>1, <2>2, <2>3, ConsoleMarksApart
             DEF Console!Reload, Console!All, Console!TypeOK
<1> QED BY <1>1, <1>2, <1>3, <1>4, <1>5, <1>6, <1>7, <1>8, <1>9, <1>10, <1>11, <1>12, <1>13,
           <1>14 DEF Console!Next

\* A created run stays created, and over unless it is written again; nothing makes the tab
\* the only caller again, and a second click that was made stays made.
LEMMA ConsoleMonotone ==
    ASSUME ConsoleParameters, Console!TypeOK, Console!TabInv, Console!CreatedInv, Console!Next
    PROVE  /\ \A k \in Console!AllKeys : runs[k] # "absent" => runs'[k] # "absent"
           /\ ~reopened' =>
                 ~reopened /\ \A k \in Console!AllKeys : runs[k] = "over" => runs'[k] = "over"
           /\ ~crossed' => ~crossed
           /\ ~doubled' => ~doubled
           /\ Console!Quiet' => Console!Quiet
<1> USE DEF Console!agent, Console!page, Console!clicks, Console!history
<1> DEFINE Kept == \A k \in Console!AllKeys : runs[k] # "absent" => runs'[k] # "absent"
           Over == \A k \in Console!AllKeys : runs[k] = "over" => runs'[k] = "over"
           Histories == /\ ~reopened' => ~reopened /\ Over
                        /\ ~crossed' => ~crossed
                        /\ ~doubled' => ~doubled
<1>k. ASSUME NEW h \in Handlers, post[h] = Console!Sent PROVE key[h] \in Console!AllKeys
  BY <1>k, ConsoleMarksApart DEF Console!TabInv
<1>q. ASSUME Kept, Histories PROVE Console!Quiet' => Console!Quiet
  BY <1>q DEF Console!Quiet, Console!Alone, Console!AllKeys
<1>1. ASSUME NEW k \in Console!AllKeys, Console!Work(k) PROVE Kept /\ Histories
  BY <1>1 DEF Console!Work, Console!TypeOK
<1>2. ASSUME NEW k \in Console!AllKeys, Console!Reopen(k) PROVE Kept /\ Histories
  BY <1>2 DEF Console!Reopen, Console!TypeOK
<1>3. ASSUME NEW k \in Console!AllKeys, Console!StartElsewhere(k) \/ Console!StrayArrives(k)
      PROVE  Kept /\ Histories
  BY <1>3, ConsoleCreates DEF Console!StartElsewhere, Console!StrayArrives
<1>4. ASSUME NEW h \in Handlers, Console!PostArrives(h) PROVE Kept /\ Histories
  BY <1>4, <1>k, ConsoleCreates DEF Console!PostArrives
<1>5. ASSUME NEW h \in Handlers, NEW k \in Console!AllKeys, Console!Click(h, k)
      PROVE  Kept /\ Histories
  BY <1>5, Zenon DEF Console!Click
<1>6. ASSUME UNCHANGED <<runs, reopened, crossed, doubled>> PROVE Kept /\ Histories
  BY <1>6
<1>7. ASSUME NEW h \in Handlers,
             \/ Console!PostAnswered(h) \/ Console!PostFails(h)
             \/ Console!FetchInterim(h) \/ Console!FetchLatest(h)
      PROVE  Kept /\ Histories
  BY <1>7, <1>6 DEF Console!PostAnswered, Console!PostFails, Console!FetchInterim,
                    Console!FetchLatest
<1>8. ASSUME NEW h \in Handlers, Console!Callback(h) PROVE Kept /\ Histories
  BY <1>8, <1>6, ConsoleCallback
<1>9. ASSUME Console!FetchLoad \/ Console!Load \/ Console!RetryLoad \/ Console!Reload
      PROVE  Kept /\ Histories
  <2>1. UNCHANGED <<runs, reopened, crossed, doubled>>
    BY <1>9 DEF Console!FetchLoad, Console!Load, Console!RetryLoad, Console!Reload
  <2> QED BY <2>1, <1>6
<1>10. Kept /\ Histories
  BY <1>1, <1>2, <1>3, <1>4, <1>5, <1>7, <1>8, <1>9 DEF Console!Next
<1> QED BY <1>10, <1>q

\* A request is open only in the state that waits for it.
LEMMA ConsoleRequests ==
    ASSUME ConsoleParameters, Console!TypeOK, Console!TabInv, Console!CreatedInv, Console!Next
    PROVE  Console!TabInv'
<1> USE DEF Console!agent, Console!page, Console!clicks, Console!history
<1>0. /\ tab_pc \in [Handlers -> {"idle", "posting", "polling"}]
      /\ key \in [Handlers -> Console!AllKeys \cup {None}]
      /\ reply \in [Handlers -> Console!Snapshots \cup {Console!Nothing, Console!Failed}]
      /\ post \in [Handlers -> Console!Snapshots \cup
                      {Console!Nothing, Console!Sent, Console!Arrived, Console!Failed}]
  BY DEF Console!TypeOK
<1>1. ASSUME NEW k \in Console!AllKeys, Console!Work(k) \/ Console!Reopen(k)
             \/ Console!StartElsewhere(k) \/ Console!StrayArrives(k)
      PROVE  Console!TabInv'
  BY <1>1 DEF Console!Work, Console!Reopen, Console!StartElsewhere, Console!StrayArrives,
              Console!TabInv
<1>2. ASSUME NEW h \in Handlers, NEW k \in Console!AllKeys, Console!Click(h, k)
      PROVE  Console!TabInv'
  BY <1>0, <1>2, ConsoleMarksApart DEF Console!Click, Console!TabInv
<1>3. ASSUME NEW h \in Handlers, Console!PostArrives(h) \/ Console!PostFails(h)
      PROVE  Console!TabInv'
  BY <1>0, <1>3, ConsoleMarksApart DEF Console!PostArrives, Console!PostFails, Console!TabInv
<1>4. ASSUME NEW h \in Handlers, Console!PostAnswered(h) PROVE Console!TabInv'
  <2>1. tab_pc[h] = "posting" /\ key[h] \in Console!AllKeys
    BY <1>4, ConsoleMarksApart DEF Console!PostAnswered, Console!TabInv
  <2>2. Console!Snapshot(key[h]) # Console!Nothing
    BY <2>1, ConsoleSnapshot, ConsoleMarksApart DEF ConsoleMarks, Console!TypeOK
  <2> QED BY <1>0, <1>4, <2>1, <2>2 DEF Console!PostAnswered, Console!TabInv
<1>5. ASSUME NEW h \in Handlers, Console!FetchInterim(h) \/ Console!FetchLatest(h)
      PROVE  Console!TabInv'
  BY <1>0, <1>5, ConsoleLatest
     DEF Console!FetchInterim, Console!FetchLatest, Console!TabInv
<1>6. ASSUME NEW h \in Handlers, Console!Callback(h) PROVE Console!TabInv'
  <2>1. /\ UNCHANGED <<loading, loaded>> /\ ConsoleOthers(h)
        /\ ConsoleEnded(h) \/ ConsoleShows(h)
        /\ tab_pc[h] # "idle"
    BY <1>6, ConsoleCallback
  <2>2. ASSUME NEW g \in Handlers, g # h
        PROVE  /\ tab_pc'[g] = tab_pc[g] /\ key'[g] = key[g]
               /\ reply'[g] = reply[g] /\ post'[g] = post[g]
    BY <2>1, <2>2 DEF ConsoleOthers
  <2>3. CASE ConsoleEnded(h)
    BY <2>1, <2>2, <2>3 DEF ConsoleEnded, Console!TabInv
  <2>4. CASE ConsoleShows(h)
    BY <2>1, <2>2, <2>4 DEF ConsoleShows, Console!TabInv
  <2> QED BY <2>1, <2>3, <2>4
<1>7. CASE Console!FetchLoad
  BY <1>7 DEF Console!FetchLoad, Console!TabInv
<1>8. CASE Console!Load
  BY <1>8 DEF Console!Load, Console!TabInv
<1>9. CASE Console!RetryLoad
  BY <1>9 DEF Console!RetryLoad, Console!TabInv
<1>10. CASE Console!Reload
  BY <1>10 DEF Console!Reload, Console!All, Console!TabInv
<1> QED BY <1>1, <1>2, <1>3, <1>4, <1>5, <1>6, <1>7, <1>8, <1>9, <1>10 DEF Console!Next

\* Requests return created runs only.
LEMMA ConsoleCreated ==
    ASSUME ConsoleParameters, Console!TypeOK, Console!TabInv, Console!CreatedInv, Console!Next
    PROVE  Console!CreatedInv'
<1> USE DEF Console!agent, Console!page, Console!clicks, Console!history
<1>0. /\ tab_pc \in [Handlers -> {"idle", "posting", "polling"}]
      /\ key \in [Handlers -> Console!AllKeys \cup {None}]
      /\ reply \in [Handlers -> Console!Snapshots \cup {Console!Nothing, Console!Failed}]
      /\ post \in [Handlers -> Console!Snapshots \cup
                      {Console!Nothing, Console!Sent, Console!Arrived, Console!Failed}]
  BY DEF Console!TypeOK
<1>k. ASSUME NEW h \in Handlers, post[h] \in {Console!Sent, Console!Arrived}
      PROVE  key[h] \in Console!AllKeys
  BY <1>k, ConsoleMarksApart DEF Console!TabInv
<1>m. \A k \in Console!AllKeys : runs[k] # "absent" => runs'[k] # "absent"
  BY ConsoleMonotone
<1>n. \A r \in ConsoleMarks : r.key = None
  BY ConsoleMarksApart
<1>l. Console!Latest.key # None => Console!Latest.status # "absent"
  BY ConsoleLatest DEF Console!CreatedInv
<1> DEFINE Last == latest # None => runs[latest] # "absent"
           Read == loaded.key # None => loaded.status # "absent"
           Of(h) == /\ reply[h].key # None => reply[h].status # "absent"
                    /\ post[h] = Console!Arrived => runs[key[h]] # "absent"
                    /\ Console!Answered(h) =>
                          post[h].key = key[h] /\ post[h].status # "absent"
<1>c. Last /\ Read /\ \A h \in Handlers : Of(h)
  BY DEF Console!CreatedInv
<1>d. (Last /\ Read /\ \A h \in Handlers : Of(h))' => Console!CreatedInv'
  BY DEF Console!CreatedInv
<1>o. ASSUME latest' = latest PROVE Last'
  BY <1>o, <1>c, <1>m DEF Console!TypeOK
<1>p. ASSUME NEW h \in Handlers, key'[h] = key[h], reply'[h] = reply[h], post'[h] = post[h]
      PROVE  Of(h)'
  BY <1>p, <1>c, <1>m, <1>k DEF Console!Answered
<1>1. ASSUME NEW k \in Console!AllKeys, Console!Work(k) \/ Console!Reopen(k)
      PROVE  Console!CreatedInv'
  BY <1>1, <1>c, <1>d, <1>o, <1>p DEF Console!Work, Console!Reopen
<1>2. ASSUME NEW k \in Console!AllKeys, Console!StartElsewhere(k) \/ Console!StrayArrives(k)
      PROVE  Console!CreatedInv'
  <2>1. Console!CreateRun(k) /\ UNCHANGED <<loaded, key, reply, post>>
    BY <1>2 DEF Console!StartElsewhere, Console!StrayArrives
  <2>2. Last'
    BY <2>1, <1>o, ConsoleCreates
  <2> QED BY <2>1, <2>2, <1>c, <1>d, <1>p
<1>3. ASSUME NEW h \in Handlers, NEW k \in Console!AllKeys, Console!Click(h, k)
      PROVE  Console!CreatedInv'
  <2>1. /\ UNCHANGED <<latest, loaded, reply>> /\ post'[h] = Console!Sent
        /\ \A g \in Handlers : g # h => key'[g] = key[g] /\ post'[g] = post[g]
    BY <1>0, <1>3 DEF Console!Click
  <2>2. Of(h)'
    BY <2>1, <1>c, ConsoleMarksApart DEF Console!Answered
  <2> QED BY <2>1, <2>2, <1>c, <1>d, <1>o, <1>p
<1>4. ASSUME NEW h \in Handlers, Console!PostArrives(h) PROVE Console!CreatedInv'
  <2>1. /\ UNCHANGED <<loaded, reply, key>> /\ post'[h] = Console!Arrived
        /\ \A g \in Handlers : g # h => post'[g] = post[g]
        /\ Console!CreateRun(key[h]) /\ key[h] \in Console!AllKeys
    BY <1>0, <1>4, <1>k DEF Console!PostArrives
  <2>2. Of(h)'
    BY <2>1, <1>c, ConsoleCreates DEF Console!Answered
  <2>3. Last'
    BY <2>1, <1>o, ConsoleCreates
  <2> QED BY <2>1, <2>2, <2>3, <1>c, <1>d, <1>p
<1>5. ASSUME NEW h \in Handlers, Console!PostAnswered(h) PROVE Console!CreatedInv'
  <2>1. /\ UNCHANGED <<latest, loaded, reply, key>> /\ post'[h] = Console!Snapshot(key[h])
        /\ \A g \in Handlers : g # h => post'[g] = post[g]
        /\ key[h] \in Console!AllKeys /\ runs[key[h]] # "absent"
    BY <1>0, <1>5, <1>k, <1>c DEF Console!PostAnswered
  <2>2. post'[h].key = key[h] /\ post'[h].status # "absent" /\ post'[h] \in Console!Snapshots
    BY <2>1, ConsoleSnapshot DEF Console!TypeOK
  <2>3. post'[h] # Console!Arrived
    BY <2>2, ConsoleMarksApart DEF ConsoleMarks
  <2>4. Of(h)'
    BY <2>1, <2>2, <2>3, <1>c
  <2> QED BY <2>1, <2>4, <1>c, <1>d, <1>o, <1>p
<1>6. ASSUME NEW h \in Handlers, Console!PostFails(h) PROVE Console!CreatedInv'
  <2>1. /\ UNCHANGED <<latest, loaded, reply, key>> /\ post'[h] = Console!Failed
        /\ \A g \in Handlers : g # h => post'[g] = post[g]
    BY <1>0, <1>6 DEF Console!PostFails
  <2>2. Of(h)'
    BY <2>1, <1>c, ConsoleMarksApart DEF Console!Answered
  <2> QED BY <2>1, <2>2, <1>c, <1>d, <1>o, <1>p
<1>7. ASSUME NEW h \in Handlers, Console!FetchInterim(h) \/ Console!FetchLatest(h)
      PROVE  Console!CreatedInv'
  <2>1. /\ UNCHANGED <<latest, runs, loaded, post, key>>
        /\ reply'[h] \in {Console!Latest, Console!Failed}
        /\ \A g \in Handlers : g # h => reply'[g] = reply[g]
    BY <1>0, <1>7 DEF Console!FetchInterim, Console!FetchLatest
  <2>2. Of(h)'
    BY <2>1, <1>c, <1>l, <1>n DEF Console!Answered, ConsoleMarks
  <2> QED BY <2>1, <2>2, <1>c, <1>d, <1>o, <1>p
<1>8. ASSUME NEW h \in Handlers, Console!Callback(h) PROVE Console!CreatedInv'
  <2>1. /\ UNCHANGED <<runs, latest, loaded>> /\ ConsoleOthers(h)
        /\ ConsoleEnded(h) \/ ConsoleShows(h)
    BY <1>8, ConsoleCallback
  <2>2. /\ reply'[h] = Console!Nothing
        /\ post'[h] = Console!Nothing \/ (post'[h] = post[h] /\ key'[h] = key[h])
    BY <2>1 DEF ConsoleEnded, ConsoleShows
  <2>3. Of(h)'
    BY <2>1, <2>2, <1>c, <1>n, ConsoleMarksApart DEF Console!Answered, ConsoleMarks
  <2> QED BY <2>1, <2>3, <1>c, <1>d, <1>o, <1>p DEF ConsoleOthers
<1>9. CASE Console!FetchLoad \/ Console!Load
  <2>1. UNCHANGED <<latest, reply, post, key>>
        /\ loaded' \in {Console!Latest, Console!Failed, Console!Nothing}
    BY <1>9 DEF Console!FetchLoad, Console!Load
  <2>2. Read'
    BY <2>1, <1>l, <1>n DEF ConsoleMarks
  <2> QED BY <2>1, <2>2, <1>d, <1>o, <1>p
<1>10. CASE Console!RetryLoad
  BY <1>10, <1>c, <1>d, <1>o, <1>p DEF Console!RetryLoad
<1>11. CASE Console!Reload
  <2>1. /\ latest' = latest /\ loaded' = Console!Nothing
        /\ \A h \in Handlers : reply'[h] = Console!Nothing /\ post'[h] = Console!Nothing
    BY <1>11 DEF Console!Reload, Console!All
  <2>2. Read' /\ \A h \in Handlers : Of(h)'
    BY <2>1, <1>n, ConsoleMarksApart DEF Console!Answered, ConsoleMarks
  <2> QED BY <2>1, <2>2, <1>d, <1>o
<1> QED BY <1>1, <1>2, <1>3, <1>4, <1>5, <1>6, <1>7, <1>8, <1>9, <1>10, <1>11 DEF Console!Next

\* A late answer that says that a run is over is right, unless the run was written again.
LEMMA ConsoleOver ==
    ASSUME ConsoleParameters, Console!TypeOK, Console!TabInv, Console!CreatedInv,
           Console!OverInv, Console!Next
    PROVE  Console!OverInv'
<1> USE DEF Console!agent, Console!page, Console!clicks, Console!history
<1>0. /\ reply \in [Handlers -> Console!Snapshots \cup {Console!Nothing, Console!Failed}]
      /\ post \in [Handlers -> Console!Snapshots \cup
                      {Console!Nothing, Console!Sent, Console!Arrived, Console!Failed}]
      /\ loaded \in Console!Snapshots \cup {Console!Nothing, Console!Failed}
  BY DEF Console!TypeOK
<1> SUFFICES ASSUME ~reopened'
             PROVE  /\ Console!StaysOver(loaded)'
                    /\ \A h \in Handlers : Console!StaysOver(reply[h])' /\ Console!StaysOver(post[h])'
  BY DEF Console!OverInv
<1>1. ~reopened /\ \A k \in Console!AllKeys : runs[k] = "over" => runs'[k] = "over"
  BY ConsoleMonotone
<1>2. /\ Console!StaysOver(loaded)
      /\ \A h \in Handlers : Console!StaysOver(reply[h]) /\ Console!StaysOver(post[h])
  BY <1>1 DEF Console!OverInv
<1>3. \A r \in ConsoleMarks : r.status # "over"
  BY ConsoleMarksApart DEF Console!Statuses
<1>4. \A r \in Console!Snapshots \cup ConsoleMarks :
         Console!StaysOver(r) => (r.status = "over" => runs'[r.key] = "over")
  BY <1>1, <1>3, ConsoleMarksApart DEF Console!StaysOver, Console!Statuses
<1> DEFINE Fine(r) == r.status = "over" => runs'[r.key] = "over"
<1>5. /\ Fine(loaded) /\ \A h \in Handlers : Fine(reply[h]) /\ Fine(post[h])
  BY <1>0, <1>2, <1>4 DEF ConsoleMarks
<1>6. \A r \in ConsoleMarks : Fine(r)
  BY <1>3
<1>7. Fine(Console!Latest)
  BY <1>1, <1>4, ConsoleLatest, ConsoleMarksApart DEF Console!StaysOver
<1>8. ASSUME loaded' \in {loaded, Console!Latest} \cup ConsoleMarks,
             \A h \in Handlers : /\ reply'[h] \in {reply[h], Console!Latest} \cup ConsoleMarks
                                 /\ Fine(post'[h])
      PROVE  /\ Console!StaysOver(loaded)'
             /\ \A h \in Handlers : Console!StaysOver(reply[h])' /\ Console!StaysOver(post[h])'
  BY <1>8, <1>5, <1>6, <1>7 DEF Console!StaysOver
<1>9. ASSUME NEW k \in Console!AllKeys, Console!Work(k) \/ Console!Reopen(k)
             \/ Console!StartElsewhere(k) \/ Console!StrayArrives(k)
      PROVE  UNCHANGED <<loaded, reply, post>>
  BY <1>9 DEF Console!Work, Console!Reopen, Console!StartElsewhere, Console!StrayArrives
<1>10. ASSUME NEW h \in Handlers,
              \/ \E k \in Console!AllKeys : Console!Click(h, k)
              \/ Console!PostArrives(h) \/ Console!PostFails(h)
       PROVE  /\ UNCHANGED <<loaded, reply>>
              /\ \A g \in Handlers : post'[g] \in {post[g]} \cup ConsoleMarks
  BY <1>0, <1>10 DEF Console!Click, Console!PostArrives, Console!PostFails, ConsoleMarks
<1>11. ASSUME NEW h \in Handlers, Console!PostAnswered(h)
       PROVE  UNCHANGED <<loaded, reply>> /\ \A g \in Handlers : Fine(post'[g])
  <2>1. key[h] \in Console!AllKeys
    BY <1>11, ConsoleMarksApart DEF Console!PostAnswered, Console!TabInv
  <2>2. Fine(Console!Snapshot(key[h]))
    BY <1>1, <2>1, ConsoleSnapshot DEF Console!TypeOK
  <2>3. /\ UNCHANGED <<loaded, reply>> /\ post'[h] = Console!Snapshot(key[h])
        /\ \A g \in Handlers : g # h => post'[g] = post[g]
    BY <1>0, <1>11 DEF Console!PostAnswered
  <2> QED BY <2>2, <2>3, <1>5
<1>12. ASSUME NEW h \in Handlers, Console!FetchInterim(h) \/ Console!FetchLatest(h)
       PROVE  /\ UNCHANGED <<loaded, post>>
              /\ \A g \in Handlers : reply'[g] \in {reply[g], Console!Latest} \cup ConsoleMarks
  BY <1>0, <1>12 DEF Console!FetchInterim, Console!FetchLatest, ConsoleMarks
<1>13. ASSUME NEW h \in Handlers, Console!Callback(h)
       PROVE  /\ UNCHANGED loaded
              /\ \A g \in Handlers : /\ reply'[g] \in {reply[g]} \cup ConsoleMarks
                                     /\ post'[g] \in {post[g]} \cup ConsoleMarks
  <2>1. loaded' = loaded /\ ConsoleOthers(h) /\ (ConsoleEnded(h) \/ ConsoleShows(h))
    BY <1>13, ConsoleCallback
  <2> QED BY <2>1 DEF ConsoleOthers, ConsoleEnded, ConsoleShows, ConsoleMarks
<1>14. CASE Console!FetchLoad \/ Console!Load \/ Console!RetryLoad
  <2>1. /\ UNCHANGED <<reply, post>>
        /\ loaded' \in {loaded, Console!Latest} \cup ConsoleMarks
    BY <1>14 DEF Console!FetchLoad, Console!Load, Console!RetryLoad, ConsoleMarks
  <2> QED BY <2>1, <1>5, <1>8
<1>15. CASE Console!Reload
  <2>1. /\ loaded' \in ConsoleMarks
        /\ \A h \in Handlers : reply'[h] \in ConsoleMarks /\ post'[h] \in ConsoleMarks
    BY <1>15 DEF Console!Reload, Console!All, ConsoleMarks
  <2> QED BY <2>1, <1>6, <1>8
<1> QED BY <1>5, <1>6, <1>8, <1>9, <1>10, <1>11, <1>12, <1>13, <1>14, <1>15 DEF Console!Next

\* Whatever handler runs, the key of the one unfinished run stays pending: syncPendingRunKey
\* drops a key only for a run that is over, and a click reuses the pending key.
LEMMA ConsolePending ==
    ASSUME ConsoleParameters, Console!ConsoleInv, Console!Next
    PROVE  Console!PendingInv'
<1> USE DEF Console!agent, Console!page, Console!clicks, Console!history
<1>0. /\ Console!TypeOK /\ Console!TabInv /\ Console!CreatedInv
      /\ Console!OverInv /\ Console!PendingInv
  BY DEF Console!ConsoleInv
<1>t. /\ tab_pc \in [Handlers -> {"idle", "posting", "polling"}]
      /\ key \in [Handlers -> Console!AllKeys \cup {None}]
      /\ reply \in [Handlers -> Console!Snapshots \cup {Console!Nothing, Console!Failed}]
      /\ post \in [Handlers -> Console!Snapshots \cup
                      {Console!Nothing, Console!Sent, Console!Arrived, Console!Failed}]
      /\ loaded \in Console!Snapshots \cup {Console!Nothing, Console!Failed}
  BY <1>0 DEF Console!TypeOK
<1> DEFINE AllLive == \A k \in Console!AllKeys : Console!Live(k) => pending = k
           Read == Console!Unsettled(loaded) => pending \in {None, loaded.key}
           Of(h) == tab_pc[h] # "idle" =>
                      /\ pending \in {None, key[h]}
                      /\ \A g \in Handlers : tab_pc[g] # "idle" => key[g] = key[h]
                      /\ Console!Unsettled(loaded) => loaded.key = key[h]
                      /\ Console!Unsettled(reply[h]) => reply[h].key = key[h]
           Fewer == \A j \in Console!AllKeys : Console!Live(j)' => Console!Live(j)
<1> SUFFICES ASSUME Console!Quiet' PROVE AllLive' /\ Read' /\ \A h \in Handlers : Of(h)'
  BY DEF Console!PendingInv
<1>q. Console!Quiet
  BY <1>0, ConsoleMonotone
<1>p. AllLive /\ Read /\ \A h \in Handlers : Of(h)
  BY <1>0, <1>q DEF Console!PendingInv
<1>k. None \notin Console!AllKeys
  BY DEF ConsoleParameters, Console!AllKeys
<1>r. ~reopened /\ ~reopened' /\ ~crossed'
  BY <1>q DEF Console!Quiet
<1>s. \A r \in ConsoleMarks : ~Console!Unsettled(r)
  BY ConsoleMarksApart DEF Console!Statuses, Console!Unsettled
<1>l. Console!Unsettled(Console!Latest) => pending = latest /\ latest # None
  <2> SUFFICES ASSUME Console!Unsettled(Console!Latest) PROVE pending = latest /\ latest # None
    OBVIOUS
  <2>1. latest # None
    BY <1>0, ConsoleLatest, ConsoleMarksApart DEF Console!Unsettled
  <2>2. latest \in Console!AllKeys /\ Console!Live(latest)
    BY <2>1, <1>0, ConsoleLatest DEF Console!Unsettled, Console!Live
  <2> QED BY <2>1, <2>2, <1>p
<1>a. ASSUME NEW h \in Handlers, post[h] \in {Console!Sent, Console!Arrived}
      PROVE  key[h] \in Console!AllKeys /\ tab_pc[h] # "idle"
  BY <1>a, <1>0, ConsoleMarksApart DEF Console!TabInv
\* The new pending key, when a handler or a load takes the answer r.
<1>y. ASSUME NEW r \in Console!Snapshots, Console!StaysOver(r),
             r.status = "absent" => r.key = None,
             Console!Unsettled(r) => pending \in {None, r.key}
      PROVE  /\ \A k \in Console!AllKeys : Console!Live(k) => Console!syncPendingRunKey(r) = k
             /\ Console!syncPendingRunKey(r) \in {None, pending}
                  \/ (Console!Unsettled(r) /\ Console!syncPendingRunKey(r) = r.key)
  <2>1. CASE Console!Unsettled(r)
    <3>1. Console!syncPendingRunKey(r) = r.key
      BY <2>1 DEF Console!Unsettled, Console!syncPendingRunKey
    <3> QED BY <3>1, <2>1, <1>p, <1>k, <1>y
  <2>2. CASE ~Console!Unsettled(r)
    <3>1. Console!syncPendingRunKey(r) = IF pending = r.key THEN None ELSE pending
      BY <2>2 DEF Console!Unsettled, Console!syncPendingRunKey
    <3>2. r.status \in {"absent", "over"}
      BY <2>2, ConsoleMarksApart DEF Console!Statuses, Console!Unsettled
    <3>3. ASSUME NEW k \in Console!AllKeys, Console!Live(k) PROVE r.key # k
      BY <3>2, <3>3, <1>y, <1>k DEF Console!Live, Console!StaysOver
    <3> QED BY <3>1, <3>3, <1>p
  <2> QED BY <2>1, <2>2
<1>1. ASSUME NEW k \in Console!AllKeys, Console!Work(k)
      PROVE  AllLive' /\ Read' /\ \A h \in Handlers : Of(h)'
  <2>1. Fewer
    BY <1>1, <1>0 DEF Console!Work, Console!Live, Console!TypeOK
  <2> QED BY <1>1, <2>1, <1>p DEF Console!Work, Console!Unsettled
<1>2. ASSUME NEW k \in Console!AllKeys, Console!Reopen(k) PROVE FALSE
  BY <1>2, <1>r DEF Console!Reopen
<1>3. ASSUME NEW k \in Console!AllKeys, Console!StartElsewhere(k) PROVE FALSE
  <2>1. k \in Others /\ runs'[k] # "absent"
    BY <1>3, <1>0, ConsoleCreates DEF Console!StartElsewhere
  <2> QED BY <2>1 DEF Console!Quiet, Console!Alone
<1>4. ASSUME NEW k \in Console!AllKeys, Console!StrayArrives(k)
      PROVE  AllLive' /\ Read' /\ \A h \in Handlers : Of(h)'
  <2>1. /\ UNCHANGED <<pending, loaded, tab_pc, key, reply, post>>
        /\ Console!CreateRun(k) /\ k \in strays /\ strays' \subseteq strays
    BY <1>4 DEF Console!StrayArrives
  <2>2. Fewer
    BY <2>1, <1>0, ConsoleCreates DEF Console!Live
  <2> QED BY <2>1, <2>2, <1>p DEF Console!Unsettled
<1>5. ASSUME NEW h \in Handlers, NEW k \in Console!AllKeys, Console!Click(h, k)
      PROVE  AllLive' /\ Read' /\ \A g \in Handlers : Of(g)'
  <2>1. /\ pending' = k /\ UNCHANGED <<runs, strays, loaded, reply>>
        /\ tab_pc[h] = "idle" /\ tab_pc'[h] = "posting" /\ key'[h] = k
        /\ post'[h] = Console!Sent
        /\ \A g \in Handlers : g # h => /\ tab_pc'[g] = tab_pc[g] /\ key'[g] = key[g]
                                        /\ post'[g] = post[g]
    BY <1>5, <1>t DEF Console!Click
  <2>2. ~loading /\ (pending # None => k = pending)
    BY <1>5 DEF Console!Click, Console!Ready, Console!KeyOfClick
  <2>3. pending = None => \A g \in Handlers : tab_pc[g] = "idle"
    BY <1>5, <1>r, Zenon DEF Console!Click, Console!ClickOpen
  <2>4. ASSUME NEW j \in Console!AllKeys, Console!Live(j)' PROVE j = k
    <3>1. j = k \/ Console!Live(j)
      BY <2>1, <2>4 DEF Console!Live
    <3> QED BY <3>1, <2>2, <1>p, <1>k
  <2>5. ~Console!Unsettled(loaded)
    BY <2>2, <1>0, <1>s DEF Console!TabInv, ConsoleMarks
  <2>6. reply[h] = Console!Nothing
    BY <2>1, <1>0 DEF Console!TabInv
  <2>7. \A g \in Handlers : g # h /\ tab_pc[g] # "idle" => key[g] = k
    BY <2>2, <2>3, <1>p, <1>k
  <2>8. ~Console!Unsettled(Console!Nothing)
    BY <1>s DEF ConsoleMarks
  <2>9. Read' /\ AllLive'
    BY <2>1, <2>4, <2>5 DEF Console!Unsettled
  <2>10. ASSUME NEW g \in Handlers PROVE Of(g)'
    BY <2>1, <2>5, <2>6, <2>7, <2>8, <1>p DEF Console!Unsettled
  <2> QED BY <2>9, <2>10
<1>6. ASSUME NEW h \in Handlers, Console!PostArrives(h)
      PROVE  AllLive' /\ Read' /\ \A g \in Handlers : Of(g)'
  <2>1. /\ UNCHANGED <<strays, pending, loaded, tab_pc, key, reply>> /\ post[h] = Console!Sent
        /\ post'[h] = Console!Arrived /\ \A g \in Handlers : g # h => post'[g] = post[g]
        /\ Console!CreateRun(key[h]) /\ key[h] \in Console!AllKeys
    BY <1>6, <1>t, <1>a DEF Console!PostArrives
  <2>2. Fewer
    BY <2>1, <1>0, ConsoleCreates, ConsoleMarksApart DEF Console!Live
  <2> QED BY <2>1, <2>2, <1>p DEF Console!Unsettled
<1>7. ASSUME NEW h \in Handlers, Console!PostAnswered(h) \/ Console!PostFails(h)
      PROVE  AllLive' /\ Read' /\ \A g \in Handlers : Of(g)'
  <2>1. post[h] \in {Console!Sent, Console!Arrived}
    BY <1>7 DEF Console!PostAnswered, Console!PostFails
  <2>2. Console!Snapshot(key[h]) # Console!Sent
    BY <2>1, <1>0, <1>a, ConsoleSnapshot, ConsoleMarksApart DEF Console!TypeOK, ConsoleMarks
  <2>3. /\ UNCHANGED <<runs, pending, loaded, tab_pc, key, reply>>
        /\ post'[h] # Console!Sent /\ \A g \in Handlers : g # h => post'[g] = post[g]
        /\ strays' \subseteq strays \cup (IF post[h] = Console!Sent THEN {key[h]} ELSE {})
    BY <1>7, <1>t, <2>2, ConsoleMarksApart DEF Console!PostAnswered, Console!PostFails
  <2>4. Fewer
    BY <2>3 DEF Console!Live
  <2> QED BY <2>3, <2>4, <1>p DEF Console!Unsettled
<1>8. ASSUME NEW h \in Handlers, Console!FetchInterim(h) \/ Console!FetchLatest(h)
      PROVE  AllLive' /\ Read' /\ \A g \in Handlers : Of(g)'
  <2>1. /\ UNCHANGED <<runs, strays, pending, loaded, tab_pc, key, post>>
        /\ reply'[h] \in {Console!Latest, Console!Failed}
        /\ \A g \in Handlers : g # h => reply'[g] = reply[g]
    BY <1>8, <1>t DEF Console!FetchInterim, Console!FetchLatest
  <2>2. Fewer
    BY <2>1 DEF Console!Live
  <2>3. Console!Latest.key = latest /\ ~Console!Unsettled(Console!Failed)
    BY <1>0, <1>s, ConsoleLatest DEF ConsoleMarks
  <2>4. tab_pc[h] # "idle" /\ Console!Unsettled(Console!Latest) => latest = key[h]
    BY <1>l, <1>p
  <2>5. tab_pc[h] # "idle" /\ Console!Unsettled(reply'[h]) => reply'[h].key = key[h]
    BY <2>1, <2>3, <2>4
  <2>6. AllLive' /\ Read'
    BY <2>1, <2>2, <1>p DEF Console!Unsettled
  <2>7. ASSUME NEW g \in Handlers PROVE Of(g)'
    BY <2>1, <2>5, <1>p DEF Console!Unsettled
  <2> QED BY <2>6, <2>7
<1>9. ASSUME NEW h \in Handlers, Console!Callback(h)
      PROVE  AllLive' /\ Read' /\ \A g \in Handlers : Of(g)'
  <2>1. /\ UNCHANGED <<runs, strays, loaded>> /\ ConsoleOthers(h) /\ tab_pc[h] # "idle"
        /\ ConsoleEnded(h) \/ ConsoleShows(h)
    BY <1>9, <1>0, ConsoleCallback
  <2>2. \A g \in Handlers : g # h => /\ tab_pc'[g] = tab_pc[g] /\ key'[g] = key[g]
                                     /\ reply'[g] = reply[g] /\ post'[g] = post[g]
    BY <2>1 DEF ConsoleOthers
  <2>3. /\ reply'[h] = Console!Nothing
        /\ post'[h] = Console!Nothing \/ (post'[h] = post[h] /\ key'[h] = key[h])
        /\ tab_pc'[h] # "idle" => key'[h] = key[h]
    BY <2>1 DEF ConsoleEnded, ConsoleShows
  <2>4. Fewer
    BY <2>1, <2>2, <2>3, ConsoleMarksApart DEF Console!Live
  <2>5. ~Console!Unsettled(Console!Nothing)
    BY <1>s DEF ConsoleMarks
  <2>6. ASSUME \A k \in Console!AllKeys : Console!Live(k) => pending' = k,
               pending' \in {None, pending, key[h]}
        PROVE  AllLive' /\ Read' /\ \A g \in Handlers : Of(g)'
    <3>1. AllLive'
      BY <2>4, <2>6
    <3>2. Read'
      BY <2>1, <2>6, <1>p DEF Console!Unsettled
    <3>3. ASSUME NEW g \in Handlers, tab_pc'[g] # "idle"
          PROVE  /\ tab_pc[g] # "idle" /\ key'[g] = key[g]
                 /\ reply'[g] \in {reply[g], Console!Nothing}
      BY <2>1, <2>2, <2>3, <3>3
    <3>4. ASSUME NEW g \in Handlers PROVE Of(g)'
      BY <2>1, <2>5, <2>6, <3>3, <1>p DEF Console!Unsettled
    <3> QED BY <3>1, <3>2, <3>4
  <2>7. CASE pending' = pending
    BY <2>6, <2>7, <1>p
  <2>8. CASE pending' # pending
    <3> DEFINE r == ConsoleAnswer(h)
    <3>1. /\ r \in Console!Snapshots \ {Console!NoRun}
          /\ pending' = Console!syncPendingRunKey(r)
      BY <2>1, <2>8 DEF ConsoleEnded, ConsoleShows
    <3>2. r.key # None /\ r.status # "absent" /\ Console!StaysOver(r)
      <4>1. CASE tab_pc[h] = "polling"
        BY <3>1, <4>1, <1>0, <1>r, ConsoleMarksApart
           DEF ConsoleAnswer, Console!CreatedInv, Console!OverInv
      <4>2. CASE tab_pc[h] # "polling"
        <5>1. Console!Answered(h) /\ r = post[h]
          BY <3>1, <4>2, ConsoleMarksApart DEF ConsoleAnswer, Console!Answered, ConsoleMarks
        <5> QED BY <3>1, <5>1, <1>0, <1>r, ConsoleMarksApart
                   DEF Console!CreatedInv, Console!OverInv
      <4> QED BY <4>1, <4>2
    <3>3. Console!Unsettled(r) => r.key = key[h]
      <4>1. CASE tab_pc[h] = "polling"
        BY <4>1, <1>p DEF ConsoleAnswer
      <4>2. CASE tab_pc[h] # "polling"
        <5>1. Console!Answered(h) /\ r = post[h]
          BY <3>1, <4>2, ConsoleMarksApart DEF ConsoleAnswer, Console!Answered, ConsoleMarks
        <5> QED BY <5>1, <1>0 DEF Console!CreatedInv
      <4> QED BY <4>1, <4>2
    <3>4. Console!Unsettled(r) => pending \in {None, r.key}
      BY <3>3, <2>1, <1>p
    <3> HIDE DEF r
    <3> QED BY <2>6, <3>1, <3>2, <3>3, <3>4, <1>y
  <2> QED BY <2>7, <2>8
<1>10. CASE Console!FetchLoad
  <2>1. /\ UNCHANGED <<runs, strays, pending, tab_pc, key, reply, post>>
        /\ loaded' \in {Console!Latest, Console!Failed}
    BY <1>10 DEF Console!FetchLoad
  <2>2. Fewer
    BY <2>1 DEF Console!Live
  <2>3. Console!Latest.key = latest /\ ~Console!Unsettled(Console!Failed)
    BY <1>0, <1>s, ConsoleLatest DEF ConsoleMarks
  <2>4. Console!Unsettled(loaded') => pending = loaded'.key /\ pending # None
    BY <2>1, <2>3, <1>l
  <2>5. AllLive' /\ Read'
    BY <2>1, <2>2, <2>4, <1>p DEF Console!Unsettled
  <2>6. ASSUME NEW g \in Handlers PROVE Of(g)'
    BY <2>1, <2>4, <1>p DEF Console!Unsettled
  <2> QED BY <2>5, <2>6
<1>11. CASE Console!Load
  <2>1. /\ UNCHANGED <<runs, strays, tab_pc, key, reply, post>> /\ loaded' = Console!Nothing
        /\ \/ pending' = pending
           \/ /\ loaded \in Console!Snapshots
              /\ pending' = Console!syncPendingRunKey(loaded)
    BY <1>11, <1>t DEF Console!Load
  <2>2. Fewer
    BY <2>1 DEF Console!Live
  <2>3. ~Console!Unsettled(Console!Nothing)
    BY <1>s DEF ConsoleMarks
  <2>4. /\ \A k \in Console!AllKeys : Console!Live(k) => pending' = k
        /\ pending' \in {None, pending} \/ (Console!Unsettled(loaded) /\ pending' = loaded.key)
    <3>1. CASE pending' = pending
      BY <3>1, <1>p
    <3>2. CASE loaded \in Console!Snapshots /\ pending' = Console!syncPendingRunKey(loaded)
      <4>1. Console!StaysOver(loaded) /\ (loaded.status = "absent" => loaded.key = None)
        BY <1>0, <1>r DEF Console!OverInv, Console!CreatedInv
      <4> QED BY <3>2, <4>1, <1>y, <1>p
    <3> QED BY <2>1, <3>1, <3>2
  <2>5. AllLive' /\ Read'
    BY <2>1, <2>2, <2>3, <2>4 DEF Console!Unsettled
  <2>6. ASSUME NEW g \in Handlers PROVE Of(g)'
    BY <2>1, <2>3, <2>4, <1>p DEF Console!Unsettled
  <2> QED BY <2>5, <2>6
<1>12. CASE Console!RetryLoad
  <2>1. UNCHANGED <<runs, strays, pending, loaded, tab_pc, key, reply, post>>
    BY <1>12 DEF Console!RetryLoad
  <2>2. Fewer
    BY <2>1 DEF Console!Live
  <2> QED BY <2>1, <2>2, <1>p DEF Console!Unsettled
<1>13. CASE Console!Reload
  <2>1. /\ UNCHANGED <<runs, pending>> /\ loaded' = Console!Nothing
        /\ strays' = strays \cup {key[h] : h \in {g \in Handlers : post[g] = Console!Sent}}
        /\ \A h \in Handlers : tab_pc'[h] = "idle" /\ post'[h] = Console!Nothing
    BY <1>13 DEF Console!Reload, Console!All
  <2>2. Fewer
    BY <2>1, ConsoleMarksApart DEF Console!Live
  <2>3. ~Console!Unsettled(Console!Nothing)
    BY <1>s DEF ConsoleMarks
  <2> QED BY <2>1, <2>2, <2>3, <1>p DEF Console!Unsettled
<1> QED BY <1>1, <1>2, <1>3, <1>4, <1>5, <1>6, <1>7, <1>8, <1>9, <1>10, <1>11, <1>12, <1>13
  DEF Console!Next

\* As long as no click comes while another one is open, the run that the dashboard offers to
\* retry is the pending one.
LEMMA ConsoleRetry ==
    ASSUME ConsoleParameters, Console!ConsoleInv, Console!Next
    PROVE  Console!RetryInv'
<1> USE DEF Console!agent, Console!page, Console!clicks, Console!history
<1>0. Console!TypeOK /\ Console!TabInv /\ Console!CreatedInv /\ Console!RetryInv
  BY DEF Console!ConsoleInv
<1>t. /\ tab_pc \in [Handlers -> {"idle", "posting", "polling"}]
      /\ key \in [Handlers -> Console!AllKeys \cup {None}]
  BY <1>0 DEF Console!TypeOK
<1> DEFINE Blank == loading => shown = Console!NoRun
           Repeats == shown.status = "retryable" => pending = shown.key
           Of(h) == tab_pc[h] # "idle" =>
                      /\ ~loading /\ ~error /\ pending = key[h]
                      /\ \A g \in Handlers : tab_pc[g] # "idle" => g = h
<1> SUFFICES ASSUME ~doubled' PROVE Blank' /\ Repeats' /\ \A h \in Handlers : Of(h)'
  BY DEF Console!RetryInv
<1>p. Blank /\ Repeats /\ \A h \in Handlers : Of(h)
  BY <1>0, ConsoleMonotone DEF Console!RetryInv
<1>n. Console!NoRun.status # "retryable"
  BY ConsoleMarksApart
<1>y. \A r : r.status = "retryable" => Console!syncPendingRunKey(r) = r.key
  BY DEF Console!syncPendingRunKey
<1>1. ASSUME UNCHANGED <<pending, shown, loading, error, tab_pc, key>>
      PROVE  Blank' /\ Repeats' /\ \A h \in Handlers : Of(h)'
  BY <1>1, <1>p
<1>2. ASSUME NEW k \in Console!AllKeys, Console!Work(k) \/ Console!Reopen(k)
             \/ Console!StartElsewhere(k) \/ Console!StrayArrives(k)
      PROVE  UNCHANGED <<pending, shown, loading, error, tab_pc, key>>
  BY <1>2 DEF Console!Work, Console!Reopen, Console!StartElsewhere, Console!StrayArrives
<1>3. ASSUME NEW h \in Handlers,
             \/ Console!PostArrives(h) \/ Console!PostAnswered(h) \/ Console!PostFails(h)
             \/ Console!FetchInterim(h) \/ Console!FetchLatest(h)
      PROVE  UNCHANGED <<pending, shown, loading, error, tab_pc, key>>
  BY <1>3 DEF Console!PostArrives, Console!PostAnswered, Console!PostFails,
              Console!FetchInterim, Console!FetchLatest
<1>4. CASE Console!FetchLoad
  BY <1>1, <1>4 DEF Console!FetchLoad
<1>5. ASSUME NEW h \in Handlers, NEW k \in Console!AllKeys, Console!Click(h, k)
      PROVE  Blank' /\ Repeats' /\ \A g \in Handlers : Of(g)'
  <2>1. \A g \in Handlers : tab_pc[g] = "idle"
    BY <1>5, Zenon DEF Console!Click, Console!ClickOpen
  <2>2. ~loading /\ (pending # None => k = pending)
    BY <1>5 DEF Console!Click, Console!Ready, Console!KeyOfClick
  <2>3. /\ pending' = k /\ ~error' /\ UNCHANGED <<shown, loading>> /\ key'[h] = k
        /\ \A g \in Handlers : g # h => tab_pc'[g] = tab_pc[g]
    BY <1>5, <1>t DEF Console!Click
  <2>4. shown.status = "retryable" => shown.key # None
    BY <1>0, <1>n, ConsoleMarksApart DEF Console!TypeOK
  <2> QED BY <2>1, <2>2, <2>3, <2>4, <1>p
<1>6. ASSUME NEW h \in Handlers, Console!Callback(h)
      PROVE  Blank' /\ Repeats' /\ \A g \in Handlers : Of(g)'
  <2>1. /\ loading' = loading /\ ConsoleOthers(h) /\ tab_pc[h] # "idle"
        /\ ConsoleEnded(h) \/ ConsoleShows(h)
    BY <1>6, <1>0, ConsoleCallback
  <2>2. ~loading /\ pending = key[h] /\ \A g \in Handlers : g # h => tab_pc'[g] = "idle"
    BY <2>1, <1>p DEF ConsoleOthers
  <2>3. CASE ConsoleEnded(h)
    <3>1. tab_pc'[h] = "idle"
      BY <2>3 DEF ConsoleEnded
    <3>2. Repeats'
      BY <2>3, <1>p, <1>y DEF ConsoleEnded
    <3> QED BY <2>1, <2>2, <3>1, <3>2
  <2>4. CASE ConsoleShows(h)
    <3>1. UNCHANGED <<pending, error>> /\ key'[h] = key[h]
      BY <2>4 DEF ConsoleShows
    <3>2. Repeats'
      <4>1. CASE tab_pc[h] = "posting" /\ shown' = reply[h]
        <5>1. reply[h] = Console!Nothing \/ reply[h].key = key[h]
          BY <4>1, <1>0 DEF Console!TabInv
        <5>2. Console!Nothing.status # "retryable"
          BY ConsoleMarksApart DEF ConsoleMarks, Console!Statuses
        <5> QED BY <4>1, <5>1, <5>2, <3>1, <2>2
      <4>2. CASE shown'.status = "working"
        BY <4>2
      <4> QED BY <2>4, <4>1, <4>2 DEF ConsoleShows
    <3> QED BY <2>1, <2>2, <3>1, <3>2, <1>p
  <2> QED BY <2>1, <2>3, <2>4
<1>7. CASE Console!Load
  <2>1. \A h \in Handlers : tab_pc[h] = "idle"
    BY <1>7, <1>p DEF Console!Load
  <2>2. ~loading' /\ tab_pc' = tab_pc
    BY <1>7 DEF Console!Load
  <2>3. Repeats'
    <3>1. CASE UNCHANGED <<shown, pending>>
      BY <3>1, <1>p
    <3>2. CASE shown' = loaded /\ pending' = Console!syncPendingRunKey(loaded)
      BY <3>2, <1>y
    <3> QED BY <1>7, <3>1, <3>2 DEF Console!Load
  <2> QED BY <2>1, <2>2, <2>3
<1>8. CASE Console!RetryLoad
  <2>1. error /\ shown = Console!NoRun /\ UNCHANGED <<shown, pending, tab_pc>>
    BY <1>8 DEF Console!RetryLoad
  <2> QED BY <2>1, <1>p
<1>9. CASE Console!Reload
  <2>1. shown' = Console!NoRun /\ \A h \in Handlers : tab_pc'[h] = "idle"
    BY <1>9 DEF Console!Reload, Console!All
  <2> QED BY <2>1, <1>n
<1> QED BY <1>1, <1>2, <1>3, <1>4, <1>5, <1>6, <1>7, <1>8, <1>9 DEF Console!Next

\* Every step keeps the invariant.
LEMMA ConsoleStep ==
    ASSUME ConsoleParameters, Console!ConsoleInv, [Console!Next]_Console!vars
    PROVE  Console!ConsoleInv'
<1>1. CASE Console!Next
  BY <1>1, ConsoleTypes, ConsoleRequests, ConsoleCreated, ConsoleOver, ConsolePending,
     ConsoleRetry DEF Console!ConsoleInv
<1>2. CASE UNCHANGED Console!vars
  <2> USE <1>2 DEF Console!vars, Console!agent, Console!page, Console!clicks, Console!history
  <2>1. Console!TypeOK' /\ Console!TabInv'
    BY DEF Console!ConsoleInv, Console!TypeOK, Console!TabInv
  <2>2. Console!CreatedInv' /\ Console!OverInv'
    BY DEF Console!ConsoleInv, Console!CreatedInv, Console!Answered, Console!OverInv,
           Console!StaysOver
  <2>3. Console!PendingInv'
    BY DEF Console!ConsoleInv, Console!PendingInv, Console!Quiet, Console!Alone, Console!Live,
           Console!Unsettled
  <2>4. Console!RetryInv'
    BY DEF Console!ConsoleInv, Console!RetryInv
  <2> QED BY <2>1, <2>2, <2>3, <2>4 DEF Console!ConsoleInv
<1> QED BY <1>1, <1>2

\* The invariant of the console holds in every reachable state, for any sets of keys, any
\* number of open clicks and any number of polls, lost requests and reloads.
LEMMA ConsoleInvariantHolds ==
    ASSUME ConsoleParameters
    PROVE  Console!Spec => []Console!ConsoleInv
<1>1. Console!Init => Console!ConsoleInv
  BY ConsoleInit
<1>2. Console!ConsoleInv /\ [Console!Next]_Console!vars => Console!ConsoleInv'
  BY ConsoleStep
<1> QED BY <1>1, <1>2, PTL DEF Console!Spec

\* The dashboard never shows, keeps or polls anything but a run, and no handler's pollCount
\* passes MAX_LIVE_POLLS, although answers arrive in a later state of the tab.
THEOREM ConsoleTypeCorrect ==
    ASSUME ConsoleParameters
    PROVE  Console!Spec => []Console!TypeOK
<1>1. Console!ConsoleInv => Console!TypeOK
  BY DEF Console!ConsoleInv
<1> QED BY <1>1, ConsoleInvariantHolds, PTL

\* runAudit and syncPendingRunKey keep the key of the tab's unfinished run pending, and so
\* start no second one, with any number of clicks open at once and whatever requests are
\* lost or late, until somebody else starts a run, a finished run is written again, or a
\* click generates a new key while an older click is still open.
THEOREM ConsoleKeepsOneRun ==
    ASSUME ConsoleParameters
    PROVE  Console!Spec => []Console!OneUnfinishedRun
<1>1. ASSUME Console!ConsoleInv PROVE Console!OneUnfinishedRun
  <2>1. Console!PendingInv /\ Keys \subseteq Console!AllKeys
    BY <1>1 DEF Console!ConsoleInv, Console!AllKeys
  <2> QED BY <2>1 DEF Console!PendingInv, Console!Quiet, Console!Live, Console!Unfinished,
                      Console!OneUnfinishedRun
<1> QED BY <1>1, ConsoleInvariantHolds, PTL

\* The run that the dashboard offers to retry is the one whose key runAudit repeats, also
\* when somebody else started it, until a click comes while another one is open.
THEOREM ConsoleRetriesWhatItShows ==
    ASSUME ConsoleParameters
    PROVE  Console!Spec => []Console!RetryRepeatsRun
<1>1. Console!ConsoleInv => Console!RetryRepeatsRun
  BY DEF Console!ConsoleInv, Console!RetryInv, Console!RetryRepeatsRun
<1> QED BY <1>1, ConsoleInvariantHolds, PTL
=============================================================================
