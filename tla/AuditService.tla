---------------------------- MODULE AuditService ----------------------------
(***************************************************************************)
(* The audit workflow of services/agent: AuditService.create_run and the   *)
(* tasks it starts (service.py), the run state machine (state_machine.py)  *)
(* and the durable run document with its leases (store.py and              *)
(* firestore_store.py), for one idempotency key.                           *)
(*                                                                         *)
(* A call is one create_run request and the task it starts.  It works on a *)
(* private copy run[c] of the document and shares only the document, the   *)
(* leases and GitHub.  A step of a call goes from one await to the next,   *)
(* so a save, a lease transaction and a remote write are each one step and *)
(* everything between two of them is local.                                *)
(*                                                                         *)
(* The run record keeps what the workflow branches on: the last event      *)
(* stands for the event list, the number of attempt events is counted up   *)
(* to MaxAttempts (only comparisons with it are made), and "note" is the   *)
(* wording class of the last limitation a failure appends.                 *)
(***************************************************************************)
EXTENDS ActionPlan

CONSTANTS
    Calls,                   \* create_run requests with this idempotency key
    Instances,               \* Cloud Run instances of the agent
    InstanceOf,              \* the instance that serves each call
    NoCall,                  \* the owner of a free lease
    Settings,                \* deployments considered: see SettingsType
    MaxAttempts,             \* MAX_RUN_ATTEMPTS
    MaxFaults,               \* bound on crashes, store errors and lost connections
    RunLeaseOutlivesWork,    \* RUN_LEASE_SECONDS exceeds any execution
    ActionLeaseOutlivesWork  \* ACTION_LEASE_SECONDS exceeds any publication

SettingsType == [github_actions_enabled : BOOLEAN, verifier : BOOLEAN]

ASSUME CallAssumption == NoCall \notin Calls /\ InstanceOf \in [Calls -> Instances]
ASSUME SettingsAssumption == Settings \subseteq SettingsType
ASSUME BoundAssumption == MaxAttempts \in Nat \ {0} /\ MaxFaults \in Nat
ASSUME LeaseAssumption ==
    RunLeaseOutlivesWork \in BOOLEAN /\ ActionLeaseOutlivesWork \in BOOLEAN

VARIABLES
    settings,      \* the deployment's settings, fixed
    store,         \* the durable run document
    run_lease,     \* owner of the execution lease
    action_lease,  \* owner of each action's lease
    pull_request,  \* GitHub: the run's draft PR, "handled" once a person changed it
    issue,         \* GitHub: the finding's issue
    pc,            \* the await at which each call stands
    op,            \* the operation each call executes
    run,           \* each call's copy of the run
    action,        \* the action each call is dispatching under a lease
    next,          \* where each call goes after it has released that lease
    faults,        \* faults so far
    overtaken      \* history: a lease was granted to a call with a stale copy

vars == <<settings, store, run_lease, action_lease, pull_request, issue,
          pc, op, run, action, next, faults, overtaken>>

-----------------------------------------------------------------------------
(* The run record and its state machine. *)

Stages == {"RECEIVED", "CAPTURING", "COMPILING", "BINDING", "PROBING", "EVALUATING",
           "REMEDIATING", "VERIFYING", "ROUTING_ACTION", "COMPLETE",
           "FAILED_RETRYABLE", "FAILED_SAFE"}

Terminal == {"COMPLETE", "FAILED_RETRYABLE", "FAILED_SAFE"}

\* create_run starts no operation for these.
Final == {"COMPLETE", "FAILED_SAFE"}

Allowed == [s \in Stages |->
    CASE s = "RECEIVED"       -> {"CAPTURING"}
      [] s = "CAPTURING"      -> {"COMPILING"}
      [] s = "COMPILING"      -> {"BINDING"}
      [] s = "BINDING"        -> {"PROBING", "ROUTING_ACTION"}
      [] s = "PROBING"        -> {"EVALUATING"}
      [] s = "EVALUATING"     -> {"REMEDIATING", "ROUTING_ACTION"}
      [] s = "REMEDIATING"    -> {"VERIFYING"}
      [] s = "VERIFYING"      -> {"ROUTING_ACTION"}
      [] s = "ROUTING_ACTION" -> {"COMPLETE"}
      [] OTHER                -> {}]

Runs == [status : Stages \cup {"ABSENT"}, verdict : Verdicts, attempts : 0 .. MaxAttempts,
         stage : Stages, state : {"RUNNING", "SUCCEEDED", "FAILED"},
         pr : ActionStates, issue : ActionStates,
         receipt : {"NONE", "UNPROVEN", "PROVEN"}, candidate : BOOLEAN,
         repository : BOOLEAN,
         note : {"none", "no_side_effects", "uncertain", "confirmed", "not_dispatched"}]

new_run(repository) ==
    [status |-> "RECEIVED", verdict |-> "PENDING", attempts |-> 1,
     stage |-> "RECEIVED", state |-> "SUCCEEDED", pr |-> "NONE", issue |-> "NONE",
     receipt |-> "NONE", candidate |-> FALSE, repository |-> repository, note |-> "none"]

\* No document exists for the key yet.
NoRun == [new_run(FALSE) EXCEPT !.status = "ABSENT"]

start_stage(r, s) == [r EXCEPT !.status = s, !.stage = s, !.state = "RUNNING"]

finish_stage(r) == [r EXCEPT !.state = "SUCCEEDED"]

fail_run(r, status, note) ==
    [r EXCEPT !.status = status,
              !.stage  = IF r.state = "RUNNING" THEN @ ELSE status,
              !.state  = "FAILED",
              !.note   = note]

\* Mutant: the attempts are never exhausted.
fail_retryable_always(r, note) == fail_run(r, "FAILED_RETRYABLE", note)

fail_retryable(r, note) ==
    fail_run(r, IF r.attempts >= MaxAttempts THEN "FAILED_SAFE" ELSE "FAILED_RETRYABLE", note)

\* One more "Audit resumed" or "Action retry resumed" event.
OneMoreAttempt(r) == IF r.attempts < MaxAttempts THEN r.attempts + 1 ELSE MaxAttempts

reset_interrupted_run(r) ==
    [new_run(r.repository) EXCEPT !.attempts = OneMoreAttempt(r), !.note = r.note]

\* Mutant: no RUNNING event is appended.
resume_action_dispatch_silent(r) ==
    [r EXCEPT !.status = "ROUTING_ACTION", !.attempts = OneMoreAttempt(r)]

resume_action_dispatch(r) ==
    [r EXCEPT !.status = "ROUTING_ACTION", !.stage = "ROUTING_ACTION",
              !.state = "RUNNING", !.attempts = OneMoreAttempt(r)]

\* Mutant: only a receipt counts.
failed_during_action_dispatch_by_receipt(r) == "OPENED" \in {r.pr, r.issue}

failed_during_action_dispatch(r) ==
    \/ "OPENED" \in {r.pr, r.issue}
    \/ /\ r.stage = "ROUTING_ACTION"
       /\ {r.pr, r.issue} \cap {"READY", "PLANNED"} # {}

\* Mutant: any receipt counts as proof.
WithPlan_any_receipt(r) ==
    LET plan == plan_actions(r.verdict, r.receipt # "NONE", 1, FALSE)
    IN [r EXCEPT !.pr = plan.pr, !.issue = plan.issue]

\* run.actions = plan_actions(...), with the defaults of both calls in service.py.
WithPlan(r) ==
    LET plan == plan_actions(r.verdict, r.receipt = "PROVEN", 1, FALSE)
    IN [r EXCEPT !.pr = plan.pr, !.issue = plan.issue]

\* Mutants: the draft PR stays selected, or the issue is never selected.
select_issue_fallback_open(r) == [r EXCEPT !.issue = "PLANNED"]
select_issue_fallback_none(r) == [r EXCEPT !.pr = "BLOCKED"]

select_issue_fallback(r) == [r EXCEPT !.pr = "BLOCKED", !.issue = "PLANNED"]

WithVerdict(r, verdict) == [r EXCEPT !.verdict = verdict]

WithReceipt(r, receipt) ==
    [r EXCEPT !.receipt = receipt, !.candidate = (receipt = "PROVEN")]

\* The record after the except clauses of _execute, for an unreachable service
\* (or a retryable compiler error) and for any other exception.
StoppedExecution(r, failure) ==
    LET stopped == WithVerdict(r, "INCONCLUSIVE")
    IN WithPlan(IF failure = "unavailable"
                THEN fail_retryable(stopped, "no_side_effects")
                ELSE fail_run(stopped, "FAILED_SAFE", "no_side_effects"))

\* Mutant: the actions are planned again, as after a failed execution.
CompletionCheckpointFailed_replanned(r) ==
    WithPlan(fail_retryable([r EXCEPT !.status = "ROUTING_ACTION",
                                      !.stage = "COMPLETE", !.state = "FAILED"], "confirmed"))

\* The record after _complete_run could not save COMPLETE and
\* _run_with_execution_lease turned that into a bounded failure.
CompletionCheckpointFailed(r) ==
    fail_retryable([r EXCEPT !.status = "ROUTING_ACTION",
                             !.stage = "COMPLETE", !.state = "FAILED"],
                   IF "OPENED" \in {r.pr, r.issue} THEN "confirmed" ELSE "not_dispatched")

\* The record after the receipt of a published action could not be saved.
ActionCheckpointFailed(r) == fail_retryable(r, "confirmed")

-----------------------------------------------------------------------------
(* Control points.  A call of an instance that stands in CreateSection      *)
(* holds the instance's _create_lock; one that stands in TaskSection is the *)
(* unfinished task in its _executions.                                      *)

CreateSection == {"reserved", "saveResume"}

TaskSection ==
    {"startCapture", "capture", "startCompile", "compile", "bind", "startProbe", "probe",
     "evaluate", "remediate", "verify", "route", "dispatch", "saveFallback", "saveRouted",
     "publish", "confirm", "saveOpened", "saveOutcome", "complete",
     "unlock", "saveFailure", "release"}

ControlPoints == {"idle"} \cup CreateSection \cup TaskSection

\* The call has been granted the execution lease and has not given it back.
Executing(c) == pc[c] \in TaskSection \cup {"saveResume"}

Peers(c) == {d \in Calls \ {c} : InstanceOf[d] = InstanceOf[c]}

TypeOK ==
    /\ settings \in SettingsType
    /\ store \in Runs
    /\ run_lease \in Calls \cup {NoCall}
    /\ action_lease \in [{"pr", "issue"} -> Calls \cup {NoCall}]
    /\ pull_request \in {"absent", "draft", "handled"}
    /\ issue \in {"absent", "open"}
    /\ pc \in [Calls -> ControlPoints]
    /\ op \in [Calls -> {"none", "created", "execute", "dispatch", "route"}]
    /\ run \in [Calls -> Runs]
    /\ action \in [Calls -> {"none", "pr", "issue"}]
    /\ next \in [Calls -> ControlPoints]
    /\ faults \in 0 .. MaxFaults
    /\ overtaken \in BOOLEAN

Init ==
    /\ settings \in Settings
    /\ store = NoRun
    /\ run_lease = NoCall
    /\ action_lease = [k \in {"pr", "issue"} |-> NoCall]
    /\ pull_request = "absent"
    /\ issue = "absent"
    /\ pc = [c \in Calls |-> "idle"]
    /\ op = [c \in Calls |-> "none"]
    /\ run = [c \in Calls |-> NoRun]
    /\ action = [c \in Calls |-> "none"]
    /\ next = [c \in Calls |-> "idle"]
    /\ faults = 0
    /\ overtaken = FALSE

-----------------------------------------------------------------------------
(* Building blocks of the steps.  Each names what it leaves unchanged; the  *)
(* steps say the rest.                                                      *)

github == <<pull_request, issue>>
leases == <<run_lease, action_lease>>

Goto(c, target) == pc' = [pc EXCEPT ![c] = target]
SetRun(c, r) == run' = [run EXCEPT ![c] = r]
Fault == faults < MaxFaults /\ faults' = faults + 1

\* The call is over: its locals are gone.
Forget(S) ==
    /\ pc' = [c \in Calls |-> IF c \in S THEN "idle" ELSE pc[c]]
    /\ op' = [c \in Calls |-> IF c \in S THEN "none" ELSE op[c]]
    /\ run' = [c \in Calls |-> IF c \in S THEN NoRun ELSE run[c]]
    /\ action' = [c \in Calls |-> IF c \in S THEN "none" ELSE action[c]]
    /\ next' = [c \in Calls |-> IF c \in S THEN "idle" ELSE next[c]]

\* Go to target, through the finally block that releases the action lease.
Leave(c, target) ==
    IF action[c] = "none"
    THEN Goto(c, target) /\ UNCHANGED next
    ELSE Goto(c, "unlock") /\ next' = [next EXCEPT ![c] = target]

\* An exception leaves the body of the operation.  _execute turns it into a failed
\* record, unless the record is terminal already and fail_run raises again; the other
\* operations let it propagate to the finally block that releases the run lease.
Raise(c, r, failure) ==
    IF op[c] = "execute" /\ r.status \notin Terminal
    THEN SetRun(c, StoppedExecution(r, failure)) /\ Leave(c, "saveFailure")
    ELSE SetRun(c, r) /\ Leave(c, "release")

\* A store error may be reported after the write was applied.
StoreError(r) == Fault /\ store' \in {store, r}

\* await self.store.save(run) inside an operation.  No owner is checked.
Save(c, r, target) ==
    /\ \/ /\ store' = r
          /\ SetRun(c, r)
          /\ Goto(c, target)
          /\ UNCHANGED <<next, faults>>
       \/ StoreError(r) /\ Raise(c, r, "error")
    /\ UNCHANGED <<settings, leases, github, op, action, overtaken>>

\* An exception of an awaited service, before anything was saved.
ServiceFails(c, r) ==
    /\ \E failure \in {"unavailable", "error"} : Raise(c, r, failure)
    /\ UNCHANGED <<settings, store, leases, github, op, action, faults, overtaken>>

\* A step without an await.
Local(c, r, target) ==
    /\ SetRun(c, r)
    /\ Goto(c, target)
    /\ UNCHANGED <<settings, store, leases, github, op, action, next, faults, overtaken>>

-----------------------------------------------------------------------------
(* create_run *)

\* store.reserve, under the instance's _create_lock.  The owner name is fresh: a
\* lease that still names an earlier request in this slot has to expire first.
Reserve(c) ==
    /\ pc[c] = "idle"
    /\ run_lease # c /\ \A k \in {"pr", "issue"} : action_lease[k] # c
    /\ \A d \in Peers(c) : pc[d] \notin CreateSection
    /\ IF store.status = "ABSENT"
       THEN /\ \E repository \in BOOLEAN : store' = new_run(repository)
            /\ op' = [op EXCEPT ![c] = "created"]
       ELSE UNCHANGED <<store, op>>
    /\ SetRun(c, store')
    /\ Goto(c, "reserved")
    /\ UNCHANGED <<settings, leases, github, action, next, faults, overtaken>>

\* The run is final, or another request of this instance already executes it.
ReturnExisting(c) ==
    /\ pc[c] = "reserved"
    /\ \/ run[c].status \in Final
       \/ \E d \in Peers(c) : pc[d] \in TaskSection
    /\ Forget({c})
    /\ UNCHANGED <<settings, store, leases, github, faults, overtaken>>

\* Mutant: only a COMPLETE run counts as final.
WantsLease_of_failed(c) ==
    /\ pc[c] = "reserved"
    /\ run[c].status # "COMPLETE"
    /\ \A d \in Peers(c) : pc[d] \notin TaskSection

\* The state in which acquire_run_lease is called.
WantsLease(c) ==
    /\ pc[c] = "reserved"
    /\ run[c].status \notin Final
    /\ \A d \in Peers(c) : pc[d] \notin TaskSection

\* Mutant: the owner of the lease is not compared.
RunLeaseFree_always(c) == TRUE

RunLeaseFree(c) == run_lease \in {NoCall, c}

LeaseDenied(c) ==
    /\ WantsLease(c)
    /\ ~RunLeaseFree(c)
    /\ Forget({c})
    /\ UNCHANGED <<settings, store, leases, github, faults, overtaken>>

\* The lease transaction fails; nothing records whether it was applied.
LeaseError(c) ==
    /\ WantsLease(c)
    /\ Fault
    /\ \/ UNCHANGED run_lease
       \/ RunLeaseFree(c) /\ run_lease' = c
    /\ Forget({c})
    /\ UNCHANGED <<settings, store, action_lease, github, overtaken>>

\* What create_run does with the copy it read before it asked for the lease.
Resumption(r, created) ==
    IF created
    THEN [op |-> "execute", pc |-> "startCapture", run |-> r]
    ELSE IF r.status = "FAILED_RETRYABLE" /\ r.attempts >= MaxAttempts
    THEN [op |-> "none", pc |-> "release", run |-> r]
    ELSE IF r.status = "FAILED_RETRYABLE" /\ failed_during_action_dispatch(r)
    THEN [op |-> "dispatch", pc |-> "saveResume", run |-> resume_action_dispatch(r)]
    ELSE IF r.status = "ROUTING_ACTION"
    THEN [op |-> "dispatch", pc |-> "dispatch", run |-> r]
    ELSE IF r.status = "VERIFYING" /\ r.receipt # "NONE"
    THEN [op |-> "route", pc |-> "route", run |-> r]
    ELSE [op |-> "execute", pc |-> "saveResume", run |-> reset_interrupted_run(r)]

AcquireRunLease(c) ==
    /\ WantsLease(c)
    /\ RunLeaseFree(c)
    /\ run_lease' = c
    /\ LET resumption == Resumption(run[c], op[c] = "created")
       IN /\ op' = [op EXCEPT ![c] = resumption.op]
          /\ SetRun(c, resumption.run)
          /\ Goto(c, resumption.pc)
    /\ overtaken' = (overtaken \/ run[c] # store)
    /\ UNCHANGED <<settings, store, action_lease, github, action, next, faults>>

\* The reset or resumed run is saved before its task starts.  When that fails the
\* request fails and the lease stays.
SaveResume(c) ==
    /\ pc[c] = "saveResume"
    /\ \/ /\ store' = run[c]
          /\ Goto(c, IF op[c] = "execute" THEN "startCapture" ELSE "dispatch")
          /\ UNCHANGED <<op, run, action, next, faults>>
       \/ StoreError(run[c]) /\ Forget({c})
    /\ UNCHANGED <<settings, leases, github, overtaken>>

\* The finally block of _run_with_execution_lease; its errors are only logged.
ReleaseRunLease(c) ==
    /\ pc[c] = "release"
    /\ \/ /\ run_lease' = (IF run_lease = c THEN NoCall ELSE run_lease)
          /\ UNCHANGED faults
       \/ Fault /\ UNCHANGED run_lease
    /\ Forget({c})
    /\ UNCHANGED <<settings, store, action_lease, github, overtaken>>

-----------------------------------------------------------------------------
(* _execute: the audit stages. *)

StartCapture(c) ==
    /\ pc[c] = "startCapture"
    /\ Save(c, start_stage(run[c], "CAPTURING"), "capture")

Capture(c) ==
    /\ pc[c] = "capture"
    /\ \/ Save(c, finish_stage(run[c]), "startCompile")
       \/ ServiceFails(c, run[c])

StartCompile(c) ==
    /\ pc[c] = "startCompile"
    /\ Save(c, start_stage(run[c], "COMPILING"), "compile")

\* A compiler failure is retryable or not; an ungrounded quote is not.
Compile(c) ==
    /\ pc[c] = "compile"
    /\ \/ Save(c, finish_stage(run[c]), "bind")
       \/ ServiceFails(c, run[c])

Bound(r) == finish_stage(start_stage(r, "BINDING"))

\* Either the claim matches the deletion control and the binding is saved, or the
\* audit abstains and goes straight to routing.
Bind(c) ==
    /\ pc[c] = "bind"
    /\ \/ Save(c, Bound(run[c]), "startProbe")
       \/ Local(c, WithVerdict(Bound(run[c]), "NOT_TESTED"), "route")

StartProbe(c) ==
    /\ pc[c] = "startProbe"
    /\ Save(c, start_stage(run[c], "PROBING"), "probe")

Probe(c) ==
    /\ pc[c] = "probe"
    /\ \/ Save(c, finish_stage(run[c]), "evaluate")
       \/ ServiceFails(c, run[c])

\* The verdict of the control's evidence; only a contradiction is remediated.
Evaluate(c) ==
    /\ pc[c] = "evaluate"
    /\ \E verdict \in {"SUPPORTED", "CONTRADICTED", "INCONCLUSIVE"} :
          Save(c, WithVerdict(finish_stage(start_stage(run[c], "EVALUATING")), verdict),
               IF verdict = "CONTRADICTED" THEN "remediate" ELSE "route")

\* Every failure to prepare a candidate is absorbed.
Remediate(c) ==
    /\ pc[c] = "remediate"
    /\ Save(c, finish_stage(start_stage(run[c], "REMEDIATING")), "verify")

\* Every failure of the verifier is absorbed as a receipt that proves nothing; without
\* a verifier or a repository there is no candidate to verify.
Verify(c) ==
    /\ pc[c] = "verify"
    /\ \E receipt \in {"UNPROVEN", "PROVEN"} :
          /\ receipt = "PROVEN" => settings.verifier /\ run[c].repository
          /\ Save(c, WithReceipt(finish_stage(start_stage(run[c], "VERIFYING")), receipt),
                  "route")

\* _route_and_complete
Route(c) ==
    /\ pc[c] = "route"
    /\ Save(c, WithPlan(start_stage(run[c], "ROUTING_ACTION")), "dispatch")

\* The save that ends _execute's failure path, and the one that ends a checkpoint
\* failure in _run_with_execution_lease: their own failure propagates.
SaveFailure(c) ==
    /\ pc[c] = "saveFailure"
    /\ \/ store' = run[c] /\ UNCHANGED faults
       \/ StoreError(run[c])
    /\ Goto(c, "release")
    /\ UNCHANGED <<settings, leases, github, op, run, action, next, overtaken>>

-----------------------------------------------------------------------------
(* _dispatch_and_complete: the branches, in the order of the code. *)

Routed(r) == r.stage = "ROUTING_ACTION" /\ r.state = "SUCCEEDED"
HasReceipt(r) == "OPENED" \in {r.pr, r.issue}
CanPublish(r) == settings.github_actions_enabled /\ r.repository

\* The action that the branches select: complete at once, keep a confirmed receipt,
\* publish the draft PR, fall back to the issue, publish the issue, or nothing.
Decision(r) ==
    IF Routed(r) THEN "complete"
    ELSE IF HasReceipt(r) THEN "keep"
    ELSE IF r.pr = "READY" THEN IF CanPublish(r) /\ r.candidate THEN "pr" ELSE "fallback"
    ELSE IF r.issue = "PLANNED" /\ CanPublish(r) THEN "issue"
    ELSE "nothing"

Dispatch(c) ==
    /\ pc[c] = "dispatch"
    /\ \/ Decision(run[c]) = "complete" /\ Local(c, run[c], "complete")
       \/ /\ Decision(run[c]) \in {"keep", "nothing"}
          /\ Local(c, finish_stage(run[c]), "saveRouted")
       \/ /\ Decision(run[c]) = "fallback"
          /\ Local(c, select_issue_fallback(run[c]), "saveFallback")

\* acquire_action_lease.  It refuses an action that the stored plan does not list; a
\* skipped PR is stored under another id than a planned one.
KnownAction(kind) ==
    IF kind = "pr" THEN store.pr \notin {"NONE", "SKIPPED"} ELSE store.issue # "NONE"

ChooseAction(c, kind) ==
    /\ pc[c] = "dispatch"
    /\ Decision(run[c]) = kind

\* Mutant: the owner of the action lease is not compared.
AcquireActionLease_unchecked(c, kind) ==
    /\ ChooseAction(c, kind)
    /\ KnownAction(kind)
    /\ action_lease' = [action_lease EXCEPT ![kind] = c]
    /\ action' = [action EXCEPT ![c] = kind]
    /\ Goto(c, "publish")
    /\ UNCHANGED <<settings, store, run_lease, github, op, run, next, faults, overtaken>>

AcquireActionLease(c, kind) ==
    /\ ChooseAction(c, kind)
    /\ KnownAction(kind)
    /\ action_lease[kind] \in {NoCall, c}
    /\ action_lease' = [action_lease EXCEPT ![kind] = c]
    /\ action' = [action EXCEPT ![c] = kind]
    /\ Goto(c, "publish")
    /\ UNCHANGED <<settings, store, run_lease, github, op, run, next, faults, overtaken>>

\* Another worker publishes: this one returns what is stored.
ActionLeaseDenied(c, kind) ==
    /\ ChooseAction(c, kind)
    /\ KnownAction(kind)
    /\ action_lease[kind] \notin {NoCall, c}
    /\ Local(c, run[c], "release")

ActionLeaseError(c, kind) ==
    /\ ChooseAction(c, kind)
    /\ \/ ~KnownAction(kind) /\ UNCHANGED <<action_lease, faults>>
       \/ /\ Fault
          /\ \/ UNCHANGED action_lease
             \/ /\ KnownAction(kind) /\ action_lease[kind] \in {NoCall, c}
                /\ action_lease' = [action_lease EXCEPT ![kind] = c]
    /\ Raise(c, run[c], "error")
    /\ UNCHANGED <<settings, store, run_lease, github, op, action, overtaken>>

SaveFallback(c) == pc[c] = "saveFallback" /\ Save(c, run[c], "dispatch")
SaveRouted(c) == pc[c] = "saveRouted" /\ Save(c, run[c], "complete")

-----------------------------------------------------------------------------
(* _dispatch_pr_with_lease and _dispatch_issue_with_lease.  What the two    *)
(* publishers of github.py can do is summarised: find the artifact that     *)
(* carries the marker, or write it and confirm the write, or fail.          *)

\* Mutant: a write is taken for granted.
Vouched_blindly(kind) == kind \in {"pr", "issue"}

\* GitHub holds an artifact the publisher can return a receipt for: an issue with the
\* marker in any state, but a draft PR only as long as nobody changed it.
Vouched(kind) == IF kind = "pr" THEN pull_request = "draft" ELSE issue = "open"

WithOpened(r, kind) ==
    finish_stage(IF kind = "pr" THEN [r EXCEPT !.pr = "OPENED"]
                                ELSE [r EXCEPT !.issue = "OPENED"])

Publishing(c) == pc[c] \in {"publish", "confirm"}

\* The remote write: the POST took effect and its answer is still to come.
PublishWrites(c) ==
    /\ pc[c] = "publish"
    /\ IF action[c] = "pr"
       THEN pull_request = "absent" /\ pull_request' = "draft" /\ UNCHANGED issue
       ELSE issue = "absent" /\ issue' = "open" /\ UNCHANGED pull_request
    /\ Goto(c, "confirm")
    /\ UNCHANGED <<settings, store, leases, op, run, action, next, faults, overtaken>>

\* The publisher found or confirmed the artifact and returned its receipt.
PublishReturns(c) ==
    /\ Publishing(c)
    /\ Vouched(action[c])
    /\ Local(c, WithOpened(run[c], action[c]), "saveOpened")

\* Mutant: an unproven outcome is treated as a rejection.
PublishRejects_unproven(c) ==
    /\ Publishing(c)
    /\ action[c] = "pr"
    /\ SetRun(c, select_issue_fallback(run[c]))
    /\ Leave(c, "saveFallback")
    /\ UNCHANGED <<settings, store, leases, github, op, action, faults, overtaken>>

\* GitHubPublicationRejected: a gate refused the draft PR, the base moved, or the PR
\* of the deterministic branch is no longer the expected open draft.
PublishRejects(c) ==
    /\ Publishing(c)
    /\ action[c] = "pr"
    /\ pull_request # "draft"
    /\ SetRun(c, select_issue_fallback(run[c]))
    /\ Leave(c, "saveFallback")
    /\ UNCHANGED <<settings, store, leases, github, op, action, faults, overtaken>>

\* GitHubPublishUncertain: the outcome of a read or a write could not be proven.
PublishUncertain(c) ==
    /\ Publishing(c)
    /\ Local(c, fail_retryable(run[c], "uncertain"), "saveOutcome")

\* Any other GitHubIntegrationError: lost authorization or an unexpected status.
PublishRefused(c) ==
    /\ pc[c] = "publish"
    /\ Local(c, fail_run(run[c], "FAILED_SAFE", "no_side_effects"), "saveOutcome")

\* Exceptions the publishers do not translate: a timeout while the installation token
\* is minted, or a connection that breaks without an answer, before or after the write.
PublishRaises(c) ==
    /\ Publishing(c)
    /\ Fault
    /\ \E failure \in {"unavailable", "error"} :
          /\ failure = "unavailable" => pc[c] = "publish"
          /\ Raise(c, run[c], failure)
    /\ UNCHANGED <<settings, store, leases, github, op, action, overtaken>>

\* The receipt is saved; when that fails the run becomes a bounded failure that keeps it.
SaveOpened(c) ==
    /\ pc[c] = "saveOpened"
    /\ \/ store' = run[c] /\ Goto(c, "complete") /\ UNCHANGED <<run, next, faults>>
       \/ /\ StoreError(run[c])
          /\ SetRun(c, ActionCheckpointFailed(run[c]))
          /\ Leave(c, "saveFailure")
    /\ UNCHANGED <<settings, leases, github, op, action, overtaken>>

\* The failed record of an uncertain or refused publication is saved.  When that fails,
\* fail_run cannot fail the terminal copy again, so the exception propagates.
SaveOutcome(c) ==
    /\ pc[c] = "saveOutcome"
    /\ \/ store' = run[c] /\ UNCHANGED faults
       \/ StoreError(run[c])
    /\ Leave(c, "release")
    /\ UNCHANGED <<settings, leases, github, op, run, action, overtaken>>

Completed(r) == finish_stage(start_stage(r, "COMPLETE"))

\* _complete_run
Complete(c) ==
    /\ pc[c] = "complete"
    /\ \/ /\ store' = Completed(run[c])
          /\ SetRun(c, Completed(run[c]))
          /\ Leave(c, "release")
          /\ UNCHANGED faults
       \/ /\ StoreError(Completed(run[c]))
          /\ SetRun(c, CompletionCheckpointFailed(run[c]))
          /\ Leave(c, "saveFailure")
    /\ UNCHANGED <<settings, leases, github, op, action, overtaken>>

\* The finally block of the dispatchers; its errors are only logged.
ReleaseActionLease(c) ==
    /\ pc[c] = "unlock"
    /\ LET kind == action[c]
       IN \/ /\ action_lease' = [action_lease EXCEPT ![kind] = IF @ = c THEN NoCall ELSE @]
             /\ UNCHANGED faults
          \/ Fault /\ UNCHANGED action_lease
    /\ Goto(c, next[c])
    /\ action' = [action EXCEPT ![c] = "none"]
    /\ next' = [next EXCEPT ![c] = "idle"]
    /\ UNCHANGED <<settings, store, run_lease, github, op, run, overtaken>>

-----------------------------------------------------------------------------
(* The environment. *)

\* A person marks the draft ready, closes or merges it, or pushes to its branch.
HandleDraft ==
    /\ pull_request = "draft"
    /\ pull_request' = "handled"
    /\ UNCHANGED <<settings, store, leases, issue, pc, op, run, action, next, faults, overtaken>>

ExpireRunLease ==
    /\ run_lease # NoCall
    /\ RunLeaseOutlivesWork => ~Executing(run_lease)
    /\ run_lease' = NoCall
    /\ UNCHANGED <<settings, store, action_lease, github, pc, op, run, action, next,
                   faults, overtaken>>

ExpireActionLease(kind) ==
    /\ action_lease[kind] # NoCall
    /\ ActionLeaseOutlivesWork => action[action_lease[kind]] # kind
    /\ action_lease' = [action_lease EXCEPT ![kind] = NoCall]
    /\ UNCHANGED <<settings, store, run_lease, github, pc, op, run, action, next,
                   faults, overtaken>>

\* An instance stops: its requests and tasks are gone, the leases they own are not.
Crash(i) ==
    /\ Fault
    /\ \E c \in Calls : InstanceOf[c] = i /\ pc[c] # "idle"
    /\ Forget({c \in Calls : InstanceOf[c] = i})
    /\ UNCHANGED <<settings, store, leases, github, overtaken>>

-----------------------------------------------------------------------------
CreateRun(c) ==
    \/ Reserve(c) \/ ReturnExisting(c) \/ LeaseDenied(c) \/ LeaseError(c)
    \/ AcquireRunLease(c) \/ SaveResume(c) \/ ReleaseRunLease(c)

Execute(c) ==
    \/ StartCapture(c) \/ Capture(c) \/ StartCompile(c) \/ Compile(c) \/ Bind(c)
    \/ StartProbe(c) \/ Probe(c) \/ Evaluate(c) \/ Remediate(c) \/ Verify(c)
    \/ Route(c) \/ SaveFailure(c)

DispatchAndComplete(c) ==
    \/ Dispatch(c) \/ SaveFallback(c) \/ SaveRouted(c)
    \/ \E kind \in {"pr", "issue"} :
          AcquireActionLease(c, kind) \/ ActionLeaseDenied(c, kind) \/ ActionLeaseError(c, kind)
    \/ PublishWrites(c) \/ PublishReturns(c) \/ PublishRejects(c) \/ PublishUncertain(c)
    \/ PublishRefused(c) \/ PublishRaises(c)
    \/ SaveOpened(c) \/ SaveOutcome(c) \/ Complete(c) \/ ReleaseActionLease(c)

CallStep(c) == CreateRun(c) \/ Execute(c) \/ DispatchAndComplete(c)

Expiry == ExpireRunLease \/ \E kind \in {"pr", "issue"} : ExpireActionLease(kind)

Next ==
    \/ \E c \in Calls : CallStep(c)
    \/ Expiry
    \/ HandleDraft
    \/ \E i \in Instances : Crash(i)

Spec == Init /\ [][Next]_vars

\* A live instance runs the requests and tasks it has begun, and the store compares
\* lease expiries with the clock.
Fairness ==
    /\ \A c \in Calls : WF_vars(pc[c] # "idle" /\ CallStep(c))
    /\ WF_vars(Expiry)

\* The caller repeats the key for as long as the answer is not final: scheduled_run
\* answers 503 with Retry-After, and the console retries with its pending key.
Redelivery == \A c \in Calls : WF_vars(Reserve(c))

FairSpec == Spec /\ Fairness /\ Redelivery

-----------------------------------------------------------------------------
(* Safety *)

Records == {store} \cup {run[c] : c \in Calls}

\* At most one call executes the run at a time (RUN_LEASE_SECONDS, and the promise of
\* docs/architecture.md that the run lease excludes a second instance).
RunExclusion ==
    RunLeaseOutlivesWork =>
        \A c, d \in Calls : Executing(c) /\ Executing(d) => c = d

\* At most one call is inside a publisher for the same action, even when run leases
\* expire under their owners (ACTION_LEASE_SECONDS, _dispatch_*_with_lease).
PublishExclusion ==
    ActionLeaseOutlivesWork =>
        \A c, d \in Calls :
            Publishing(c) /\ Publishing(d) /\ action[c] = action[d] => c = d

\* A draft PR is selected or reported only for a contradiction that the verifier proved,
\* with the candidate to publish still at hand, whatever was reset or resumed since.
DraftNeedsProof ==
    \A r \in Records :
        r.pr \in {"READY", "OPENED"} =>
            r.verdict = "CONTRADICTED" /\ r.receipt = "PROVEN" /\ r.candidate

\* A run never selects or reports both a draft PR and an issue, through fallbacks,
\* retries and resets.
SingleRoute ==
    \A r \in Records : ~(r.pr \in SelectedStates /\ r.issue \in SelectedStates)

\* A COMPLETE contradiction of a run that may publish carries the receipt of a draft PR
\* or an issue, and any other COMPLETE run reports none (_dispatch_and_complete).
CompleteMeansPublished ==
    \A r \in Records :
        r.status = "COMPLETE" =>
            (HasReceipt(r) <=> r.verdict = "CONTRADICTED" /\ CanPublish(r))

\* A run left FAILED_RETRYABLE can be retried: its attempt budget is not spent, so the
\* branch of create_run that only gives the lease back is never taken.
RetryableHasBudget ==
    \A r \in Records : r.status = "FAILED_RETRYABLE" => r.attempts < MaxAttempts

\* The stage that a call starts next at each control point.
StartedAt == [startCapture |-> "CAPTURING", startCompile |-> "COMPILING", bind |-> "BINDING",
              startProbe |-> "PROBING", evaluate |-> "EVALUATING",
              remediate |-> "REMEDIATING", verify |-> "VERIFYING",
              route |-> "ROUTING_ACTION", complete |-> "COMPLETE"]

\* Whatever checkpoint a call resumed from, start_stage, finish_stage and fail_run never
\* raise InvalidTransition.
NoInvalidTransition ==
    \A c \in Calls :
        /\ pc[c] \in DOMAIN StartedAt =>
              StartedAt[pc[c]] \in Allowed[run[c].status] /\ run[c].state # "RUNNING"
        /\ pc[c] \in {"capture", "compile", "probe", "publish", "confirm"} =>
              run[c].state = "RUNNING"
        /\ pc[c] = "dispatch" /\ ~Routed(run[c]) => run[c].state = "RUNNING"

\* The premise of the next properties: leases outlive the work they protect, and nobody
\* was granted the run lease with a copy read before somebody else's last save.
Serial == RunLeaseOutlivesWork /\ ~overtaken

\* A final document is never written again, whatever is redelivered, except by the
\* call that was told that its own final checkpoint failed when it had been applied.
FinalForever ==
    [][store.status \in Final /\ store' # store /\ Serial' =>
         /\ store.status = "COMPLETE"
         /\ \E c \in Calls : /\ pc[c] = "saveFailure"
                            /\ run[c].note \in {"confirmed", "not_dispatched"}]_vars

\* A run restarts from scratch only while GitHub holds no artifact of it that a
\* publisher would find again: _failed_during_action_dispatch sends the others to
\* reconciliation (a draft changed by a person is no longer found).
NoRestartAfterPublication ==
    [][store'.status = "RECEIVED" /\ store.status # "RECEIVED" /\ Serial'
         => pull_request # "draft" /\ issue = "absent"]_vars

\* At most one artifact of the run stands on GitHub, as long as nobody touches the draft.
OneLiveArtifact == Serial => ~(pull_request = "draft" /\ issue = "open")

\* No receipt is lost: an executing call keeps the OPENED state it read or wrote.
ReceiptKept ==
    [][Serial' /\ HasReceipt(store) => store'.pr = store.pr /\ store'.issue = store.issue]_vars

\* What a caller sees of a document, and the publication that it reports.
Outline(r) ==
    CASE r.status = "ABSENT"           -> "absent"
      [] r.status = "COMPLETE"         -> "complete"
      [] r.status = "FAILED_SAFE"      -> "failed"
      [] r.status = "FAILED_RETRYABLE" -> "retryable"
      [] OTHER                         -> "working"

Reported(r) == IF r.pr = "OPENED" THEN "pr" ELSE IF r.issue = "OPENED" THEN "issue" ELSE "none"

Promise == INSTANCE AuditPromise
    WITH status <- Outline(store), receipt <- Reported(store), serial <- Serial

\* Every step of every call, crash and lost lease is a step of the promise or none at all.
ImplementsPromise == Promise!Spec

-----------------------------------------------------------------------------
(* Liveness *)

\* A final document that no call executes.
Settled == store.status \in Final /\ \A c \in Calls : ~Executing(c)

\* Every reserved run settles: faults, crashes and leaked leases only delay it.
EventuallySettled == (store.status # "ABSENT") ~> Settled

-----------------------------------------------------------------------------
(* What the repository says and the code does not guarantee. *)

\* docs/architecture.md: "`FAILED_SAFE` does not resume automatically": no delivery of the
\* key takes a run out of FAILED_SAFE.
FailedSafeNeverResumes ==
    [][store.status = "FAILED_SAFE" => store'.status = "FAILED_SAFE"]_vars
=============================================================================
