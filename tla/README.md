# A verification project for iPromise

iPromise audits a public claim ("we delete your account data") against a running
service: an agent captures the claim, compiles it, exercises a deletion control,
and, when the service contradicts the claim, opens either a verified draft pull
request or an issue. This directory holds TLA+ models of the parts of it that are
hard to test, TLC configurations, and TLAPS proofs. Paths are relative to the
repository; `AG` abbreviates `services/agent/src/ipromise_agent`.

## 1. Inventory of the system

| Component | State it keeps | Operations | Hard behaviour |
|---|---|---|---|
| Audit workflow (`AG/service.py`) | `_create_lock`, `_executions`, one private copy of the run per task | `create_run`, `_execute`, `_dispatch_and_complete`, the two dispatchers, `_complete_run`, three resets | duplicate deliveries on several instances, crashes between checkpoints, failing checkpoints, stale copies |
| Run state machine (`AG/state_machine.py`, `models.py`) | status, event list, limitations | `start_stage`, `finish_stage`, `fail_run` | records rewritten by hand on failure paths and then resumed |
| Run store (`AG/store.py`, `firestore_store.py`) | run documents, run lease, action leases | `reserve`, `save`, `acquire/release_run_lease`, `acquire/release_action_lease` | leases that leak or expire under their owner; `save` checks no owner; commits of unknown outcome |
| Action planner (`AG/actions.py`) | none | `plan_actions`, `validate_action_plan` | exactly one route, none without proof |
| GitHub publishers (`AG/github.py`) | issue intents; issues, branches and PRs on GitHub | `publish_issue`, `publish_draft_pull_request` and their reconciliation | a POST whose answer is lost, moving default branch, a person editing the draft, expired intents |
| GitHub connection (`AG/github.py`) | OAuth states, the one active connection with its selected repository | `install_url`, `oauth_url`, callback, select, disconnect | one-time states, replay, races of callbacks, select and disconnect |
| Cloud Build verifier (`AG/cloudbuild_verifier.py`) | a build on Cloud Build, the last snapshot | submit, poll, cancel, interpret | deadline against completion, lost submissions, builds that break half way |
| Deletion control (`AG/control.py`, `demo_client.py`, `apps/demo_saas`) | synthetic profiles and analytics records, in memory | seed, process, inspect | two workers on one account, late requests, restarts |
| Remediation policy (`AG/remediation.py`, capture and gate in `github.py`) | the verified candidate in the run | capture, build the one fixed patch, verify, checkpoint, publish | a branch that moves between reads, receipts of interrupted attempts |
| Source capture and compiler (`AG/source.py`, `compiler.py`) | the claim and the model provenance in the run | fetch, compile, ground the quote, bind | a page that changes, streams of model events that stop anywhere, claims of earlier attempts |
| HTTP API (`AG/app.py`) | none | `create_run`, `scheduled_run`, reads | 503 and redelivery |
| Judge console (`apps/console`) | pending idempotency key, polled run | load, start, poll, keep or drop the key | polling a run that is not the one started, POSTs that fail and arrive, clicks that overlap on the empty dashboard |
| Console sessions (`apps/console/src/lib/console-auth.ts`) | a signed cookie | issue, verify | none (stateless) |
| Deployment scripts, evaluation fixtures (`scripts`, `evals`) | none | | none |

The caller (scheduler or console) sends an idempotency key; `create_run` reserves
the run document, asks for the run lease and starts a task; the task calls the
services in turn and saves the document at every stage; the dispatcher takes an
action lease, calls a publisher and saves its receipt. Instances share only the
store and GitHub. A task is an asyncio coroutine: between two awaits it runs
alone, and at every await other calls of the instance, other instances and the
outside world may move.

What makes it correct: one execution and one publication at a time; a draft only
with proof; one route per run; receipts that are true and never lost; a run that
is retried while it may be and never after; every reserved run becomes final. Outside the
workflow: one draft per candidate however many workers publish it, with the exact verified
content and never against a person's decision; receipts that say no more than the build
showed; controls that run only for promises the page makes, and verdicts that follow from what
the service did; states used once, and publications only through verified installations; a
console that repeats its own run, and whose clicks end in a result or an error.

## 2. Modules

### ActionPlan (`AG/actions.py`, with the enumerations of `models.py`)

`plan_actions`, `_receipt_proves_candidate` and `validate_action_plan` as
operators. An action list is a record of three states; titles and reasons are left
out. `PlanIsSafe` states what a plan must be; it is proved for every input, and the
workflow and the verifier use the operators as they are.

### AuditService (`AG/service.py`, `state_machine.py`, `store.py`, `firestore_store.py`)

One idempotency key, any number of calls (`create_run` requests and the tasks they
start) on any number of instances. ActionPlan is the planner it calls.

| Variable | Code |
|---|---|
| `store` | the durable run document |
| `run[c]` | the `AuditRun` object in the hands of a call |
| `pc[c]`, `op[c]` | the await at which the call stands, and the operation it executes (`_execute`, `_dispatch_and_complete`, `_route_and_complete`) |
| `run_lease`, `action_lease` | owners of the lease documents |
| `action[c]`, `next[c]` | the action leased by the dispatcher, and where its `finally` block returns to |
| `pull_request`, `issue` | what GitHub holds |
| `faults` | crashes, store errors and broken connections so far |
| `overtaken` | history variable: a lease was granted to a call whose copy was older than the document |

Each action is the code from one await to the next. `CreateSection` is the part
under `_create_lock`, `TaskSection` the unfinished task in `_executions`: a call of
the same instance cannot reserve during the first and returns the existing run
during the second. The event list is reduced to its last event (the only one that
`start_stage`, `finish_stage`, `fail_run` and the resumption read) and to the
number of attempt events, counted up to `MaxAttempts` because it is only compared
with it. `note` is the class of the limitation a failure appends.

A `save` may fail with the write applied or not (`StoreError`), as may a lease
transaction; `Raise` is the exception path, which `_execute` turns into a failed
record and the other operations let through. `Crash` forgets all calls of an
instance and leaves the leases. `HandleDraft` is a person who edits, readies,
closes or merges the draft. The publishers are summarised by what the workflow can
observe: they write and confirm, find what is there, reject (only a draft PR that
is absent or no longer the expected draft), cannot prove the outcome, refuse, or
raise something that the workflow does not translate.

Two constants say whether a lease lasts longer than the work under it
(`RUN_LEASE_SECONDS` = 1200 s, `ACTION_LEASE_SECONDS` = 900 s). With TRUE a lease
expires only when its owner no longer works; with FALSE at any time.

### AuditPromise, the abstract specification of AuditService

What the workflow promises to a caller that repeats a key and to the readers of GitHub: one
run with a status (absent, working, retryable, complete, failed) and a receipt, beside the
draft PR and the issue. `Start`, `Checkpoint` and `Resume` are all that a document does,
`Publish` opens an artifact only for a working run that reports nothing and has nothing
standing, `Doubt` is a completion that was applied and reported as failed. `Overtake` ends the
orderly part: from the first lease granted to a stale copy (or always, if run leases do not
outlive the work) only `Unordered` is left, in which a run is created once, GitHub loses
nothing and no receipt is invented. There are no calls, copies, leases or faults in it. The
refinement mapping takes `Outline(store)` for the status, `Reported(store)` for the receipt,
and `Serial` for `serial`; every step of every call becomes a step of this one run or none.

### IssuePublication (`publish_issue` of `AG/github.py`, both stores) and Publication

One finding, reported by any number of workers and runs. AuditService sees a
publisher through its outcomes; here its requests are separate steps.

| Variable | Code |
|---|---|
| `intent` | the document of the finding in `github_issue_intents`: owner, whether the lease is live, the receipt's issue number or 0 |
| `issues`, `listed` | GitHub: the issues with the marker, and how many of them the list shows already |
| `flying` | POSTs that were abandoned and that GitHub may still apply |
| `pc[p]`, `number[p]`, `result[p]` | the await at which `publish_issue` stands, the issue in its hands, how it ended |
| `posts`, `faults` | bounds |
| `exposed` | history: an intent stopped excluding others while its POST was open |

`Claim`, `ClaimReceipt` and `ClaimTimesOut` are `_wait_for_issue_intent`; `Mint` is
`_installation_token`, none of whose failures becomes `GitHubPublishUncertain`; `Find`
is the search before the POST, in which a broken connection releases the intent; `Send`, `Land` and `Answer` or `Refuse` are the POST,
`AnswerAmbiguous` and `Reconcile` what follows when its outcome is unknown;
`Complete` and `ReleaseIntent` end the call. `Uncertain` keeps the intent, `Release`
is every other exception. Owner names are random and never reused, so the names of
ended calls are one value, `Former`. `ExpireIntent` is the expiry that
`ISSUE_INTENT_LEASE_SECONDS` (300 s) is chosen for: after the call, its POST and the lag of
the list. Each request has a timeout of 15 s, but a search may take up to 100 of them, so
`IntentLapses` lets an intent expire under its owner as well. `Break` is a connection that
ends with `httpx.RemoteProtocolError`, which is neither a `TimeoutException` nor a
`NetworkError` and passes the `except` clauses, once a POST is under way. Either of the two sets the history variable
`exposed`.

`Publication` is what the workflow relies on: at most one artifact appears, at any
time, and a call answers with a receipt only for an artifact that exists, or else that it
failed. `Interfere` ends the promise of one artifact. The refinement mapping takes `issues`
for the artifacts and `exposed` for the interference, and hides the result of a call until it
has released its intent.

### PullRequestPublication (`publish_draft_pull_request` of `AG/github.py`)

One verified candidate, published by any number of workers of any runs. No lease
excludes them: they meet at the branch, whose name and commit are the same for all,
and at GitHub's rule of one open pull request per head and base.

| Variable | Code |
|---|---|
| `at_base` | whether the default branch is still at the verified base |
| `branch`, `pulls`, `draft`, `listed` | GitHub: the commit of the deterministic branch, the pull requests ever opened for it, what the last of them is now, how many the list shows |
| `refs`, `flying` | creations of the branch and of the PR that nobody waits for and GitHub may still apply |
| `pc[p]`, `seen[p]`, `result[p]` | the await of a call, the pull request it holds an answer about, how it ended |
| `knew[p]`, `raced` | history: the list showed a pull request when the call began; the base moved between a call's last check and its POST |

`Find` is `_find_pull_request`, `CheckBase` the three reads of the default branch,
`LookForBranch` to `RefFails` are `_create_or_reconcile_branch`, `Send` to `AnswerFails`
the POST, `Reconcile` the looks after an ambiguous answer, `Verify` is
`_published_pull_request` with the checks of the commit and its tree. `RequestFails`
gives the three classes of failure (uncertain, refused, not translated). `Edit` is a
person who readies, closes, merges, pushes to or deletes the branch, and `MoveBase`
somebody else's commit. `CommitOf` is where the fixed author and date matter: with a
time stamp in the commit a retry could not recognise its own branch. The refinement
mapping to `Publication` takes `pulls` for the artifacts and the first edit for the
interference; a rejection is a refusal.

### RepairCandidate (`AG/remediation.py`, capture and gate of `github.py`, checkpoints of `service.py`)

Several runs of one finding, from the repository to a draft. A candidate is named by
its base commit, because the approved template makes one candidate of one pair of
files. `content` says what every commit holds: the locked preimages, drifted files, or
something that cannot be read. `CaptureRef` and `CaptureFile` are the reads, between which the branch may move,
`BuildArtifact` the comparison of hashes, `Verify` the verification with
`checkpoint_verified_candidate`, `Gate` the checks of `_snapshot_candidate` and
`_require_pull_request_gate`, `Resume` the recovery of an interrupted run. The verifier
and the publisher are single steps here; their own modules have their inside.

### CloudBuildVerifier (`AG/cloudbuild_verifier.py`)

One call of `verify` beside the build it submits. `facts` are what is true of the
artifact, the source and the two versions; the verifier never reads them. Cloud Build
executes the seven trusted steps (`StepHolds` is what each script tests) and may break at
any of them; the code under test may tamper with the workspace (`tree`), as far as the
integrity steps look at it (section 6). A poll reads
the build, possibly with a step or the log left out. `Judgement` is `_interpret` in the
order of its tests, `to_verification_receipt` is what the planner of `ActionPlan` gets, and
`receipt_proves_candidate` is the planner's own definition. `TaskCancelled`, `Crash`,
`SubmissionFails` and `late` are the ways in which a build is left behind.

### ClaimCompilation (`AG/source.py`, `compiler.py`, the capture and compile stages of `service.py`)

The attempts of one run against a page that may change at any time. Quotes are model
values; `Promises` are those with every fragment that the control requires. `Event` is one
event of the model's stream as `collect_output` reads it, of the compiler agent or of
another node; `Coerced` is `_coerce_payload`; `Compile` records the claim before the quote
is grounded, as the code does; `StartAttempt` keeps the claim and the provenance of the
attempt before, as `_reset_interrupted_run` does. `tested` is a history variable: the
claim the control ran for and the page captured in that attempt.

### DeletionControl (`AG/control.py`, `demo_client.py`, `apps/demo_saas`)

Workers that execute the control against the reference service, in its correct or its
defective deployment. The account is a hash of the run's id, so the workers and attempts
of one run share it. Two workers of one run may overlap, because a lease may expire, and a
request may be applied after its caller gave up (`LateRequest`); `disturbed` is a history
variable: somebody else's seed reached the account during the worker's test. The clock of
the service is virtual and fixed, 25 hours between request and observation and one hour
until the processor runs, so the comparisons with 24 hours are kept and time is not a
variable. `Restart` forgets everything, since the stores are in memory.

### GitHubConnection (the connection part of `AG/github.py`)

One-time states, the callback in its awaits (`BeginCallback` consumes the state,
`VerifyInstallation` and `SaveConnection` follow), `Select`, `Disconnect`, and the two users
of the connection: `BindRun` when a run is created, and `Publish`, the check of
`publish_issue` and `_bound_repository`. The Firestore store deletes a state that is
presented to the wrong endpoint and the in-memory store ignores it; `WrongEndpoint` allows
both. `accepted` and `verified` are history variables.

### ConsoleDashboard (`apps/console`, with the run endpoints of `AG/app.py`)

One tab connected to an agent. `Load`, `Click`, `BootstrapPoll`, `PostSettled` and `LivePoll`
are the segments of its handlers between awaits; `pending` is the key in `sessionStorage`,
which survives `Reload`. The button of a displayed run is disabled while `isRunning` or while
that run works, but the button of the empty dashboard is not (`Ready`), so a second click may
open a second `runAudit` beside the first: `Handlers` are the clicks that may be open at once,
each with its key, POST, GET and `pollCount` (`key`, `post`, `reply`, `polls`), over one page and
one pending key. `doubled` and `crossed` are history variables: a click came while another was
open, and it generated a key of its own.

A GET reads the latest run at one moment (`FetchLoad`, `FetchInterim`, `FetchLatest`) and is
applied at a later one; an interim answer that the handler ignores, an error or a run of
another key, is left out. A POST may fail in the tab and still arrive (`StrayArrives`). `Accept`
is what follows a run that was read: the end of the handler, another poll, or the error after
`MAX_LIVE_POLLS`. The agent is reduced to a status per key and the run that started last: the
statuses of AuditPromise, with complete and failed taken together as over. `Work` and
`CreateRun` are its `Checkpoint`, `Start` and `Resume` (a retryable run stays as it is when the
lease is refused); `Reopen` is its `Doubt` and the overwriting of a final document by a stale
copy, and sets the history variable `reopened`. This is the caller that `Redelivery` of
AuditService assumes. `ConsoleInvariant` holds the inductive invariant that
`AuditServiceProofs` proves.

### How the modules fit together

AuditService uses ActionPlan directly, sees every service through its outcomes and implements
AuditPromise, whose changes of status are the agent that ConsoleDashboard calls. The
two publishers are shown to implement `Publication`, which is the part of their behaviour
that AuditService relies on as long as the world does not interfere; CloudBuildVerifier feeds
ActionPlan's own `receipt_proves_candidate`; RepairCandidate chains capture, verification
and publication over several runs.

### Proof modules

Each component's theorems are in a module `<component>Proofs` that extends it.
`AuditServiceProofs` has seven parts: the planner, types, leases and operations, records,
outcomes, the refinement of AuditPromise, and the console, of which it holds an instance
`Console` with variables of its own. See section 5.

## 3. Runs

| Run | Instance | Question | Properties |
|---|---|---|---|
| `audit_concurrent` | 2 calls on 2 instances, 3 attempts, 1 fault, symmetric calls | do duplicate deliveries exclude each other, and is no final run reopened, no receipt lost, no second artifact left standing? Do all calls together behave like one run? | `RunExclusion`, `OneLiveArtifact`, `FinalForever`, `ReceiptKept`, `ImplementsPromise` |
| `audit_lease_expiry` | 2 calls on 2 instances, 2 attempts, run leases expire at any time | what is left when two live workers write one document? | `PublishExclusion`, `SingleRoute` |
| `audit_recovery` | 2 calls on 1 instance, all four deployments, 2 attempts, 2 faults, fairness | is a run recovered correctly from every sequence of checkpoints and faults, and does it become final? | `NoInvalidTransition`, `CompleteMeansPublished`, `DraftNeedsProof`, `NoRestartAfterPublication`, `EventuallySettled` |
| `audit_stale_copy` | 2 calls on 2 instances, no faults | a statement of the documentation that the code does not keep (section 4) | `FailedSafeNeverResumes` |
| `issue_exclusion` | 3 workers, 4 POSTs, 3 faults, fairness | is there one issue, do receipts agree, is `Publication` implemented, and is the receipt recorded in the end? | `OneIssuePerFinding`, `ReceiptsAgree`, `ImplementsPublication`, `EventuallyRecorded` |
| `pull_request` | 2 publishers, 2 faults, 2 edits, a base that moves, fairness | is there one exact draft, are people's decisions and earlier publications respected, and is a candidate published in the end? | `ReceiptsExact`, `HistoryRespected`, `PublishedNeverRejected`, `ImplementsPublication`, `NoStaleDraft`, `EventuallyPublished` |
| `verifier` | any facts, 3 faults, fairness | does a receipt prove the candidate and say no more than the build showed, and does every verification end? | `ReceiptProvesCandidate`, `ReceiptNotInflated`, `EventuallyOver` |
| `repair_safety` | 2 runs, 3 commits with any content, 1 fault | is a candidate always built from one commit, a draft always of a verified candidate on the approved files, and a durable receipt always of the durable candidate? | `CandidateOfOneCommit`, `DraftsWereVerified`, `ReceiptBindsCandidate` |
| `claim_grounding` | both compilers, 4 pages, 2 attempts, 1 fault | does the control run only for promises that the page makes, and is the model's part recorded truthfully? | `TypeOK`, `TestedIsGrounded`, `ProvenanceKept` |
| `control` | 2 workers, 2 runs, both deployments, 3 faults, fairness | is a defective service never reported SUPPORTED and found out in the end, and a correct one contradicted only after a disturbance? | `DefectNeverSupported`, `CorrectNeverContradicted`, `DefectIsFound` |
| `connection_safety` | 2 handoffs, 2 callbacks, 2 installations, 2 repositories, 1 run, 1 change on GitHub | are states used once, and is everything published through a verified installation? | `StateUsedOnce`, `PublishesThroughVerified` |
| `console` | 2 clicks open at once, 2 keys, 1 run of somebody else, 1 poll, 1 fault, fairness | is an unfinished run repeated with its key and never doubled, is what is offered for a retry what a click repeats, and does every click end in a result or an error? | `TypeOK`, `OneUnfinishedRun`, `RetryRepeatsRun`, `ClickSettles` |

The type invariants of AuditService, IssuePublication, PullRequestPublication, DeletionControl,
GitHubConnection, CloudBuildVerifier and RepairCandidate are theorems (section 5) and in no run;
those of ClaimCompilation and ConsoleDashboard are both. Likewise some invariants (`RetryableHasBudget`,
`ConnectionVerified`, `SelectionListed`, the planner's `PlanIsSafe`) appear as theorems only.

Bounds. A call slot is reused by later deliveries, so one call already gives any
number of deliveries in sequence and two calls any number with two at a time;
exclusion and stale copies involve two. Three attempts are the value of
`MAX_RUN_ATTEMPTS`; two keep the retry, the exhausted budget and the difference
between `<` and `>=` where the state space must stay small. Two faults contain the double
failures of the code (a failing save and the failing save of that failure, or a crash
after an uncertain write). In `audit_lease_expiry` the early expiry is the fault. Three
workers are the least with which one call can be stale, one in possession of
the intent and one waiting; a fault is a refusal, a lost answer, a store error, a
failing request, an early expiry, a protocol error or a crash. Only a fault lets a call post
without a receipt, so one POST more than faults never runs out. Two publishers are one that
has posted and one that begins or reconciles; two edits make a situation and undo it (push
and delete, close and delete). Three commits let the branch move twice during one capture.
Two callbacks present the same state, or the states of two handoffs, at once. In the console a
fault is a failing request, a reload, a run started elsewhere or a final document written again;
two open clicks are what a double click makes, and one poll is enough for a late answer and for
the end of the polls, since the loop only compares with `MAX_LIVE_POLLS` (about 800,000 states). Two attempts are enough for a claim of
an earlier attempt to meet a page of a later one. Every bound is a constant named `Max...`.

Deadlock is checked in every run except those of ClaimCompilation, whose run ends with its
route, and of ConsoleDashboard, whose tab has a bounded supply of new keys. Elsewhere a key,
a finding or a candidate can always be reported again, and a finished verification or
repair stutters explicitly.

Fairness. `Fairness` says that an instance continues the calls it has begun and
that an abandoned lease expires; asyncio and the clock justify it. Nothing forces
faults, crashes or a person to act. `Redelivery` is an assumption about the caller:
`scheduled_run` answers 503 with `Retry-After` until the run is final
(`AG/app.py`) and the console repeats its pending key. Without redelivery a crashed
run stays where it is, by design. For issues, `Fairness` says that calls go on, that
GitHub settles abandoned requests and its list catches up, that leases expire, and
that the finding is reported again. For drafts it says the same; no lease is involved.
For the verifier only the call, the clock and the acceptance of a submission are fair: a
build need not make progress. For the control, requests are answered and the audit is
repeated. For the console, requests are answered or fail (`fetch` settles) and callbacks run;
neither the run nor the person has to do anything.

`FinalForever`, `NoRestartAfterPublication`, `ReceiptKept` and `OneLiveArtifact` are stated
under `Serial`: run leases outlive the work, and no call was granted the lease with a copy
older than the document; the orderly part of AuditPromise has the same premise. The second half is a real restriction, and the finding of
`audit_stale_copy` is what happens without it.

## 4. Findings and the limits of the guarantees

`audit_stale_copy`: `create_run` chooses the resumption from the copy that `reserve` returned
before `acquire_run_lease`, and does not read the document again. If another instance takes
the run to `FAILED_SAFE` and releases its lease in between, the second call resets the stale
copy, saves it over the final document and executes the run again. `docs/architecture.md`
says that `FAILED_SAFE` does not resume automatically.

Several properties hold under a condition, and the condition is where the code's guarantee
ends. What happens beyond it:

* Without `~exposed` (`OneIssuePerFinding`): a connection that the server closes without an
  answer raises `RemoteProtocolError`, `publish_issue` releases the intent although the POST may
  have been applied, and the next worker finds no marker in a list that lags and creates a
  second issue. An intent that expires under a slow owner does the same.
* Without `raced` (`NoStaleDraft`): the base is read for the last time before the POST, and
  the default branch may move in between; GitHub offers no conditional creation.
* With edits (`PublishedNeverRejected`, `OneLiveArtifact` which speaks of an untouched draft):
  a draft that a person changed before its receipt was recorded is a rejection, and the
  workflow opens an issue too. A POST without an answer that lands after a retry was rejected
  has the same effect.
* The absence of a receipt proves nothing: a retry that is refused after an uncertain publication ends `FAILED_SAFE` with the limitation that it "stopped without
  external side effects", although the artifact of the first attempt may stand.
* `DraftsWereVerified` allows one draft per base: the fingerprint of a candidate contains its
  base SHA, so an unrelated commit between two occurrences of a finding gives a second draft.
* The ungrounded quote in `ProvenanceKept`: `ClaimCompilationError` has the default
  `model_invoked=False`, which the handler writes over the provenance of the attempt.
* Without `disturbed` (`CorrectNeverContradicted`): a seed that timed out and is applied
  between the deletion and the inspection of the next attempt, or the seed of a second worker
  of the run, puts the data back, and a correct service is reported CONTRADICTED.
* With `reopened` (`OneUnfinishedRun`): a tab that has seen a run complete drops its key, and the
  run may still be written again, as retryable by the call that could not confirm its own
  completion or as working by a call with a stale copy; the next click starts a second run.
* Without `Alone` (`OneUnfinishedRun`): after its POST the tab polls the latest run, whichever
  it is, and a retryable scheduled run replaces the key of the tab's own unfinished run.
* With `crossed` (`OneUnfinishedRun`): two clicks on the empty dashboard share a key. When the
  first has seen the run end it drops the key, and a third click generates another one while
  the second is still open; if the second reads its run as retryable by then, its answer makes
  the old key the pending one again, over the newer unfinished run, and once the old run is over
  the next click starts a second run beside the newer one. Likewise with `doubled`
  (`RetryRepeatsRun`): the handler that ends last decides what is shown, and not always with the
  key that is pending.
* `ClickSettles` speaks of the handler, not of the button: after `MAX_LIVE_POLLS` the run on
  display still works, and the button stays disabled until the page is loaded again.
* A poll of Cloud Build that times out is reported like an exceeded deadline, and a failing
  cancellation is ignored; the verifier's receipt is no evidence in either case
  (`ReceiptNotInflated`).

## 5. Proofs

The theorems hold for every value of the constants that the named assumptions allow. Those
about AuditService hold for every set of calls and instances, every
`MaxAttempts` > 0 and `MaxFaults`, and, where nothing else is said, every choice of the
two lease constants. They assume only the named
assumptions of `AuditService` (`NoCall` is not a call, `InstanceOf` assigns calls to
instances, the settings are settings, the bounds are numbers).

* `TypeCorrect`: `Spec => []TypeOK`. Each record operator maps records to records,
  each building block (`Save`, `Raise`, `Leave`, `Forget`, `Local`) keeps the types,
  and each action is a use of these. `OneMoreAttempt` is where the bound on the
  attempts comes from.
* `RunsExcludeEachOther`: `RunExclusion` is not inductive; the invariant is
  `RunLeaseHeld`, that an executing call owns the run lease. A step of one call
  leaves the locals of the others alone (`Untouched`), so only the lease steps, the
  expiry and the crash matter.
* `RetriesHaveBudget`, `RoutesAreSingle`, `DraftsAreProven`:
  one invariant, `RecordInv`. `Sound` is the promise of a single record, given what
  GitHub holds; it must hold of the document and of every copy, because any copy may
  be saved at any time and no owner is checked. `Placed` is what a call
  knows about its copy where it stands: nothing is planned before routing (else a
  new verdict could invalidate a READY draft), a publishing call works on an action
  its copy still selects, and the `finally` block returns to one of three exits.
  Nothing is assumed about leases.
* `PublicationsExcludeEachOther`: `ActionLeaseHeld`, that a dispatching call owns the
  lease of its action, and `Placed`, that a publishing call is dispatching. Run
  leases may expire under their owners.
* `TransitionsAreValid` and `CompletionsArePublished`: neither `NoInvalidTransition` nor
  `CompleteMeansPublished` is inductive, because `fail_run` and the resets rewrite status, stage
  and event by hand and a later call resumes what they left. `FormInv` says of every record,
  the document and all copies, that it is `Formed`: status, stage, event, plan and receipt fit
  each other (a routed record has selected an action for a contradiction; once its stage has
  succeeded it has a receipt exactly if it could publish), and of every call that its copy is
  `Poised` for the control point where it stands or to which its `finally` block returns.
  Since a save checks no owner, the claim about all records is what makes the step from a copy
  to the document go through. Nothing is assumed about leases.
* `ArtifactsAreSingle`, `ReceiptsAreKept`, `NoRestartsAfterPublication`, `FinalIsForever`: one
  invariant, `SerialInv`, on top of `RecordInv`, `FormInv` and the exclusion of runs. `Reconciled`
  is its core: a record that does not end the run accounts for what GitHub holds, by selecting or
  reporting it, at a stage from which a retry reconciles instead of starting again. The document
  is `Reconciled`, and so is the copy of the one executing call, which is `Steady`: it carries
  every receipt of the document, equals the document while it dispatches, and falls back to
  the issue only when GitHub holds nothing. The premise `Serial` enters where a lease is granted:
  the copy is then the document. An uncertain publication is the delicate case, in which GitHub
  may hold an artifact before any record has its receipt.
* `AuditKeepsItsPromise`: `Spec => ImplementsPromise`. The mapping is simple and the steps are
  not: that a publication meets `NothingStands` and an empty receipt needs `Reconciled`, that a
  checkpoint adds only receipts for what GitHub holds needs `Sound`, that it drops none needs
  `Steady`. Two invariants are new. `BegunInv` says that nothing precedes the reservation and
  that a call about to save a failure has a failed record. `RetryInv` says that, as long as
  executions are serial, no task works on a retryable document (so every way out of it is a
  resumption), that a resumption reports nothing new, and that the failure record which
  replaces an unconfirmed COMPLETE document reports the same. `Moves` sorts the steps of a
  task by the status they leave, `DocumentWriters` and `GitHubWriters` say who writes what, and
  there is one lemma per abstract step. Nothing is assumed about leases: what they are needed
  for is in the abstract specification.
* Console (`ConsoleTypeCorrect`, `ConsoleKeepsOneRun`, `ConsoleRetriesWhatItShows`), for any sets
  of keys and any number of open clicks, polls and faults: `OneUnfinishedRun` is not inductive,
  because a request in flight may create a run or carry an answer that is out of date.
  `ConsoleInv` says that a request is open only in the state of the handler that waits for it
  (`TabInv`), that answers name created runs (`CreatedInv`), that an answer "over" stays right
  (`OverInv`), and in `PendingInv` that every run that is unfinished or may still be created by a
  POST under way is the pending one, that all open clicks have one key, and that an unfinished
  run in an answer yet to be applied is of that key. `RetryInv` is what `RetryRepeatsRun` needs:
  as long as clicks do not overlap, the open click's key is pending and no load is under way
  beside it. The hypothesis `ConsoleParameters` repeats the assumptions of `ConsoleDashboard` on
  its constants.
* `PlansAreSafe`: by cases on the verdict, the proof and the escalation, for any number of
  contradictions in a row.
* `AllReceiptsAgree`: `ReceiptsAgree` for any number of workers, with leases that expire
  at any time and any error. `AgreeInv` adds that a completed intent has no owner, so
  no release can remove it, that a call in progress has not returned a receipt, and
  that a call about to complete holds a real issue.
* `OneIssue`: at most one issue until an intent is exposed. `OneIssuePerFinding` is not
  inductive: a POST may be awaited or abandoned. `OneIssueInv` counts both, says that
  GitHub is `Settled` (nothing abandoned, the list complete) whenever the intent may be
  claimed, and says in `Known` what a worker knows where it stands: it owns a live
  intent; before its search GitHub is settled; between an empty search and its POST
  there is no issue and nothing abandoned. So whoever searches sees everything.
  `GuardedInv` is this invariant as long as nothing was exposed, which only grows.
* `Refinement`: `Spec => ImplementsPublication`, without conditions. One lemma
  per kind of step (a failure, no answer yet, a receipt, a hidden step) and the extra
  invariant `Unanswered`, that a call in progress has no result. `TypeCorrect` is proved apart.
* Draft pull requests, for any number of publishers, edits and faults: `TypeCorrect`,
  `AllReceiptsExact` and `HistoryIsRespected` rest on `CoreInv`, which adds to the types what
  `seen` holds where a call stands (a verifying call knows an existing pull request) and
  that a call which knew of a pull request is at none of the points that lead to a POST;
  the list never shrinks, so its first search finds something. No assumption is made on the
  base, on people or on other publishers.
* `PublishedIsNotRejected` and `Refinement`: `AloneInv` says that, until the first edit, GitHub
  is as the publishers left it (`GitHubAlone`: the branch is absent or the candidate, a
  pull request implies the branch, there is one at most and it is intact) and that the heads
  that calls hold are the candidate. So whoever is told that the branch exists finds the
  candidate, and a second POST is answered with 422. After the first edit the abstract
  specification only asks that receipts name an existing pull request. `StepKind` sorts the
  steps into those that answer a call and those that do not.
* `DraftsAreNotStale`: `Timely` says that the base has not moved, or moved under a call that
  was past its last check, or no call is past it and nothing is in flight.
* Connection (`TypeCorrect`, `StatesAreUsedOnce`, `SelectionsAreListed`, `ConnectionsAreVerified`,
  `PublicationsAreVerified`): one invariant, `ConnInv`. `StateUsedOnce` is not inductive: `FlowOK` says that
  a handoff whose OAuth state is outstanding has let nobody in, and that an installation is
  recorded only when the install state is gone, so no second OAuth state is issued.
  `ConnectionVerified` and `PublishesThroughVerified` follow because `verified` only grows.
* Control: `DefectsAreNotSupported` for any overlap, late request and restart. `DefectInv` says in
  `RecordKept` that a defective service keeps an analytics record for every account it
  knows, so no inspection passes. `CorrectIsNotContradicted`: `CorrectInv` says that an
  undisturbed worker about to inspect has an account without records, or one that a restart
  forgot.
* Repair (`TypeCorrect`, `CandidatesAreOfOneCommit`, `ReceiptsBind`, `DraftsAreVerified`), for any
  number of runs and commits with any content: `CaptureInv` says that every captured file is the
  base commit's, which changes only when the captured files are dropped. `RepairInv` adds that the durable candidate of an authorizing receipt
  was verified, and that a build verifies approved files only. The types need `Based`: a
  capture that reads files has a base commit to read from.
* Verifier (`TypeCorrect`, `ReceiptsProveCandidates`, `ReceiptsAreNotInflated`): `VerifierInv` has
  three sides. The build's: steps succeed in order, each only if what its script tests is true,
  and a build succeeds only on the exact candidate. The call's: nothing is executed for an
  invalid artifact. The outcome's: every result it reports is that of a step of the build. A
  poll is older than the outcome drawn from it, so the proof needs that nothing an outcome relies
  on is taken back (`Persists`): a step's success stays and an ended build does not change.
* Claims (`TypeCorrect`, `TestsAreGrounded`, `ProvenanceIsKept`), for every set of pages and quotes
  and every model output: `GroundInv` says that from the compiler to the probe the claim is about
  the capture of the attempt, which says its quote, so neither an edit of the page nor a claim
  of an earlier attempt can reach the control; `GroundedSays` is the lemma about the grounding
  check. `ProvInv` ties the provenance in the record to the event stream at each await, and says
  that an attempt in progress is not a failed run, so a crash never turns a lost answer into a
  failure without provenance.

Only model-checked:

* liveness (`EventuallySettled`, `EventuallyRecorded`, `EventuallyPublished`, `EventuallyOver`,
  `DefectIsFound`, `ClickSettles`): it rests on fairness, which TLAPS cannot reason about;
* `FailedSafeNeverResumes`, which the code violates (section 4).

Every invariant, action property and refinement of the passing runs is a theorem.

TLC checked the inductive invariants `FormInv`, `SerialInv`, `BegunInv`, `RetryInv`, `ConsoleInv`,
`CaptureInv`, `RepairInv`, `VerifierInv`, `GroundInv` and `ProvInv` on the instances of their components' runs as well.

## 6. What is not modelled

* In AuditService, the requests of both publishers and of the other services: a POST that
  takes effect after the publisher has given up, lists that lag and other runs with the
  same finding are in the publishers' own modules instead. In particular a rejection happens
  only when no untouched draft stands; `OneLiveArtifact` relies on it.
* In PullRequestPublication, a default branch that moves away and back to the base, which
  would need a force push, and a person who retargets the draft to another base: the search
  filters by base and would no longer find it.
* In CloudBuildVerifier, files that the integrity steps do not see: they compare tracked files
  (`git diff`) and the hashes of the two candidate files, and dependencies or other files that are
  ignored or untracked may be changed by the code under test without a trace. `tree` is the
  part that they see, and `ReceiptProvesCandidate` is relative to it.
* A person who deletes or edits the issue, so that its marker disappears.
* A `reserve` that fails after its transaction was applied: to the document it is
  a crash right after `Reserve`, which the model has.
* Bytes and text: the patch itself, HTML parsing, prompts, Markdown bodies, formatting,
  logging. They keep no state; the models keep what is decided by them.
* Signatures, encryption and token scopes, which are taken to be sound; HTTP
  authentication and serialisation; parsing of environment variables.
* In ConsoleDashboard, the repository's state, which may disable the button, is taken as ready.
* The console's sessions are a signed cookie without server state, and its static fixture
  and rendering have no behaviour of their own to check.
* Deployment scripts and evaluation fixtures.

## 7. Plan

1. Done: `ActionPlan`, `AuditService` with `AuditPromise`, `IssuePublication` with `Publication`,
   `PullRequestPublication`, `RepairCandidate`, `CloudBuildVerifier`, `ClaimCompilation`,
   `DeletionControl`, `GitHubConnection`, `ConsoleDashboard`, and the proofs of section 5.
2. Done: proofs of every safety invariant, action property and refinement of the runs.
3. Left: a promise for several keys, in which `latest` of ConsoleDashboard and its per-key
   statuses are a refinement target as well; the hazards without a property in PROJECT.json.
