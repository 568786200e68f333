----------------------- MODULE PullRequestPublication -----------------------
(***************************************************************************)
(* GitHubService.publish_draft_pull_request (github.py) called by any      *)
(* number of workers and runs for one verified candidate: the checks of    *)
(* the default branch, the candidate's objects, the deterministic branch,  *)
(* the draft pull request and the reconciliation of ambiguous answers.     *)
(*                                                                         *)
(* No lease excludes publishers of different runs from each other: they    *)
(* meet at the branch, whose name and commit are the same for all of them, *)
(* and at GitHub's rule of one open pull request per head and base.  Of    *)
(* the pull requests of the branch only the last can be open.              *)
(***************************************************************************)
EXTENDS Naturals

CONSTANTS
    Publishers,  \* workers that publish the candidate, each one call at a time
    BaseMoves,   \* the default branch may leave the verified base
    MaxEdits,    \* bound on what a person does to the branch and its pull requests
    MaxFaults    \* bound on failing requests and crashes

ASSUME ModeAssumption == BaseMoves \in BOOLEAN
ASSUME BoundAssumption == MaxEdits \in Nat /\ MaxFaults \in Nat

VARIABLES
    at_base,   \* GitHub: the default branch is at the verified base
    branch,    \* GitHub: the commit of the deterministic branch
    pulls,     \* GitHub: pull requests ever opened for the branch
    draft,     \* GitHub: what the last of them is now
    listed,    \* GitHub: how many of them the list shows
    refs,      \* branch creations that nobody waits for and GitHub may still apply
    flying,    \* PR creations that nobody waits for and GitHub may still apply
    pc,        \* the await at which each call stands
    seen,      \* the pull request each call holds an answer about
    result,    \* how each call ended
    edits,     \* a person's edits so far
    faults,    \* faults so far
    knew,      \* history: the list showed a pull request when the call began
    raced      \* history: the base moved between a call's last check and its POST

github == <<at_base, branch, pulls, draft, listed, refs, flying, edits, raced>>
locals == <<pc, seen, result, knew>>
vars == <<github, locals, faults>>

Results == {"none", "receipt", "uncertain", "refused", "raised", "rejected"}

\* Where a call verifies the pull request that a list or an answer showed it.
Verifying == {"verify_found", "verify_posted", "verify_reconciled"}

Posting == {"post", "waiting", "landed", "verify_posted", "reconcile", "verify_reconciled"}

Points == {"idle", "gate", "find", "check_start", "objects", "check_objects", "look",
           "create_ref", "ref_waiting", "reconcile_ref", "check_ref", "find_again"}
          \cup Posting \cup Verifying

Commits == {"absent", "candidate", "other"}

Drafts == {"intact", "edited", "closed"}

Pulls == [number : Nat, head : Commits]

NoPull == [number |-> 0, head |-> "absent"]

TypeOK ==
    /\ at_base \in BOOLEAN /\ raced \in BOOLEAN
    /\ branch \in Commits /\ draft \in Drafts
    /\ pulls \in Nat /\ listed \in 0 .. pulls
    /\ refs \in Nat /\ flying \in Nat
    /\ pc \in [Publishers -> Points]
    /\ seen \in [Publishers -> Pulls]
    /\ \A p \in Publishers : seen[p].number <= pulls
    /\ result \in [Publishers -> Results]
    /\ knew \in [Publishers -> BOOLEAN]
    /\ edits \in 0 .. MaxEdits /\ faults \in 0 .. MaxFaults

Init ==
    /\ at_base = TRUE /\ raced = FALSE
    /\ branch = "absent" /\ draft = "closed"
    /\ pulls = 0 /\ listed = 0 /\ refs = 0 /\ flying = 0
    /\ pc = [p \in Publishers |-> "idle"]
    /\ seen = [p \in Publishers |-> NoPull]
    /\ result = [p \in Publishers |-> "none"]
    /\ knew = [p \in Publishers |-> FALSE]
    /\ edits = 0 /\ faults = 0

-----------------------------------------------------------------------------
Fault == faults < MaxFaults /\ faults' = faults + 1

Goto(p, target) ==
    /\ pc' = [pc EXCEPT ![p] = target]
    /\ UNCHANGED <<seen, result, knew>>

End(p, ending, pull) ==
    /\ pc' = [pc EXCEPT ![p] = "idle"]
    /\ seen' = [seen EXCEPT ![p] = pull]
    /\ result' = [result EXCEPT ![p] = ending]
    /\ UNCHANGED knew

Reject(p) == End(p, "rejected", NoPull) /\ UNCHANGED faults

\* A request that fails: a timeout or network error is uncertain, an unexpected answer
\* is refused, and what httpx calls a protocol error is raised as it is.
RequestFails(p) ==
    /\ Fault
    /\ \E ending \in {"uncertain", "refused", "raised"} : End(p, ending, NoPull)

\* Mutant: the commit carries the time of the call.
CommitOf_stamped(p) == IF p = CHOOSE q \in Publishers : TRUE THEN "candidate" ELSE "other"

\* The commit of the candidate, the same for every publisher: its parent, tree, message,
\* author and date are fixed.
CommitOf(p) == "candidate"

\* Mutant: what the commit contains is not looked at.
Exact_unverified(commit) == commit # "absent"

\* _commit_tree_sha and _verify_candidate_tree: the commit's only parent is the verified
\* base and its tree is the base's with the candidate's files.
Exact(commit) == commit = "candidate"

-----------------------------------------------------------------------------
(* Steps of publish_draft_pull_request *)

Start(p) ==
    /\ pc[p] = "idle"
    /\ pc' = [pc EXCEPT ![p] = "gate"]
    /\ seen' = [seen EXCEPT ![p] = NoPull]
    /\ result' = [result EXCEPT ![p] = "none"]
    /\ knew' = [knew EXCEPT ![p] = listed > 0]
    /\ UNCHANGED <<github, faults>>

\* Mutant: the base is checked before an earlier publication is looked for.
Authorize_base_first(p) ==
    /\ pc[p] = "gate"
    /\ \/ at_base /\ Goto(p, "find") /\ UNCHANGED faults
       \/ ~at_base /\ Reject(p)
       \/ RequestFails(p)
    /\ UNCHANGED github

\* The bound repository, the installation's identity, its token and the token's scope.
Authorize(p) ==
    /\ pc[p] = "gate"
    /\ \/ Goto(p, "find") /\ UNCHANGED faults
       \/ RequestFails(p)
    /\ UNCHANGED github

\* Mutant: closed pull requests are not listed.
Listed_open == IF draft = "closed" THEN 0 ELSE listed

\* _find_pull_request lists pull requests of every state.
Listed == listed

\* The list shows one pull request, open, draft and marked.
OneIntact == Listed = 1 /\ pulls = 1 /\ draft = "intact"

Examine(p, target) ==
    /\ pc' = [pc EXCEPT ![p] = target]
    /\ seen' = [seen EXCEPT ![p] = [number |-> 1, head |-> branch]]
    /\ UNCHANGED <<result, knew, faults>>

\* _find_pull_request at the start of a call and after the branch was created.
Find(p) ==
    /\ pc[p] \in {"find", "find_again"}
    /\ \/ Listed = 0 /\ UNCHANGED faults
          /\ Goto(p, IF pc[p] = "find" THEN "check_start" ELSE "post")
       \/ OneIntact /\ Examine(p, "verify_found")
       \/ Listed > 0 /\ ~OneIntact /\ Reject(p)
       \/ RequestFails(p)
    /\ UNCHANGED github

\* What follows each check of the default branch.
AfterCheck == [check_start |-> "objects", check_objects |-> "look", check_ref |-> "find_again"]

\* Mutant: the base is not checked again once the branch exists.
CheckBase_early(p) ==
    /\ pc[p] \in DOMAIN AfterCheck
    /\ \/ /\ at_base \/ pc[p] = "check_ref"
          /\ Goto(p, AfterCheck[pc[p]]) /\ UNCHANGED faults
       \/ ~at_base /\ pc[p] # "check_ref" /\ Reject(p)
       \/ RequestFails(p)
    /\ UNCHANGED github

CheckBase(p) ==
    /\ pc[p] \in DOMAIN AfterCheck
    /\ \/ at_base /\ Goto(p, AfterCheck[pc[p]]) /\ UNCHANGED faults
       \/ ~at_base /\ Reject(p)
       \/ RequestFails(p)
    /\ UNCHANGED github

\* Blobs, tree and commit are content-addressed: writing them twice changes nothing, and
\* nothing refers to them yet.
CreateObjects(p) ==
    /\ pc[p] = "objects"
    /\ \/ Goto(p, "check_objects") /\ UNCHANGED faults
       \/ RequestFails(p)
    /\ UNCHANGED github

\* _create_or_reconcile_branch before its POST, and its looks after an ambiguous answer.
LookForBranch(p) ==
    /\ pc[p] \in {"look", "reconcile_ref"}
    /\ \/ branch = "absent" /\ pc[p] = "look" /\ Goto(p, "create_ref") /\ UNCHANGED faults
       \/ /\ branch = "absent" /\ pc[p] = "reconcile_ref"
          /\ End(p, "uncertain", NoPull) /\ UNCHANGED faults
       \/ branch = CommitOf(p) /\ Goto(p, "check_ref") /\ UNCHANGED faults
       \/ branch \notin {"absent", CommitOf(p)} /\ Reject(p)
       \/ RequestFails(p)
    /\ UNCHANGED github

SendRef(p) ==
    /\ pc[p] = "create_ref"
    /\ Goto(p, "ref_waiting")
    /\ UNCHANGED <<github, faults>>

\* Status 201: GitHub creates a ref only where there is none.
RefCreated(p) ==
    /\ pc[p] = "ref_waiting"
    /\ branch = "absent"
    /\ branch' = CommitOf(p)
    /\ Goto(p, "check_ref")
    /\ UNCHANGED <<at_base, pulls, draft, listed, refs, flying, edits, raced, faults>>

\* Status 422: the branch was created in the meantime.
RefExists(p) ==
    /\ pc[p] = "ref_waiting"
    /\ branch # "absent"
    /\ Goto(p, "reconcile_ref")
    /\ UNCHANGED <<github, faults>>

Created(p) == IF branch = "absent" THEN CommitOf(p) ELSE branch

\* The ref was created, will be or never is.  Only a status may say that it was not, and a
\* malformed receipt fails the call although it was.
RefFails(p) ==
    /\ pc[p] = "ref_waiting"
    /\ Fault
    /\ \/ /\ Goto(p, "reconcile_ref") \/ End(p, "raised", NoPull)
          /\ \/ refs' = refs + 1 /\ UNCHANGED branch
             \/ refs' = refs /\ branch' \in {branch, Created(p)}
       \/ End(p, "refused", NoPull) /\ branch' \in {branch, Created(p)} /\ UNCHANGED refs
    /\ UNCHANGED <<at_base, pulls, draft, listed, flying, edits, raced>>

\* client.post: the request for a draft is on its way.
Send(p) ==
    /\ pc[p] = "post"
    /\ Goto(p, "waiting")
    /\ UNCHANGED <<github, faults>>

\* GitHub's rule: the branch exists and has no open pull request.
MayOpen == branch # "absent" /\ draft = "closed"

Open ==
    /\ MayOpen
    /\ pulls' = pulls + 1
    /\ draft' = "intact"
    /\ UNCHANGED raced

\* GitHub applies the POST while its answer is awaited.
Land(p) ==
    /\ pc[p] = "waiting"
    /\ Open
    /\ pc' = [pc EXCEPT ![p] = "landed"]
    /\ seen' = [seen EXCEPT ![p] = [number |-> pulls + 1, head |-> branch]]
    /\ UNCHANGED <<at_base, branch, listed, refs, flying, edits, result, knew, faults>>

\* Status 201.
Answer(p) ==
    /\ pc[p] = "landed"
    /\ Goto(p, "verify_posted")
    /\ UNCHANGED <<github, faults>>

\* Status 422: somebody else's pull request is open, or the branch is gone.
AlreadyOpen(p) ==
    /\ pc[p] = "waiting"
    /\ ~MayOpen
    /\ Goto(p, "reconcile")
    /\ UNCHANGED <<github, faults>>

\* Nobody waits for p's POST any longer: it is applied already, lost, or still under way.
StopWaiting(p) ==
    /\ \/ flying' = flying
       \/ pc[p] = "waiting" /\ flying' = flying + 1
    /\ UNCHANGED <<at_base, branch, pulls, draft, listed, refs, edits, raced>>

\* Mutant: an ambiguous answer counts as a publication.
AnswerAmbiguous_published(p) ==
    /\ pc[p] \in {"waiting", "landed"}
    /\ Fault
    /\ StopWaiting(p)
    /\ End(p, "receipt", [number |-> pulls, head |-> CommitOf(p)])

\* Timeout, network error, ambiguous status or malformed receipt.
AnswerAmbiguous(p) ==
    /\ pc[p] \in {"waiting", "landed"}
    /\ Fault
    /\ StopWaiting(p)
    /\ pc' = [pc EXCEPT ![p] = "reconcile"]
    /\ seen' = [seen EXCEPT ![p] = NoPull]
    /\ UNCHANGED <<result, knew>>

\* A status that says the POST was not applied, or a protocol error, which says nothing.
AnswerFails(p) ==
    /\ pc[p] \in {"waiting", "landed"}
    /\ Fault
    /\ \/ pc[p] = "waiting" /\ End(p, "refused", NoPull) /\ UNCHANGED github
       \/ StopWaiting(p) /\ End(p, "raised", NoPull)

\* Errors of the looks are kept for the final one; a protocol error is not caught.
ReconciliationFails(p) ==
    /\ Fault
    /\ \E ending \in {"uncertain", "raised"} : End(p, ending, NoPull)

\* The looks at the list after an ambiguous POST, never another POST.
Reconcile(p) ==
    /\ pc[p] = "reconcile"
    /\ \/ Listed = 0 /\ End(p, "uncertain", NoPull) /\ UNCHANGED faults
       \/ OneIntact /\ Examine(p, "verify_reconciled")
       \/ Listed > 0 /\ ~OneIntact /\ Reject(p)
       \/ ReconciliationFails(p)
    /\ UNCHANGED github

\* _published_pull_request: the branch still is the head that the list or the answer
\* showed, and the head is the exact candidate.  After its own POST a failing check is
\* followed by reconciliation, and while reconciling by an uncertain ending.
Verify(p) ==
    /\ pc[p] \in Verifying
    /\ \/ /\ branch = seen[p].head /\ Exact(branch)
          /\ End(p, "receipt", seen[p]) /\ UNCHANGED faults
       \/ ~(branch = seen[p].head /\ Exact(branch)) /\ Reject(p)
       \/ pc[p] = "verify_found" /\ RequestFails(p)
       \/ pc[p] = "verify_posted" /\ Fault /\ (Goto(p, "reconcile") \/ End(p, "raised", NoPull))
       \/ pc[p] = "verify_reconciled" /\ ReconciliationFails(p)
    /\ UNCHANGED github

-----------------------------------------------------------------------------
(* The environment *)

\* GitHub applies or drops a branch creation or a POST that nobody waits for.
SettleRef ==
    /\ refs > 0
    /\ refs' = refs - 1
    /\ branch' \in {branch, IF branch = "absent" THEN "candidate" ELSE branch}
    /\ UNCHANGED <<at_base, pulls, draft, listed, flying, edits, raced, locals, faults>>

SettlePost ==
    /\ flying > 0
    /\ flying' = flying - 1
    /\ Open \/ UNCHANGED <<pulls, draft, raced>>
    /\ UNCHANGED <<at_base, branch, listed, refs, edits, locals, faults>>

\* GitHub's list catches up.
List ==
    /\ listed < pulls
    /\ listed' = listed + 1
    /\ UNCHANGED <<at_base, branch, pulls, draft, refs, flying, edits, raced, locals, faults>>

\* A call has checked the base for the last time and its POST is not applied yet.
Committed == flying > 0 \/ \E p \in Publishers : pc[p] \in {"find_again", "post", "waiting"}

\* The default branch leaves the verified base.
LeaveBase == at_base' = FALSE /\ raced' = (raced \/ Committed)

MoveBase ==
    /\ BaseMoves /\ at_base
    /\ LeaveBase
    /\ UNCHANGED <<branch, pulls, draft, listed, refs, flying, edits, locals, faults>>

\* A person readies the draft or removes its marker, closes or merges it, pushes to the
\* branch or deletes it, which closes its pull request.  Nobody retargets it to another base.
Edit ==
    /\ edits < MaxEdits /\ edits' = edits + 1
    /\ \/ draft = "intact" /\ draft' \in {"edited", "closed"} /\ UNCHANGED <<branch, at_base, raced>>
       \/ draft # "closed" /\ draft' = "closed" /\ LeaveBase /\ UNCHANGED branch
       \/ branch # "absent" /\ branch' = "other" /\ UNCHANGED <<draft, at_base, raced>>
       \/ branch # "absent" /\ branch' = "absent" /\ draft' = "closed" /\ UNCHANGED <<at_base, raced>>
    /\ UNCHANGED <<pulls, listed, refs, flying, locals, faults>>

\* The worker is cancelled or its instance stops.
Crash(p) ==
    /\ pc[p] # "idle"
    /\ Fault
    /\ End(p, "raised", NoPull)
    /\ \/ StopWaiting(p)
       \/ /\ pc[p] = "ref_waiting" /\ refs' = refs + 1
          /\ UNCHANGED <<at_base, branch, pulls, draft, listed, flying, edits, raced>>

Step(p) ==
    \/ Authorize(p) \/ Find(p) \/ CheckBase(p) \/ CreateObjects(p) \/ LookForBranch(p)
    \/ SendRef(p) \/ RefCreated(p) \/ RefExists(p) \/ RefFails(p)
    \/ Send(p) \/ Land(p) \/ Answer(p) \/ AlreadyOpen(p) \/ AnswerAmbiguous(p)
    \/ AnswerFails(p) \/ Reconcile(p) \/ Verify(p)

Next ==
    \/ \E p \in Publishers : Start(p) \/ Step(p) \/ Crash(p)
    \/ SettleRef \/ SettlePost \/ List \/ MoveBase \/ Edit

Spec == Init /\ [][Next]_vars

\* Calls go on, GitHub's list catches up, and a run without a receipt is delivered again.
Fairness ==
    /\ \A p \in Publishers : WF_vars(Step(p)) /\ WF_vars(Start(p))
    /\ WF_vars(SettleRef) /\ WF_vars(SettlePost) /\ WF_vars(List)

FairSpec == Spec /\ Fairness

-----------------------------------------------------------------------------
\* publish_draft_pull_request as the workflow sees it.
Abstract == INSTANCE Publication
    WITH artifacts <- pulls,
         answer <- [p \in Publishers |->
                       IF result[p] = "rejected" THEN "refused" ELSE result[p]],
         receipt <- [p \in Publishers |->
                       IF result[p] = "receipt" THEN seen[p].number ELSE 0],
         touched <- edits > 0

\* publish_draft_pull_request keeps what the workflow relies on: until a person interferes,
\* one draft however many calls, and receipts only of pull requests that exist.
ImplementsPublication == Abstract!Spec

\* A receipt is of a pull request that had the exact candidate as its head, also when a
\* person pushes to the branch, closes the draft or deletes the branch at any moment.
ReceiptsExact ==
    \A p \in Publishers :
        result[p] = "receipt" => seen[p].number \in 1 .. pulls /\ seen[p].head = "candidate"

\* A person has the last word: once the list shows a pull request of the candidate, in
\* whatever state, no call that begins later opens another one.
HistoryRespected == \A p \in Publishers : knew[p] => pc[p] \notin {"post", "waiting", "landed"}

\* Until a person interferes, a call that begins when the draft is published is not
\* rejected, although the default branch has moved ("A prior successful call is safe to
\* reconcile"): a rejection would make the workflow open an issue too.
PublishedNeverRejected ==
    edits = 0 => \A p \in Publishers : knew[p] => result[p] # "rejected"

\* "A branch is harmless and recoverable; opening a stale PR is not": a draft is opened on a
\* base that has moved only if the base moved between the last check of some call and its
\* POST, which GitHub's interface cannot exclude.
NoStaleDraft == [][pulls' # pulls => at_base \/ raced]_vars

\* Unless the default branch moves or a person interferes, the candidate is published and
\* a call gets its receipt, although attempts die at any request.
EventuallyPublished ==
    <>(~at_base \/ edits > 0 \/ \E p \in Publishers : result[p] = "receipt")
=============================================================================
