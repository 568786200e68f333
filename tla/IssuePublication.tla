-------------------------- MODULE IssuePublication --------------------------
(***************************************************************************)
(* GitHubService.publish_issue (github.py) called by any number of workers *)
(* and runs for one finding: the durable issue intent with its lease, the  *)
(* search for the marker, the POST and the reconciliation of an ambiguous  *)
(* answer.                                                                 *)
(*                                                                         *)
(* The issues of the finding are numbered in the order in which they are   *)
(* created; GitHub's list shows the first "listed" of them, newest first.  *)
(* Every call has an owner name of its own: Former stands for the names of *)
(* calls that are over.                                                    *)
(***************************************************************************)
EXTENDS Naturals

CONSTANTS
    Publishers,           \* workers that report the finding, each one call at a time
    Nobody,               \* the owner of an absent or completed intent
    Former,               \* a call that is over
    MaxPosts,             \* bound on POSTs; more than MaxFaults, so that one is answered
    MaxFaults             \* bound on failing requests, store errors, delays and crashes

ASSUME OwnerAssumption ==
    Nobody \notin Publishers /\ Former \notin Publishers /\ Nobody # Former
ASSUME BoundAssumption == MaxPosts \in Nat /\ MaxFaults \in Nat

VARIABLES
    intent,   \* the document of the finding in github_issue_intents
    issues,   \* GitHub: issues that carry the marker
    listed,   \* GitHub: how many of them the issue list shows
    flying,   \* POSTs that nobody waits for and GitHub may still apply
    posts,    \* POSTs decided so far
    pc,       \* the await at which each call stands
    result,   \* how each call ended
    number,   \* the issue each call holds a receipt of, 0 if none
    faults,   \* faults so far
    exposed   \* history: an intent stopped excluding others while its POST was open

vars == <<intent, issues, listed, flying, posts, pc, result, number, faults, exposed>>

Results == {"none", "receipt", "uncertain", "refused", "raised"}

Points == {"idle", "claim", "mint", "find", "post", "waiting", "landed", "reconcile",
           "complete", "release"}

\* The call owns the intent or believes it does.
Working == Points \ {"idle", "claim"}

Intents == [owner : Publishers \cup {Nobody, Former}, live : BOOLEAN, number : Nat]

NoIntent == [owner |-> Nobody, live |-> FALSE, number |-> 0]

TypeOK ==
    /\ intent \in Intents /\ intent.number <= issues
    /\ issues \in Nat /\ listed \in 0 .. issues /\ flying \in Nat
    /\ posts \in 0 .. MaxPosts
    /\ pc \in [Publishers -> Points]
    /\ result \in [Publishers -> Results]
    /\ number \in [Publishers -> 0 .. issues]
    /\ faults \in 0 .. MaxFaults /\ exposed \in BOOLEAN

Init ==
    /\ intent = NoIntent
    /\ issues = 0 /\ listed = 0 /\ flying = 0 /\ posts = 0
    /\ pc = [p \in Publishers |-> "idle"]
    /\ result = [p \in Publishers |-> "none"]
    /\ number = [p \in Publishers |-> 0]
    /\ faults = 0 /\ exposed = FALSE

-----------------------------------------------------------------------------
github == <<issues, listed, flying, posts>>

Goto(p, target) == pc' = [pc EXCEPT ![p] = target]
Fault == faults < MaxFaults /\ faults' = faults + 1

\* The intent as other calls see it when the owner p is over: its name is not used again.
Disowned(i, p) == IF i.owner = p THEN [i EXCEPT !.owner = Former] ELSE i

\* publish_issue ends; i is the intent it leaves.
End(p, ending, n, i) ==
    /\ Goto(p, "idle")
    /\ result' = [result EXCEPT ![p] = ending]
    /\ number' = [number EXCEPT ![p] = n]
    /\ intent' = Disowned(i, p)

\* GitHubPublishUncertain keeps the intent until it expires.
Uncertain(p) == End(p, "uncertain", 0, intent)

\* Every other exception goes through the finally block that releases the intent.
Release(p, ending) ==
    /\ Goto(p, "release")
    /\ result' = [result EXCEPT ![p] = ending]
    /\ number' = [number EXCEPT ![p] = 0]
    /\ UNCHANGED intent

-----------------------------------------------------------------------------
(* Steps of publish_issue *)

Start(p) ==
    /\ pc[p] = "idle"
    /\ Goto(p, "claim")
    /\ result' = [result EXCEPT ![p] = "none"]
    /\ number' = [number EXCEPT ![p] = 0]
    /\ UNCHANGED <<intent, github, faults, exposed>>

\* The repository is no longer connected, available or writable.
NotConnected(p) ==
    /\ pc[p] = "claim"
    /\ Fault
    /\ End(p, "refused", 0, intent)
    /\ UNCHANGED <<github, exposed>>

\* Mutant: an expired claim still excludes.
Free_unexpired(i) == i.owner = Nobody

\* Nobody's claim excludes another one.
Free(i) == i.owner = Nobody \/ ~i.live

Claimed(p) == [owner |-> p, live |-> TRUE, number |-> 0]

\* claim_issue_intent: a completed intent answers at once.
ClaimReceipt(p) ==
    /\ pc[p] = "claim"
    /\ intent.number # 0
    /\ End(p, "receipt", intent.number, intent)
    /\ UNCHANGED <<github, faults, exposed>>

Claim(p) ==
    /\ pc[p] = "claim"
    /\ intent.number = 0 /\ Free(intent)
    /\ intent' = Claimed(p)
    /\ Goto(p, "mint")
    /\ UNCHANGED <<github, result, number, faults, exposed>>

\* Mutant: a claim held by another worker counts as a publication.
ClaimTimesOut_published(p) ==
    /\ pc[p] = "claim"
    /\ intent.number = 0 /\ ~Free(intent)
    /\ End(p, "receipt", issues, intent)
    /\ UNCHANGED <<github, faults, exposed>>

\* Another worker owns the intent until ISSUE_INTENT_WAIT_SECONDS have passed.
ClaimTimesOut(p) ==
    /\ pc[p] = "claim"
    /\ intent.number = 0 /\ ~Free(intent)
    /\ Uncertain(p)
    /\ UNCHANGED <<github, faults, exposed>>

\* The claim's transaction fails, applied or not.
ClaimError(p) ==
    /\ pc[p] = "claim"
    /\ Fault
    /\ \/ Uncertain(p)
       \/ intent.number = 0 /\ Free(intent) /\ End(p, "uncertain", 0, Claimed(p))
    /\ UNCHANGED <<github, exposed>>

\* _installation_token: no failure of it is translated to GitHubPublishUncertain.
Mint(p) ==
    /\ pc[p] = "mint"
    /\ \/ Goto(p, "find") /\ UNCHANGED <<intent, result, number, faults>>
       \/ Fault /\ \E ending \in {"refused", "raised"} : Release(p, ending)
    /\ UNCHANGED <<github, exposed>>

Hold(p, n) ==
    /\ Goto(p, "complete")
    /\ number' = [number EXCEPT ![p] = n]
    /\ UNCHANGED <<intent, result, faults>>

\* _find_issue before the POST, newest first.  httpx.RemoteProtocolError is neither a
\* TimeoutException nor a NetworkError: it passes every except clause.
Find(p) ==
    /\ pc[p] = "find"
    /\ \/ listed > 0 /\ Hold(p, listed) /\ UNCHANGED posts
       \/ /\ listed = 0
          /\ posts < MaxPosts /\ posts' = posts + 1
          /\ Goto(p, "post")
          /\ UNCHANGED <<intent, result, number, faults>>
       \/ Fault /\ (Uncertain(p) \/ Release(p, "raised")) /\ UNCHANGED posts
    /\ UNCHANGED <<issues, listed, flying, exposed>>

\* client.post: the request is on its way.
Send(p) ==
    /\ pc[p] = "post"
    /\ Goto(p, "waiting")
    /\ UNCHANGED <<intent, github, result, number, faults, exposed>>

\* GitHub applies the POST while its answer is awaited.
Land(p) ==
    /\ pc[p] = "waiting"
    /\ issues' = issues + 1
    /\ number' = [number EXCEPT ![p] = issues + 1]
    /\ Goto(p, "landed")
    /\ UNCHANGED <<intent, listed, flying, posts, result, faults, exposed>>

\* Status 201 with a receipt.
Answer(p) ==
    /\ pc[p] = "landed"
    /\ Hold(p, number[p])
    /\ UNCHANGED <<github, exposed>>

\* A status that says the POST was not applied.
Refuse(p) ==
    /\ pc[p] = "waiting"
    /\ Fault
    /\ Release(p, "refused")
    /\ UNCHANGED <<github, exposed>>

\* Nobody waits for p's POST any longer: it is applied already, lost, or still under way.
StopWaiting(p) ==
    /\ \/ flying' = flying
       \/ pc[p] = "waiting" /\ flying' = flying + 1
    /\ UNCHANGED <<issues, listed, posts>>

\* Mutant: an ambiguous answer is treated like any other error.
AnswerAmbiguous_released(p) ==
    /\ pc[p] \in {"waiting", "landed"}
    /\ Fault
    /\ StopWaiting(p)
    /\ Release(p, "raised")
    /\ UNCHANGED exposed

\* Timeout, network error, ambiguous status or malformed receipt.
AnswerAmbiguous(p) ==
    /\ pc[p] \in {"waiting", "landed"}
    /\ Fault
    /\ StopWaiting(p)
    /\ Goto(p, "reconcile")
    /\ number' = [number EXCEPT ![p] = 0]
    /\ UNCHANGED <<intent, result, exposed>>

\* _reconcile_ambiguous_write: a few more looks at the list, never another POST.
Reconcile(p) ==
    /\ pc[p] = "reconcile"
    /\ \/ listed > 0 /\ Hold(p, listed)
       \/ listed = 0 /\ Uncertain(p) /\ UNCHANGED faults
       \/ Fault /\ Uncertain(p)
    /\ UNCHANGED <<github, exposed>>

\* httpx.RemoteProtocolError once the POST is under way: it releases the intent of a POST
\* that may still be applied.
Break(p) ==
    /\ pc[p] \in {"waiting", "landed", "reconcile"}
    /\ Fault
    /\ StopWaiting(p)
    /\ Release(p, "raised")
    /\ exposed' = TRUE

\* Mutant: the last completed receipt wins.
Completed_last(p) == [NoIntent EXCEPT !.number = number[p]]

Completed(p) ==
    IF intent.number # 0 THEN intent ELSE [NoIntent EXCEPT !.number = number[p]]

\* complete_issue_intent: the first receipt wins, and a lost ownership is uncertain.
Complete(p) ==
    /\ pc[p] = "complete"
    /\ \/ /\ intent.number # 0 \/ intent.owner = p
          /\ End(p, "receipt", Completed(p).number, Completed(p))
          /\ UNCHANGED faults
       \/ /\ intent.number = 0 /\ intent.owner # p
          /\ Uncertain(p)
          /\ UNCHANGED faults
       \/ /\ Fault
          /\ \/ Uncertain(p)
             \/ intent.number = 0 /\ intent.owner = p /\ End(p, "uncertain", 0, Completed(p))
    /\ UNCHANGED <<github, exposed>>

\* release_issue_intent, whose own errors are ignored.
ReleaseIntent(p) ==
    /\ pc[p] = "release"
    /\ \/ /\ intent' = IF intent.owner = p THEN NoIntent ELSE intent
          /\ UNCHANGED faults
       \/ Fault /\ intent' = Disowned(intent, p)
    /\ Goto(p, "idle")
    /\ UNCHANGED <<github, result, number, exposed>>

-----------------------------------------------------------------------------
(* The environment *)

\* GitHub applies or drops a POST that nobody waits for.
SettlePost ==
    /\ flying > 0
    /\ flying' = flying - 1
    /\ issues' \in {issues, issues + 1}
    /\ UNCHANGED <<intent, listed, posts, pc, result, number, faults, exposed>>

\* GitHub's list catches up.
List ==
    /\ listed < issues
    /\ listed' = listed + 1
    /\ UNCHANGED <<intent, issues, flying, posts, pc, result, number, faults, exposed>>

\* ISSUE_INTENT_LEASE_SECONDS exceed a call, its POST and the lag of the list.
ExpireIntent ==
    /\ intent.live /\ intent.owner = Former /\ flying = 0 /\ listed = issues
    /\ intent' = [intent EXCEPT !.live = FALSE]
    /\ UNCHANGED <<github, pc, result, number, faults, exposed>>

\* A worker or GitHub is delayed, and the intent expires under the call or its POST.
IntentLapses ==
    /\ intent.live
    /\ Fault
    /\ intent' = [intent EXCEPT !.live = FALSE]
    /\ exposed' = TRUE
    /\ UNCHANGED <<github, pc, result, number>>

\* The worker is cancelled or its instance stops; the intent stays.
Crash(p) ==
    /\ pc[p] # "idle"
    /\ Fault
    /\ StopWaiting(p)
    /\ End(p, "uncertain", 0, intent)
    /\ UNCHANGED exposed

Step(p) ==
    \/ NotConnected(p) \/ ClaimReceipt(p) \/ Claim(p) \/ ClaimTimesOut(p) \/ ClaimError(p)
    \/ Mint(p) \/ Find(p) \/ Send(p) \/ Land(p) \/ Answer(p) \/ Refuse(p)
    \/ AnswerAmbiguous(p) \/ Reconcile(p) \/ Break(p) \/ Complete(p) \/ ReleaseIntent(p)

Next ==
    \/ \E p \in Publishers : Start(p) \/ Step(p) \/ Crash(p)
    \/ SettlePost \/ List \/ ExpireIntent \/ IntentLapses

Spec == Init /\ [][Next]_vars

\* Calls go on, GitHub settles what it was sent, leases expire, and runs that did not
\* get a receipt are delivered again.
Fairness ==
    /\ \A p \in Publishers : WF_vars(Step(p)) /\ WF_vars(Start(p))
    /\ WF_vars(SettlePost) /\ WF_vars(List) /\ WF_vars(ExpireIntent)

FairSpec == Spec /\ Fairness

-----------------------------------------------------------------------------
\* However many runs report the finding, GitHub gets one issue (docs/threat-model.md: "at
\* most one external action per finding intent"), unless an intent expired under a POST or
\* a connection broke in the way that github.py does not catch.
OneIssuePerFinding == ~exposed => issues <= 1

\* All receipts ever returned name the same issue, the one of the durable intent, also
\* when leases expire under their owners and connections break (complete_issue_intent).
ReceiptsAgree ==
    \A p \in Publishers : result[p] = "receipt" => number[p] = intent.number /\ number[p] # 0

\* publish_issue as the workflow sees it.
Abstract == INSTANCE Publication
    WITH artifacts <- issues,
         answer <- [p \in Publishers |-> IF pc[p] = "release" THEN "none" ELSE result[p]],
         receipt <- [p \in Publishers |-> IF result[p] = "receipt" THEN number[p] ELSE 0],
         touched <- exposed

\* publish_issue implements what the workflow relies on.
ImplementsPublication == Abstract!Spec

\* Once a worker reports the finding, its issue is published and recorded, whatever owners
\* die, expire or leave their intents behind.
EventuallyRecorded == <>[](intent.number # 0)
=============================================================================
