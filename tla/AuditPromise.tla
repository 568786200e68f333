---------------------------- MODULE AuditPromise ----------------------------
(***************************************************************************)
(* What the audit workflow promises about the run of one idempotency key,  *)
(* to the callers that repeat the key (the console and Cloud Scheduler) and*)
(* to the people who receive its draft PR or issue.  AuditService          *)
(* implements it; ConsoleDashboard relies on its changes of status.        *)
(*                                                                         *)
(* The promise is kept in full while "serial": leases outlive the work they*)
(* protect and no lease was granted to a call with a stale copy.  Of what  *)
(* happens afterwards little is left, and nothing was lost until then.     *)
(***************************************************************************)
VARIABLES
    status,        \* what the document tells a caller about the run
    receipt,       \* the publication that the document reports
    pull_request,  \* GitHub: the run's draft PR, "handled" once a person changed it
    issue,         \* GitHub: the finding's issue
    serial

github == <<pull_request, issue>>
vars == <<status, receipt, github, serial>>

Init ==
    /\ status = "absent" /\ receipt = "none"
    /\ pull_request = "absent" /\ issue = "absent"
    /\ serial \in BOOLEAN

\* GitHub has received the publication of this kind.
Held(kind) == IF kind = "pr" THEN pull_request # "absent" ELSE issue = "open"

\* Nothing that GitHub holds still asks for attention.
NothingStands == pull_request # "draft" /\ issue # "open"

-----------------------------------------------------------------------------
Start ==
    /\ status = "absent" /\ status' = "working"
    /\ UNCHANGED <<receipt, github>>

\* A draft PR or an issue is opened by a run that works, reports nothing yet and has
\* nothing standing.
Publish ==
    /\ status = "working" /\ receipt = "none" /\ NothingStands
    /\ \/ pull_request = "absent" /\ pull_request' = "draft" /\ UNCHANGED issue
       \/ issue = "absent" /\ issue' = "open" /\ UNCHANGED pull_request
    /\ UNCHANGED <<status, receipt>>

\* The document moves on.  A receipt is added for what GitHub holds and never dropped.
Checkpoint ==
    /\ status = "working"
    /\ status' \in {"working", "retryable", "complete", "failed"}
    /\ receipt' = receipt \/ (receipt = "none" /\ receipt' \in {"pr", "issue"} /\ Held(receipt'))
    /\ UNCHANGED github

\* A caller repeats the key of a retryable run.
Resume ==
    /\ status = "retryable" /\ status' = "working"
    /\ UNCHANGED <<receipt, github>>

\* The completion was applied and reported as failed: the run is retried or given up.
Doubt ==
    /\ status = "complete" /\ status' \in {"retryable", "failed"}
    /\ UNCHANGED <<receipt, github>>

\* A person deals with the draft.
Handle ==
    /\ pull_request = "draft" /\ pull_request' = "handled"
    /\ UNCHANGED <<status, receipt, issue>>

\* Somebody works with a stale copy from now on.
Overtake ==
    /\ serial /\ ~serial'
    /\ UNCHANGED <<status, receipt, github>>

\* What is still true then: a run is created once, what GitHub received stays, and a
\* receipt is for something that GitHub received.
Unordered ==
    /\ ~serial /\ ~serial'
    /\ status = "absent" => status' \in {"absent", "working"} /\ UNCHANGED <<receipt, github>>
    /\ status # "absent" => status' # "absent"
    /\ pull_request' # pull_request => <<pull_request, pull_request'>> \in
          {<<"absent", "draft">>, <<"draft", "handled">>}
    /\ issue' # issue => issue = "absent" /\ issue' = "open"
    /\ receipt' \in {"none"} \cup {kind \in {"pr", "issue"} : Held(kind)'}

Ordered == Start \/ Publish \/ Checkpoint \/ Resume \/ Doubt \/ Handle

Next == (serial /\ serial' /\ Ordered) \/ Overtake \/ Unordered

Spec == Init /\ [][Next]_vars
=============================================================================
