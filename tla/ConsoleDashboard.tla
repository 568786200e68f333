-------------------------- MODULE ConsoleDashboard --------------------------
(***************************************************************************)
(* One tab of the judge console connected to an agent: the dashboard's     *)
(* load, start and poll handlers and the idempotency key it keeps in       *)
(* sessionStorage (promise-dashboard.tsx), through the audit route         *)
(* (api/audit/route.ts, agent-client.ts) to the agent's run endpoints      *)
(* (app.py) and the run that started last (store.py).                      *)
(*                                                                         *)
(* A run is its key and whether it is working, retryable or over.  GETs    *)
(* read the latest run at one moment and are applied at a later one; a     *)
(* POST may fail in the tab and still reach the agent.  The button of the  *)
(* empty dashboard stays enabled during a click, so several runAudit       *)
(* handlers may be open: each has its own key, requests and polls, and     *)
(* they share the page and sessionStorage.                                 *)
(***************************************************************************)
EXTENDS Naturals

CONSTANTS
    Keys,      \* keys this tab may generate
    Others,    \* keys of runs started elsewhere, such as by Cloud Scheduler
    Handlers,  \* runAudit handlers that may be open at the same time
    None,
    MaxPolls,  \* MAX_LIVE_POLLS
    MaxFaults  \* bound on failing requests, page reloads, runs started elsewhere and
               \* final documents written again

ASSUME KeyAssumption == None \notin Keys \cup Others /\ Keys \cap Others = {}
ASSUME BoundAssumption == MaxPolls \in Nat /\ MaxFaults \in Nat

VARIABLES
    runs,     \* agent: the status of the run of each key
    latest,   \* agent: the key of the run that started last
    strays,   \* POSTs that the tab no longer waits for and that may still arrive
    pending,  \* sessionStorage: PENDING_RUN_KEY
    used,     \* keys generated so far
    shown,    \* the run on display
    running,  \* isRunning
    error,    \* an error is on display
    loading,  \* isLoading
    loaded,   \* the load's GET: nothing, failed, or the run it read
    pc,       \* of each handler: whether it is open, and for what it waits
    key,      \* of each open handler: its idempotencyKey
    reply,    \* of each handler, its GET: nothing, failed, or the run it read
    post,     \* of each handler, its POST: none, sent, arrived, failed, or the run it returned
    polls,    \* of each handler: pollCount
    faults,
    reopened, \* history: a run that was over became unfinished again
    doubled,  \* history: a click came while another one was open
    crossed   \* history: and it generated another key

agent == <<runs, latest, strays>>
page == <<pending, used, shown, running, error, loading, loaded>>
clicks == <<pc, key, reply, post, polls>>
history == <<reopened, doubled, crossed>>
vars == <<agent, page, clicks, faults, history>>

AllKeys == Keys \cup Others

Statuses == {"absent", "working", "retryable", "over"}

Snapshot(k) == [key |-> k, status |-> IF k = None THEN "absent" ELSE runs[k]]

NoRun == [key |-> None, status |-> "absent"]
Nothing == [key |-> None, status |-> "nothing"]
Failed == [key |-> None, status |-> "failed"]
Sent == [key |-> None, status |-> "sent"]
Arrived == [key |-> None, status |-> "arrived"]

Snapshots == [key : AllKeys, status : Statuses] \cup {NoRun}

TypeOK ==
    /\ runs \in [AllKeys -> Statuses]
    /\ latest \in AllKeys \cup {None} /\ strays \subseteq AllKeys
    /\ pending \in AllKeys \cup {None} /\ used \subseteq Keys
    /\ shown \in Snapshots /\ loaded \in Snapshots \cup {Nothing, Failed}
    /\ running \in BOOLEAN /\ error \in BOOLEAN /\ loading \in BOOLEAN
    /\ pc \in [Handlers -> {"idle", "posting", "polling"}]
    /\ key \in [Handlers -> AllKeys \cup {None}]
    /\ reply \in [Handlers -> Snapshots \cup {Nothing, Failed}]
    /\ post \in [Handlers -> Snapshots \cup {Nothing, Sent, Arrived, Failed}]
    /\ polls \in [Handlers -> 0 .. MaxPolls]
    /\ faults \in 0 .. MaxFaults
    /\ reopened \in BOOLEAN /\ doubled \in BOOLEAN /\ crossed \in BOOLEAN

\* The same value for every handler.
All(value) == [h \in Handlers |-> value]

Init ==
    /\ runs = [k \in AllKeys |-> "absent"]
    /\ latest = None /\ strays = {}
    /\ pending = None /\ used = {} /\ shown = NoRun
    /\ running = FALSE /\ error = FALSE
    /\ loading = TRUE /\ loaded = Nothing
    /\ pc = All("idle") /\ key = All(None)
    /\ reply = All(Nothing) /\ post = All(Nothing) /\ polls = All(0)
    /\ faults = 0 /\ reopened = FALSE /\ doubled = FALSE /\ crossed = FALSE

-----------------------------------------------------------------------------
(* The agent *)

\* latest_run: the run that started last.
Latest == Snapshot(latest)

\* create_run: a new run, a retryable one resumed unless its lease is refused, or the run
\* as it is.
CreateRun(k) ==
    /\ \/ /\ runs[k] # "over"
          /\ runs' = [runs EXCEPT ![k] = "working"]
       \/ /\ runs[k] \in {"over", "retryable"}
          /\ UNCHANGED runs
    /\ latest' = IF runs[k] = "absent" THEN k ELSE latest

Work(k) ==
    /\ runs[k] = "working"
    /\ \E status \in {"retryable", "over"} : runs' = [runs EXCEPT ![k] = status]
    /\ UNCHANGED <<latest, strays, page, clicks, faults, history>>

Fault == faults < MaxFaults /\ faults' = faults + 1

\* A final document is written again: its COMPLETE checkpoint was applied and reported as
\* failed, or a call that holds an older copy saves it.
Reopen(k) ==
    /\ runs[k] = "over" /\ Fault
    /\ \E status \in {"retryable", "working"} : runs' = [runs EXCEPT ![k] = status]
    /\ reopened' = TRUE
    /\ UNCHANGED <<latest, strays, page, clicks, doubled, crossed>>

\* scheduled_run and its redelivery, or another tab.
StartElsewhere(k) ==
    /\ k \in Others /\ runs[k] \in {"absent", "retryable"}
    /\ CreateRun(k) /\ Fault
    /\ UNCHANGED <<strays, page, clicks, history>>

StrayArrives(k) ==
    /\ k \in strays /\ strays' = strays \ {k}
    /\ CreateRun(k)
    /\ UNCHANGED <<page, clicks, faults, history>>

PostArrives(h) ==
    /\ post[h] = Sent
    /\ CreateRun(key[h])
    /\ post' = [post EXCEPT ![h] = Arrived]
    /\ UNCHANGED <<strays, page, pc, key, reply, polls, faults, history>>

\* The agent answers when the run's task has ended, or at once if another call executes it.
PostAnswered(h) ==
    /\ post[h] = Arrived
    /\ post' = [post EXCEPT ![h] = Snapshot(key[h])]
    /\ UNCHANGED <<agent, page, pc, key, reply, polls, faults, history>>

\* A timeout or an error of the proxy; the POST may still reach the agent.
PostFails(h) ==
    /\ post[h] \in {Sent, Arrived} /\ Fault
    /\ post' = [post EXCEPT ![h] = Failed]
    /\ strays' \in {strays, strays \cup (IF post[h] = Sent THEN {key[h]} ELSE {})}
    /\ UNCHANGED <<runs, latest, page, pc, key, reply, polls, history>>

\* The GET of a load.
FetchLoad ==
    /\ loading /\ loaded = Nothing
    /\ \/ loaded' = Latest /\ UNCHANGED faults
       \/ loaded' = Failed /\ Fault
    /\ UNCHANGED <<agent, pending, used, shown, running, error, loading, clicks, history>>

\* The poll while the POST is open reads the latest run.  Its failure and a run of another
\* key are ignored, and left out here.
FetchInterim(h) ==
    /\ pc[h] = "posting" /\ post[h] \in {Sent, Arrived} /\ reply[h] = Nothing
    /\ latest = key[h]
    /\ reply' = [reply EXCEPT ![h] = Latest]
    /\ UNCHANGED <<agent, page, pc, key, post, polls, faults, history>>

FetchLatest(h) ==
    /\ pc[h] = "polling" /\ reply[h] = Nothing
    /\ \/ reply' = [reply EXCEPT ![h] = Latest] /\ UNCHANGED faults
       \/ reply' = [reply EXCEPT ![h] = Failed] /\ Fault
    /\ UNCHANGED <<agent, page, pc, key, post, polls, history>>

-----------------------------------------------------------------------------
(* The tab *)

\* Mutant: only the key of a run that still works is kept.
syncPendingRunKey_working(r) ==
    IF r.status = "working" THEN r.key
    ELSE IF pending = r.key THEN None ELSE pending

\* The key of an unfinished or retryable run is kept for the next click.
syncPendingRunKey(r) ==
    IF r.status \in {"working", "retryable"} THEN r.key
    ELSE IF pending = r.key THEN None ELSE pending

\* The end of loadInitialRun and retryLoad.
Load ==
    /\ loading /\ loaded # Nothing
    /\ loading' = FALSE /\ loaded' = Nothing
    /\ \/ loaded = Failed /\ error' = TRUE /\ UNCHANGED <<shown, pending>>
       \/ /\ loaded # Failed
          /\ shown' = loaded /\ pending' = syncPendingRunKey(loaded) /\ UNCHANGED error
    /\ UNCHANGED <<agent, used, running, clicks, faults, history>>

RetryLoad ==
    /\ ~loading /\ error /\ shown = NoRun
    /\ loading' = TRUE /\ error' = FALSE
    /\ UNCHANGED <<agent, pending, used, shown, running, loaded, clicks, faults, history>>

\* The button can be clicked.  On the empty dashboard a running click does not disable it,
\* and after an error without a run there is only a button that loads again.
Ready ==
    /\ ~loading
    /\ IF shown = NoRun THEN ~error ELSE ~running /\ shown.status # "working"

\* Mutant: every click generates a key.
KeyOfClick_fresh(k) == k \in Keys \ used

\* The pending key, or a new one.
KeyOfClick(k) == IF pending # None THEN k = pending ELSE k \in Keys \ used

ClickOpen == \E h \in Handlers : pc[h] # "idle"

\* runAudit up to its first await.
Click(h, k) ==
    /\ pc[h] = "idle" /\ Ready
    /\ KeyOfClick(k)
    /\ pending' = k /\ used' = used \cup ({k} \cap Keys)
    /\ running' = TRUE /\ error' = FALSE
    /\ pc' = [pc EXCEPT ![h] = "posting"] /\ key' = [key EXCEPT ![h] = k]
    /\ post' = [post EXCEPT ![h] = Sent]
    /\ doubled' = (doubled \/ ClickOpen)
    /\ crossed' = (crossed \/ (ClickOpen /\ pending = None))
    /\ UNCHANGED <<agent, shown, loading, loaded, reply, polls, faults, reopened>>

\* The end of runAudit.
End(h, failed) ==
    /\ running' = FALSE /\ error' = (error \/ failed)
    /\ pc' = [pc EXCEPT ![h] = "idle"] /\ key' = [key EXCEPT ![h] = None]
    /\ reply' = [reply EXCEPT ![h] = Nothing] /\ post' = [post EXCEPT ![h] = Nothing]
    /\ polls' = [polls EXCEPT ![h] = 0]

\* runAudit goes on to wait for its next poll, the n-th but one.
Continue(h, n) ==
    /\ pc' = [pc EXCEPT ![h] = "polling"] /\ polls' = [polls EXCEPT ![h] = n]
    /\ reply' = [reply EXCEPT ![h] = Nothing] /\ post' = [post EXCEPT ![h] = Nothing]
    /\ UNCHANGED <<key, pending, running, error>>

\* Mutant: the polls are not bounded.
Accept_unbounded(h, r, n) ==
    /\ shown' = r
    /\ \/ r.status # "working" /\ pending' = syncPendingRunKey(r) /\ End(h, FALSE)
       \/ r.status = "working" /\ Continue(h, n)

\* Mutant: the end of the polls is forgotten.
Accept_at_end(h, r, n) ==
    /\ shown' = r
    /\ \/ r.status # "working" /\ pending' = syncPendingRunKey(r) /\ End(h, FALSE)
       \/ r.status = "working" /\ n < MaxPolls /\ Continue(h, n)

\* The answer r is shown after n polls: the run has ended, there is another poll, or the
\* polls are used up.
Accept(h, r, n) ==
    /\ shown' = r
    /\ \/ r.status # "working" /\ pending' = syncPendingRunKey(r) /\ End(h, FALSE)
       \/ r.status = "working" /\ n < MaxPolls /\ Continue(h, n)
       \/ r.status = "working" /\ n >= MaxPolls /\ End(h, TRUE) /\ UNCHANGED pending

BootstrapPoll(h) ==
    /\ pc[h] = "posting" /\ reply[h] # Nothing
    /\ shown' = reply[h]
    /\ reply' = [reply EXCEPT ![h] = Nothing]
    /\ UNCHANGED <<agent, pending, used, running, error, loading, loaded, pc, key, post, polls,
                   faults, history>>

PostSettled(h) ==
    /\ pc[h] = "posting" /\ reply[h] = Nothing /\ post[h] \notin {Sent, Arrived}
    /\ \/ post[h] = Failed /\ End(h, TRUE) /\ UNCHANGED <<shown, pending>>
       \/ post[h] # Failed /\ Accept(h, post[h], 0)
    /\ UNCHANGED <<agent, used, loading, loaded, faults, history>>

\* The poll after the POST takes the latest run, whichever it is.
LivePoll(h) ==
    /\ pc[h] = "polling" /\ reply[h] # Nothing
    /\ \/ reply[h] \in {Failed, NoRun} /\ End(h, TRUE) /\ UNCHANGED <<shown, pending>>
       \/ reply[h] \notin {Failed, NoRun} /\ Accept(h, reply[h], polls[h] + 1)
    /\ UNCHANGED <<agent, used, loading, loaded, faults, history>>

\* The page is loaded again; sessionStorage stays.
Reload ==
    /\ Fault
    /\ strays' = strays \cup {key[h] : h \in {g \in Handlers : post[g] = Sent}}
    /\ shown' = NoRun /\ running' = FALSE /\ error' = FALSE
    /\ loading' = TRUE /\ loaded' = Nothing
    /\ pc' = All("idle") /\ key' = All(None)
    /\ reply' = All(Nothing) /\ post' = All(Nothing) /\ polls' = All(0)
    /\ UNCHANGED <<runs, latest, pending, used, history>>

Callback(h) == BootstrapPoll(h) \/ PostSettled(h) \/ LivePoll(h)

Next ==
    \/ \E k \in AllKeys : Work(k) \/ Reopen(k) \/ StartElsewhere(k) \/ StrayArrives(k)
    \/ \E h \in Handlers : \E k \in AllKeys : Click(h, k)
    \/ \E h \in Handlers : PostArrives(h) \/ PostAnswered(h) \/ PostFails(h)
    \/ \E h \in Handlers : FetchInterim(h) \/ FetchLatest(h)
    \/ \E h \in Handlers : Callback(h)
    \/ FetchLoad \/ Load \/ RetryLoad \/ Reload

Spec == Init /\ [][Next]_vars

\* Requests are answered or fail, and the tab's callbacks run.
Fairness ==
    \A h \in Handlers :
       /\ WF_vars(PostArrives(h) \/ PostAnswered(h)) /\ WF_vars(Callback(h))
       /\ WF_vars(FetchLatest(h))

FairSpec == Spec /\ Fairness

-----------------------------------------------------------------------------
Unfinished(k) == runs[k] \in {"working", "retryable"}

\* Nobody else has started a run.
Alone == \A k \in Others : runs[k] = "absent"

\* The key of the tab's unfinished run is pending, so that runAudit repeats it and the tab has
\* one unfinished run at most, whatever requests are lost or late, however often the page is
\* loaded again and although two clicks may be open.  Three things end this: somebody else
\* starts a run, a finished run is written again, and a click generates a new key while an
\* older click is still open, whose late answer then takes the pending key back.
OneUnfinishedRun ==
    Alone /\ ~reopened /\ ~crossed => \A k \in Keys : Unfinished(k) => pending = k

\* dashboard-flow.test.tsx: "reuses the same manual idempotency key for a retryable run".
\* The run that the dashboard offers to retry is the one that a click repeats, also when
\* the poll or the load came upon a run that was started elsewhere, as long as no click came
\* while another one was open.
RetryRepeatsRun == shown.status = "retryable" /\ ~doubled => pending = shown.key

\* A click ends in a result or an error, even if the run never ends.  After MAX_LIVE_POLLS
\* the run on display still works, and its button stays disabled until the page is loaded
\* again.
ClickSettles == \A h \in Handlers : (pc[h] = "posting") ~> (pc[h] = "idle")
=============================================================================
