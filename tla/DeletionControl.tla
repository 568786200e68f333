-------------------------- MODULE DeletionControl ---------------------------
(***************************************************************************)
(* AccountDeletionControl.execute (control.py), the client it calls        *)
(* (demo_client.py) and the synthetic reference service (apps/demo_saas),  *)
(* whose state is in memory and is lost when its instance restarts.        *)
(*                                                                         *)
(* The account of a run is a hash of the run's id: workers of one run, and *)
(* the attempts of one worker, share it.  The virtual clock is fixed: a    *)
(* fixture asks for deletion 25 hours before it is observed, and the       *)
(* processor runs one hour after the request.                              *)
(***************************************************************************)
EXTENDS Naturals

CONSTANTS
    Runs,       \* runs, and the synthetic account of each
    Workers,    \* workers that execute the control, each for one run at a time
    Defects,    \* deployments considered: TRUE keeps the analytics record
    MaxFaults   \* bound on failing requests, restarts and crashes

ASSUME DefectAssumption == Defects \subseteq BOOLEAN
ASSUME BoundAssumption == MaxFaults \in Nat

VARIABLES
    defect,    \* the deployed processor omits the analytics record, fixed
    known,     \* _known_fixtures, _deletion_requests and _virtual_observations
    profiles,  \* _profiles
    analytics, \* _analytics_profiles
    late,      \* seed and process requests that nobody waits for
    pc,        \* the call at which each worker stands
    run,       \* the run of each worker
    verdict,   \* what the worker's last execution returned
    faults,
    disturbed  \* history: somebody else's seed reached the account of the execution

service == <<known, profiles, analytics>>
vars == <<defect, service, late, pc, run, verdict, faults, disturbed>>

Points == {"idle", "seed", "process", "inspect"}

Results == {"PASS", "FAIL", "UNKNOWN"}

\* PENDING: no execution has returned; UNAVAILABLE: it raised and the run fails.
Verdicts == {"PENDING", "UNAVAILABLE", "SUPPORTED", "CONTRADICTED", "INCONCLUSIVE"}

Requests == {"seed", "process"}

TypeOK ==
    /\ defect \in Defects
    /\ profiles \subseteq known /\ analytics \subseteq known /\ known \subseteq Runs
    /\ late \in [Runs \X Requests -> Nat]
    /\ pc \in [Workers -> Points]
    /\ run \in [Workers -> Runs]
    /\ verdict \in [Workers -> Verdicts]
    /\ faults \in 0 .. MaxFaults
    /\ disturbed \in [Workers -> BOOLEAN]

Init ==
    /\ defect \in Defects
    /\ known = {} /\ profiles = {} /\ analytics = {}
    /\ late = [q \in Runs \X Requests |-> 0]
    /\ pc = [w \in Workers |-> "idle"]
    /\ run \in [Workers -> Runs]
    /\ verdict = [w \in Workers |-> "PENDING"]
    /\ faults = 0
    /\ disturbed = [w \in Workers |-> FALSE]

-----------------------------------------------------------------------------
(* SyntheticStore *)

\* Mutant: an account that exists is not seeded again.
Seed_once(r) ==
    /\ known' = known \cup {r}
    /\ profiles' = IF r \in known THEN profiles ELSE profiles \cup {r}
    /\ analytics' = IF r \in known THEN analytics ELSE analytics \cup {r}

\* seed writes both records again, also for an account that exists.
Seed(r) ==
    /\ known' = known \cup {r}
    /\ profiles' = profiles \cup {r}
    /\ analytics' = analytics \cup {r}

\* process_deletion finds no profile: the answer is 404 and nothing changes.
Processable(r) == r \in known /\ r \in profiles

Process(r) ==
    /\ profiles' = profiles \ {r}
    /\ analytics' = IF defect THEN analytics ELSE analytics \ {r}
    /\ UNCHANGED known

\* inspect answers None for an account it does not know.
Exists(r, records) ==
    IF r \notin known THEN "unknown" ELSE IF r \in records THEN "yes" ELSE "no"

\* virtual_observation_elapsed_hours; None, here 0, for an unknown account.
ObservationElapsed(r) == IF r \in known THEN 25 ELSE 0

ProcessingElapsed == 1

-----------------------------------------------------------------------------
(* control.py *)

timeline_result(elapsed) ==
    IF ~(elapsed > 24) THEN "UNKNOWN" ELSE IF ProcessingElapsed <= 24 THEN "PASS" ELSE "FAIL"

record_evidence(exists) ==
    CASE exists = "unknown" -> "UNKNOWN" [] exists = "yes" -> "FAIL" [] OTHER -> "PASS"

\* The evidence that an inspection now leads to.
Evidence(r) ==
    LET elapsed == ObservationElapsed(r)
        observed(records) == IF elapsed > 24 THEN Exists(r, records) ELSE "unknown"
    IN {timeline_result(elapsed), record_evidence(observed(profiles)),
        record_evidence(observed(analytics))}

\* Mutant: no failure is success.
calculate_verdict_optimistic(results) == IF "FAIL" \in results THEN "CONTRADICTED" ELSE "SUPPORTED"

\* Mutant: missing data counts as a failure.
calculate_verdict_strict(results) == IF results = {"PASS"} THEN "SUPPORTED" ELSE "CONTRADICTED"

calculate_verdict(results) ==
    IF "FAIL" \in results THEN "CONTRADICTED"
    ELSE IF results = {"PASS"} THEN "SUPPORTED" ELSE "INCONCLUSIVE"

Goto(w, target) == pc' = [pc EXCEPT ![w] = target] /\ UNCHANGED <<run, verdict>>

Return(w, v) ==
    /\ pc' = [pc EXCEPT ![w] = "idle"]
    /\ verdict' = [verdict EXCEPT ![w] = v]
    /\ UNCHANGED run

\* A seed for r reaches the service while others may be testing the account.
SeedAmong(r, others) ==
    /\ Seed(r)
    /\ disturbed' = [w \in Workers |->
                        disturbed[w] \/ (w \in others /\ pc[w] # "idle" /\ run[w] = r)]

\* A worker starts to execute the control; an expired lease lets it join another worker of
\* the same run.
Start(w, r) ==
    /\ pc[w] = "idle"
    /\ pc' = [pc EXCEPT ![w] = "seed"]
    /\ run' = [run EXCEPT ![w] = r]
    /\ verdict' = [verdict EXCEPT ![w] = "PENDING"]
    /\ disturbed' = [disturbed EXCEPT ![w] = FALSE]
    /\ UNCHANGED <<defect, service, late, faults>>

SeedAccount(w) ==
    /\ pc[w] = "seed"
    /\ SeedAmong(run[w], Workers \ {w})
    /\ Goto(w, "process")
    /\ UNCHANGED <<defect, late, faults>>

\* raise_for_status turns a 404 into an error that ends the execution.
ProcessDeletion(w) ==
    /\ pc[w] = "process"
    /\ \/ Processable(run[w]) /\ Process(run[w]) /\ Goto(w, "inspect")
       \/ ~Processable(run[w]) /\ Return(w, "UNAVAILABLE") /\ UNCHANGED service
    /\ UNCHANGED <<defect, late, faults, disturbed>>

InspectAccount(w) ==
    /\ pc[w] = "inspect"
    /\ Return(w, calculate_verdict(Evidence(run[w])))
    /\ UNCHANGED <<defect, service, late, faults, disturbed>>

\* A request that fails, or a worker that stops: a seed or a deletion was applied before,
\* will be, or never is.
RequestFails(w) ==
    /\ pc[w] # "idle"
    /\ faults < MaxFaults /\ faults' = faults + 1
    /\ Return(w, "UNAVAILABLE")
    /\ \/ UNCHANGED <<service, late, disturbed>>
       \/ /\ pc[w] \in Requests
          /\ late' = [late EXCEPT ![<<run[w], pc[w]>>] = @ + 1]
          /\ UNCHANGED <<service, disturbed>>
       \/ pc[w] = "seed" /\ SeedAmong(run[w], Workers \ {w}) /\ UNCHANGED late
       \/ /\ pc[w] = "process" /\ Processable(run[w]) /\ Process(run[w])
          /\ UNCHANGED <<late, disturbed>>
    /\ UNCHANGED defect

\* The service applies a request that nobody waits for.
LateRequest(r, q) ==
    /\ late[<<r, q>>] > 0
    /\ late' = [late EXCEPT ![<<r, q>>] = @ - 1]
    /\ \/ q = "seed" /\ SeedAmong(r, Workers)
       \/ q = "process" /\ Processable(r) /\ Process(r) /\ UNCHANGED disturbed
       \/ q = "process" /\ ~Processable(r) /\ UNCHANGED <<service, disturbed>>
    /\ UNCHANGED <<defect, pc, run, verdict, faults>>

\* The service's only instance restarts, or somebody calls reset.
Restart ==
    /\ faults < MaxFaults /\ faults' = faults + 1
    /\ known' = {} /\ profiles' = {} /\ analytics' = {}
    /\ UNCHANGED <<defect, late, pc, run, verdict, disturbed>>

Next ==
    \/ \E w \in Workers :
          \/ \E r \in Runs : Start(w, r)
          \/ SeedAccount(w) \/ ProcessDeletion(w) \/ InspectAccount(w) \/ RequestFails(w)
    \/ \E r \in Runs, q \in Requests : LateRequest(r, q)
    \/ Restart

Spec == Init /\ [][Next]_vars

Fairness ==
    \A w \in Workers :
        /\ WF_vars(SeedAccount(w) \/ ProcessDeletion(w) \/ InspectAccount(w))
        /\ WF_vars(\E r \in Runs : Start(w, r))

FairSpec == Spec /\ Fairness

-----------------------------------------------------------------------------
\* threat-model.md: "Missing, stale, or unknown evidence cannot produce SUPPORTED".  A
\* service that keeps the analytics record is never found to keep its promise, whatever
\* other workers, late requests and restarts do to the account in the meantime.
DefectNeverSupported ==
    defect => \A w \in Workers : verdict[w] # "SUPPORTED"

\* The control finds the defect: in the end some execution against a defective service
\* returns CONTRADICTED, whatever restarts and lost requests came first.
DefectIsFound == defect ~> \E w \in Workers : verdict[w] = "CONTRADICTED"

\* ADR 0001: "CONTRADICTED: observed behavior conflicts with the captured promise".  A
\* service that does what it promises is contradicted only by an execution whose account
\* somebody else seeded meanwhile: another worker of the run, or a request of an earlier
\* attempt that arrived late.
CorrectNeverContradicted ==
    ~defect => \A w \in Workers : verdict[w] = "CONTRADICTED" => disturbed[w]
=============================================================================
