----------------------- MODULE DeletionControlProofs ------------------------
(* Theorems about the deletion control, for any number of runs and workers. *)
EXTENDS DeletionControl, TLAPS

-----------------------------------------------------------------------------
(* Types, and the defective service. *)

\* The defective processor leaves the analytics record of every account it knows.
RecordKept == defect => known \subseteq analytics

DefectInv == TypeOK /\ RecordKept /\ DefectNeverSupported

\* No account is known and no worker has a verdict at the start.
LEMMA DefectInit == Init => DefectInv
<1> SUFFICES ASSUME Init PROVE DefectInv
  OBVIOUS
<1>1. TypeOK
  <2>1. disturbed \in [Workers -> BOOLEAN]
    BY Zenon DEF Init
  <2> QED BY <2>1, BoundAssumption DEF Init, TypeOK, Points, Verdicts
<1>2. RecordKept /\ DefectNeverSupported
  BY DEF Init, RecordKept, DefectNeverSupported
<1> QED BY <1>1, <1>2 DEF DefectInv

\* What seeding and processing do to well-typed stores.
LEMMA StoresKeep ==
    ASSUME DefectInv, NEW r \in Runs, UNCHANGED defect,
           Seed(r) \/ (Process(r) /\ Processable(r)) \/ UNCHANGED service
    PROVE  /\ profiles' \subseteq known' /\ analytics' \subseteq known' /\ known' \subseteq Runs
           /\ RecordKept'
<1>0. TypeOK /\ RecordKept
  BY DEF DefectInv
<1>1. CASE Seed(r)
  BY <1>0, <1>1 DEF Seed, TypeOK, RecordKept
<1>2. CASE Process(r) /\ Processable(r)
  <2>1. CASE defect
    BY <1>0, <1>2, <2>1 DEF Process, TypeOK, RecordKept
  <2>2. CASE ~defect
    BY <1>0, <1>2, <2>2 DEF Process, TypeOK, RecordKept
  <2> QED BY <2>1, <2>2
<1>3. CASE UNCHANGED service
  BY <1>0, <1>3 DEF service, TypeOK, RecordKept
<1> QED BY <1>1, <1>2, <1>3

\* Missing records are no proof: only an account that is known and has neither record
\* supports the promise.
LEMMA SupportNeedsAbsence ==
    ASSUME NEW r, calculate_verdict(Evidence(r)) = "SUPPORTED"
    PROVE  r \in known /\ r \notin analytics
<1>1. Evidence(r) = {"PASS"}
  BY DEF calculate_verdict
<1>2. timeline_result(ObservationElapsed(r)) = "PASS"
  BY <1>1 DEF Evidence
<1>3. r \in known
  BY <1>2 DEF timeline_result, ObservationElapsed
<1>4. record_evidence(Exists(r, analytics)) = "PASS"
  BY <1>1, <1>3 DEF Evidence, ObservationElapsed
<1> QED BY <1>3, <1>4 DEF record_evidence, Exists

\* Every verdict of the control is one of the known ones.
LEMMA VerdictType ==
    ASSUME NEW results
    PROVE  calculate_verdict(results) \in Verdicts
BY DEF calculate_verdict, Verdicts

\* A worker that ends keeps types, and keeps the property unless it supports a defect.
LEMMA WorkerKeeps ==
    ASSUME DefectInv, NEW w \in Workers, NEW point \in Points, NEW r \in Runs, NEW v \in Verdicts,
           pc' = [pc EXCEPT ![w] = point], run' = [run EXCEPT ![w] = r],
           verdict' = [verdict EXCEPT ![w] = v], UNCHANGED defect,
           profiles' \subseteq known', analytics' \subseteq known', known' \subseteq Runs,
           late' \in [Runs \X Requests -> Nat], faults' \in 0 .. MaxFaults, RecordKept',
           disturbed' \in [Workers -> BOOLEAN], defect => v # "SUPPORTED"
    PROVE  DefectInv'
<1>1. TypeOK'
  BY DEF DefectInv, TypeOK
<1>2. DefectNeverSupported'
  BY DEF DefectInv, TypeOK, DefectNeverSupported
<1> QED BY <1>1, <1>2 DEF DefectInv

\* Every step keeps the invariant.
LEMMA DefectStep ==
    ASSUME DefectInv, [Next]_vars
    PROVE  DefectInv'
<1>0. /\ TypeOK /\ RecordKept /\ DefectNeverSupported
      /\ run \in [Workers -> Runs] /\ pc \in [Workers -> Points] /\ verdict \in [Workers -> Verdicts]
      /\ faults \in 0 .. MaxFaults /\ late \in [Runs \X Requests -> Nat]
      /\ disturbed \in [Workers -> BOOLEAN]
      /\ profiles \subseteq known /\ analytics \subseteq known /\ known \subseteq Runs
  BY DEF DefectInv, TypeOK
<1>a. /\ {"idle", "seed", "process", "inspect"} \subseteq Points
      /\ {"PENDING", "UNAVAILABLE"} \subseteq Verdicts
  BY DEF Points, Verdicts
<1>d. ASSUME NEW r, NEW others, SeedAmong(r, others)
      PROVE  disturbed' \in [Workers -> BOOLEAN]
  BY <1>0, <1>d, Zenon DEF SeedAmong
<1>g. ASSUME NEW w \in Workers, NEW point \in Points, Goto(w, point)
      PROVE  /\ run[w] \in Runs /\ verdict[w] \in Verdicts
             /\ pc' = [pc EXCEPT ![w] = point] /\ run' = [run EXCEPT ![w] = run[w]]
             /\ verdict' = [verdict EXCEPT ![w] = verdict[w]]
             /\ defect => verdict[w] # "SUPPORTED"
  BY <1>0, <1>g DEF Goto, DefectNeverSupported
<1>r. ASSUME NEW w \in Workers, NEW v \in Verdicts, Return(w, v)
      PROVE  /\ run[w] \in Runs
             /\ pc' = [pc EXCEPT ![w] = "idle"] /\ run' = [run EXCEPT ![w] = run[w]]
             /\ verdict' = [verdict EXCEPT ![w] = v]
  BY <1>0, <1>r DEF Return
<1>1. ASSUME NEW w \in Workers, NEW r \in Runs, Start(w, r)
      PROVE  DefectInv'
  <2>1. UNCHANGED <<defect, known, profiles, analytics, late, faults>>
    BY <1>1 DEF Start, service
  <2>2. RecordKept'
    BY <1>0, <2>1 DEF RecordKept
  <2>3. disturbed' \in [Workers -> BOOLEAN]
    BY <1>0, <1>1 DEF Start
  <2> QED BY <1>0, <1>1, <1>a, <2>1, <2>2, <2>3, WorkerKeeps DEF Start
<1>2. ASSUME NEW w \in Workers, SeedAccount(w)
      PROVE  DefectInv'
  <2>1. /\ Goto(w, "process") /\ UNCHANGED <<defect, late, faults>> /\ Seed(run[w])
        /\ disturbed' \in [Workers -> BOOLEAN]
    BY <1>2, <1>d DEF SeedAccount, SeedAmong
  <2>2. /\ profiles' \subseteq known' /\ analytics' \subseteq known' /\ known' \subseteq Runs
        /\ RecordKept'
    BY <1>0, <2>1, StoresKeep
  <2> QED BY <1>0, <1>a, <1>g, <2>1, <2>2, WorkerKeeps
<1>3. ASSUME NEW w \in Workers, ProcessDeletion(w)
      PROVE  DefectInv'
  <2>0. UNCHANGED <<defect, late, faults, disturbed>> /\ run[w] \in Runs
    BY <1>0, <1>3 DEF ProcessDeletion
  <2>1. CASE Processable(run[w]) /\ Process(run[w]) /\ Goto(w, "inspect")
    <3>1. /\ profiles' \subseteq known' /\ analytics' \subseteq known' /\ known' \subseteq Runs
          /\ RecordKept'
      BY <2>0, <2>1, StoresKeep
    <3> QED BY <1>0, <1>a, <1>g, <2>0, <2>1, <3>1, WorkerKeeps
  <2>2. CASE Return(w, "UNAVAILABLE") /\ UNCHANGED service
    <3>1. /\ profiles' \subseteq known' /\ analytics' \subseteq known' /\ known' \subseteq Runs
          /\ RecordKept'
      BY <2>0, <2>2, StoresKeep
    <3> QED BY <1>0, <1>a, <1>r, <2>0, <2>2, <3>1, WorkerKeeps
  <2> QED BY <1>3, <2>1, <2>2 DEF ProcessDeletion
<1>4. ASSUME NEW w \in Workers, InspectAccount(w)
      PROVE  DefectInv'
  <2> DEFINE v == calculate_verdict(Evidence(run[w]))
  <2>0. UNCHANGED <<defect, late, faults, disturbed>> /\ UNCHANGED service /\ run[w] \in Runs /\ v \in Verdicts
        /\ Return(w, v)
    BY <1>0, <1>4, VerdictType DEF InspectAccount
  <2>1. defect => v # "SUPPORTED"
    BY <1>0, SupportNeedsAbsence DEF RecordKept
  <2>2. /\ profiles' \subseteq known' /\ analytics' \subseteq known' /\ known' \subseteq Runs
        /\ RecordKept'
    BY <2>0, StoresKeep
  <2> HIDE DEF v
  <2> QED BY <1>0, <1>a, <1>r, <2>0, <2>1, <2>2, WorkerKeeps
<1>5. ASSUME NEW w \in Workers, RequestFails(w)
      PROVE  DefectInv'
  <2>1. /\ faults' \in 0 .. MaxFaults /\ UNCHANGED defect /\ run[w] \in Runs
        /\ Return(w, "UNAVAILABLE")
    BY <1>0, <1>5, BoundAssumption DEF RequestFails
  <2>2. late' \in [Runs \X Requests -> Nat]
    BY <1>0, <1>5 DEF RequestFails
  <2>a. disturbed' \in [Workers -> BOOLEAN]
    BY <1>0, <1>5, <1>d DEF RequestFails
  <2>3. Seed(run[w]) \/ (Process(run[w]) /\ Processable(run[w])) \/ UNCHANGED service
    BY <1>5 DEF RequestFails, SeedAmong
  <2>4. /\ profiles' \subseteq known' /\ analytics' \subseteq known' /\ known' \subseteq Runs
        /\ RecordKept'
    BY <2>1, <2>3, StoresKeep
  <2> QED BY <1>a, <1>r, <2>1, <2>2, <2>a, <2>4, WorkerKeeps
<1>o. ASSUME UNCHANGED <<defect, pc, run, verdict>>, faults' \in 0 .. MaxFaults,
             late' \in [Runs \X Requests -> Nat], disturbed' \in [Workers -> BOOLEAN], RecordKept',
             profiles' \subseteq known', analytics' \subseteq known', known' \subseteq Runs
      PROVE  DefectInv'
  <2>1. TypeOK'
    BY <1>0, <1>o DEF TypeOK
  <2>2. DefectNeverSupported'
    BY <1>0, <1>o DEF DefectNeverSupported
  <2> QED BY <1>o, <2>1, <2>2 DEF DefectInv
<1>6. ASSUME NEW r \in Runs, NEW q \in Requests, LateRequest(r, q)
      PROVE  DefectInv'
  <2>1. late' \in [Runs \X Requests -> Nat] /\ UNCHANGED <<defect, pc, run, verdict, faults>>
    BY <1>0, <1>6 DEF LateRequest
  <2>2. Seed(r) \/ (Process(r) /\ Processable(r)) \/ UNCHANGED service
    BY <1>6 DEF LateRequest, SeedAmong
  <2>a. disturbed' \in [Workers -> BOOLEAN]
    BY <1>0, <1>6, <1>d DEF LateRequest
  <2>3. /\ profiles' \subseteq known' /\ analytics' \subseteq known' /\ known' \subseteq Runs
        /\ RecordKept'
    BY <2>1, <2>2, StoresKeep
  <2> QED BY <1>0, <1>o, <2>1, <2>a, <2>3
<1>7. CASE Restart
  <2>1. faults' \in 0 .. MaxFaults
    BY <1>0, <1>7, BoundAssumption DEF Restart
  <2> QED BY <1>0, <1>7, <1>o, <2>1 DEF Restart, RecordKept
<1>8. CASE UNCHANGED vars
  BY <1>0, <1>8, <1>o DEF vars, service, RecordKept
<1> QED BY <1>1, <1>2, <1>3, <1>4, <1>5, <1>6, <1>7, <1>8 DEF Next

\* Every reachable state is well typed: the stores hold records of known accounts only.
THEOREM TypeCorrect == Spec => []TypeOK
<1>1. DefectInv => TypeOK
  BY DEF DefectInv
<1> QED BY <1>1, DefectInit, DefectStep, PTL DEF Spec

\* A service that keeps the analytics record is never found to keep its promise, however
\* many workers share an account, whatever requests land late and however often the
\* service restarts.
THEOREM DefectsAreNotSupported == Spec => []DefectNeverSupported
<1>1. DefectInv => DefectNeverSupported
  BY DEF DefectInv
<1> QED BY <1>1, DefectInit, DefectStep, PTL DEF Spec

-----------------------------------------------------------------------------
(* The correct service. *)

Records == profiles \cup analytics

\* An account that an undisturbed worker inspects has no record left.
CorrectInv ==
    /\ ~defect => \A w \in Workers : pc[w] = "inspect" /\ ~disturbed[w] => run[w] \notin Records
    /\ CorrectNeverContradicted

\* No worker has begun at the start.
LEMMA CorrectInit == Init => CorrectInv
BY DEF Init, CorrectInv, CorrectNeverContradicted

\* An account without records contradicts nothing.
LEMMA ContradictionNeedsRecord ==
    ASSUME NEW r, r \notin Records
    PROVE  calculate_verdict(Evidence(r)) # "CONTRADICTED"
<1>1. timeline_result(ObservationElapsed(r)) # "FAIL"
  BY DEF timeline_result, ObservationElapsed, ProcessingElapsed
<1>2. /\ record_evidence(Exists(r, profiles)) # "FAIL"
      /\ record_evidence(Exists(r, analytics)) # "FAIL" /\ record_evidence("unknown") # "FAIL"
  BY DEF record_evidence, Exists, Records
<1>3. "FAIL" \notin Evidence(r)
  BY <1>1, <1>2 DEF Evidence
<1> QED BY <1>3 DEF calculate_verdict

\* No record comes back to the accounts of the given workers without disturbing them.
Noticed(workers) ==
    \A u \in workers :
        /\ disturbed[u] => disturbed'[u]
        /\ pc[u] # "idle" /\ ~disturbed'[u] /\ run[u] \in Records' => run[u] \in Records

\* Removing records is no disturbance, and a seed disturbs the others who test the account.
LEMMA SeedsNoticed ==
    ASSUME TypeOK, NEW r \in Runs, NEW others \in SUBSET Workers,
           \/ SeedAmong(r, others)
           \/ Process(r) /\ UNCHANGED disturbed
           \/ UNCHANGED <<service, disturbed>>
    PROVE  Noticed(others) /\ \A w \in Workers : disturbed[w] => disturbed'[w]
<1>1. CASE SeedAmong(r, others)
  <2>1. /\ profiles' = profiles \cup {r} /\ analytics' = analytics \cup {r}
        /\ \A w \in Workers : disturbed'[w] =
              (disturbed[w] \/ (w \in others /\ pc[w] # "idle" /\ run[w] = r))
    BY <1>1 DEF SeedAmong, Seed
  <2> QED BY <2>1 DEF Noticed, Records
<1>2. CASE Process(r) /\ UNCHANGED disturbed
  <2>1. profiles' \subseteq profiles /\ analytics' \subseteq analytics
    BY <1>2 DEF Process
  <2> QED BY <1>2, <2>1 DEF Noticed, Records
<1>3. CASE UNCHANGED <<service, disturbed>>
  BY <1>3 DEF Noticed, Records, service
<1> QED BY <1>1, <1>2, <1>3

\* A worker goes on or ends: it leaves the others as they are, unless it disturbs them.
LEMMA ExecutionKeeps ==
    ASSUME TypeOK, CorrectInv, NEW w \in Workers, NEW point, NEW v,
           pc' = [pc EXCEPT ![w] = point], verdict' = [verdict EXCEPT ![w] = v],
           UNCHANGED <<run, defect>>, Noticed(Workers \ {w}),
           ~defect /\ point = "inspect" /\ ~disturbed'[w] => run[w] \notin Records',
           ~defect /\ v = "CONTRADICTED" => disturbed'[w]
    PROVE  CorrectInv'
<1>0. /\ pc'[w] = point /\ verdict'[w] = v
      /\ \A u \in Workers \ {w} : pc'[u] = pc[u] /\ verdict'[u] = verdict[u]
  BY DEF TypeOK
<1>1. ASSUME ~defect, NEW u \in Workers, pc'[u] = "inspect", ~disturbed'[u]
      PROVE  run[u] \notin Records'
  <2>1. CASE u = w
    BY <1>0, <1>1, <2>1
  <2>2. CASE u # w
    BY <1>0, <1>1, <2>2 DEF CorrectInv, Noticed
  <2> QED BY <2>1, <2>2
<1>2. ASSUME ~defect, NEW u \in Workers, verdict'[u] = "CONTRADICTED"
      PROVE  disturbed'[u]
  <2>1. CASE u = w
    BY <1>0, <1>2, <2>1
  <2>2. CASE u # w
    BY <1>0, <1>2, <2>2 DEF CorrectInv, CorrectNeverContradicted, Noticed
  <2> QED BY <2>1, <2>2
<1> QED BY <1>1, <1>2 DEF CorrectInv, CorrectNeverContradicted

\* Every step keeps the invariant.
LEMMA CorrectStep ==
    ASSUME TypeOK, CorrectInv, [Next]_vars
    PROVE  CorrectInv'
<1>0. /\ pc \in [Workers -> Points] /\ verdict \in [Workers -> Verdicts]
      /\ run \in [Workers -> Runs] /\ disturbed \in [Workers -> BOOLEAN]
  BY DEF TypeOK
<1>v. \A w \in Workers : verdict = [verdict EXCEPT ![w] = verdict[w]]
  BY <1>0
<1>1. ASSUME NEW w \in Workers, NEW r \in Runs, Start(w, r)
      PROVE  CorrectInv'
  <2>1. /\ pc' = [pc EXCEPT ![w] = "seed"] /\ run' = [run EXCEPT ![w] = r]
        /\ verdict' = [verdict EXCEPT ![w] = "PENDING"]
        /\ disturbed' = [disturbed EXCEPT ![w] = FALSE]
        /\ UNCHANGED <<defect, profiles, analytics>>
    BY <1>1 DEF Start, service
  <2> QED BY <1>0, <2>1 DEF CorrectInv, CorrectNeverContradicted, Records
<1>2. ASSUME NEW w \in Workers, SeedAccount(w)
      PROVE  CorrectInv'
  <2>1. /\ SeedAmong(run[w], Workers \ {w}) /\ UNCHANGED <<run, verdict, defect>>
        /\ pc' = [pc EXCEPT ![w] = "process"] /\ pc[w] = "seed" /\ run[w] \in Runs
    BY <1>0, <1>2 DEF SeedAccount, Goto
  <2>2. Noticed(Workers \ {w}) /\ (disturbed[w] => disturbed'[w])
    BY <2>1, SeedsNoticed
  <2>3. ~defect /\ verdict[w] = "CONTRADICTED" => disturbed'[w]
    BY <2>2 DEF CorrectInv, CorrectNeverContradicted
  <2>4. verdict' = [verdict EXCEPT ![w] = verdict[w]]
    BY <1>v, <2>1
  <2> QED BY <2>1, <2>2, <2>3, <2>4, ExecutionKeeps
<1>3. ASSUME NEW w \in Workers, ProcessDeletion(w)
      PROVE  CorrectInv'
  <2>0. UNCHANGED <<run, defect, disturbed>> /\ run[w] \in Runs
    BY <1>0, <1>3 DEF ProcessDeletion, Goto, Return
  <2>1. CASE Process(run[w]) /\ Goto(w, "inspect")
    <3>1. ~defect => run[w] \notin Records'
      BY <2>1 DEF Process, Records
    <3>2. Noticed(Workers \ {w})
      BY <2>0, <2>1, SeedsNoticed
    <3>3. pc' = [pc EXCEPT ![w] = "inspect"] /\ verdict' = [verdict EXCEPT ![w] = verdict[w]]
      BY <1>v, <2>1 DEF Goto
    <3>4. ~defect /\ verdict[w] = "CONTRADICTED" => disturbed'[w]
      BY <2>0 DEF CorrectInv, CorrectNeverContradicted
    <3> QED BY <2>0, <3>1, <3>2, <3>3, <3>4, ExecutionKeeps
  <2>2. CASE Return(w, "UNAVAILABLE") /\ UNCHANGED service
    <3>1. Noticed(Workers \ {w})
      BY <2>0, <2>2, SeedsNoticed
    <3> QED BY <2>0, <2>2, <3>1, ExecutionKeeps DEF Return
  <2> QED BY <1>3, <2>1, <2>2 DEF ProcessDeletion
<1>4. ASSUME NEW w \in Workers, InspectAccount(w)
      PROVE  CorrectInv'
  <2> DEFINE v == calculate_verdict(Evidence(run[w]))
  <2>0. /\ pc[w] = "inspect" /\ UNCHANGED <<service, run, defect, disturbed>> /\ run[w] \in Runs
        /\ pc' = [pc EXCEPT ![w] = "idle"] /\ verdict' = [verdict EXCEPT ![w] = v]
    BY <1>0, <1>4 DEF InspectAccount, Return
  <2>1. Noticed(Workers \ {w})
    BY <2>0, SeedsNoticed
  <2>2. ~defect /\ v = "CONTRADICTED" => disturbed'[w]
    BY <2>0, ContradictionNeedsRecord DEF CorrectInv
  <2> HIDE DEF v
  <2> QED BY <2>0, <2>1, <2>2, ExecutionKeeps
<1>5. ASSUME NEW w \in Workers, RequestFails(w)
      PROVE  CorrectInv'
  <2>1. /\ pc' = [pc EXCEPT ![w] = "idle"] /\ verdict' = [verdict EXCEPT ![w] = "UNAVAILABLE"]
        /\ UNCHANGED <<run, defect>> /\ run[w] \in Runs
        /\ \/ SeedAmong(run[w], Workers \ {w})
           \/ Process(run[w]) /\ UNCHANGED disturbed
           \/ UNCHANGED <<service, disturbed>>
    BY <1>0, <1>5 DEF RequestFails, Return
  <2>2. Noticed(Workers \ {w})
    BY <2>1, SeedsNoticed
  <2> QED BY <2>1, <2>2, ExecutionKeeps
<1>6. ASSUME NEW r \in Runs, NEW q \in Requests, LateRequest(r, q)
      PROVE  CorrectInv'
  <2>1. /\ \/ SeedAmong(r, Workers)
           \/ Process(r) /\ UNCHANGED disturbed
           \/ UNCHANGED <<service, disturbed>>
        /\ UNCHANGED <<pc, run, verdict, defect>>
    BY <1>6 DEF LateRequest
  <2>2. Noticed(Workers)
    BY <2>1, SeedsNoticed
  <2> QED BY <2>1, <2>2 DEF CorrectInv, CorrectNeverContradicted, Noticed
<1>7. CASE Restart
  BY <1>7 DEF Restart, CorrectInv, CorrectNeverContradicted, Records
<1>8. CASE UNCHANGED vars
  BY <1>8 DEF vars, service, CorrectInv, CorrectNeverContradicted, Records
<1> QED BY <1>1, <1>2, <1>3, <1>4, <1>5, <1>6, <1>7, <1>8 DEF Next

\* However many workers share accounts and however late requests are applied, a service
\* that does what it promises is contradicted only by an execution that somebody else's
\* seed disturbed.
THEOREM CorrectIsNotContradicted == Spec => []CorrectNeverContradicted
<1>1. CorrectInv => CorrectNeverContradicted
  BY DEF CorrectInv
<1>2. TypeOK /\ CorrectInv /\ [Next]_vars => CorrectInv'
  BY CorrectStep
<1> QED BY <1>1, <1>2, CorrectInit, TypeCorrect, PTL DEF Spec
=============================================================================
