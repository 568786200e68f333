----------------------- MODULE RepairCandidateProofs ------------------------
(***************************************************************************)
(* Theorems about RepairCandidate, for every set of runs, every number of  *)
(* commits with any content, and every number of faults.                   *)
(***************************************************************************)
EXTENDS RepairCandidate, TLAPS

\* The capture has a commit to read from, which a crash forgets together with the point.
Based == \A r \in Runs : pc[r] \in {"reading", "build"} => base[r] \in Commits

TypeInv == TypeOK /\ Based

-----------------------------------------------------------------------------
(* Types *)

\* The variables that only one run's worker changes.
Locals ==
    /\ pc \in [Runs -> Points]
    /\ base \in [Runs -> Commits \cup {None}]
    /\ files \in [Runs -> [Paths -> Versions \cup {"none"}]]
    /\ artifact \in [Runs -> Commits \cup {None}]

\* A counted fault stays within its bound.
LEMMA FaultType ==
    ASSUME faults \in 0 .. MaxFaults, Fault
    PROVE  faults' \in 0 .. MaxFaults
BY BoundAssumption DEF Fault

\* Setting the fields of a run's record keeps it a record.
LEMMA RecordType ==
    ASSUME store \in [Runs -> Records], NEW r \in Runs
    PROVE  /\ NoRecord \in Records
           /\ \A c \in Commits :
                [publishable |-> TRUE, binding |-> c, candidate |-> c, routed |-> "no"] \in Records
           /\ [store[r] EXCEPT !.publishable = FALSE, !.binding = None, !.routed = "no"] \in Records
           /\ \A route \in {"no", "draft", "issue"} : [store[r] EXCEPT !.routed = route] \in Records
<1>1. store[r] \in Records
  OBVIOUS
<1> QED BY <1>1 DEF Records, NoRecord

\* No file is captured at the start of a capture and after a crash.
LEMMA NoFilesType == NoFiles \in [Paths -> Versions \cup {"none"}]
BY DEF NoFiles

\* The steps of the capture and of the construction keep the types.
LEMMA PrepareType ==
    ASSUME TypeInv, NEW r \in Runs,
           CaptureRef(r) \/ CaptureFile(r) \/ Captured(r) \/ BuildArtifact(r)
    PROVE  TypeInv'
<1>0. Locals /\ head \in Commits /\ faults \in 0 .. MaxFaults /\ Based
  BY DEF TypeInv, TypeOK, Locals
<1>1. {"reading", "build", "verify"} \subseteq Points
  BY DEF Points
<1>2. CASE CaptureRef(r)
  <2>1. faults' \in 0 .. MaxFaults
    BY <1>0, <1>2, FaultType DEF CaptureRef
  <2>2. /\ base' \in [Runs -> Commits \cup {None}]
        /\ files' \in [Runs -> [Paths -> Versions \cup {"none"}]]
        /\ artifact' \in [Runs -> Commits \cup {None}]
    BY <1>0, <1>2, NoFilesType DEF CaptureRef, Unprepared, Locals
  <2>3. \/ pc' = [pc EXCEPT ![r] = "reading"] /\ base' = [base EXCEPT ![r] = head]
        \/ pc' = [pc EXCEPT ![r] = "verify"] /\ base' = base
    BY <1>2 DEF CaptureRef, Unprepared, Goto
  <2>4. pc' \in [Runs -> Points]
    BY <1>0, <1>1, <2>3 DEF Locals
  <2>5. Based'
    <3>1. CASE pc' = [pc EXCEPT ![r] = "reading"] /\ base' = [base EXCEPT ![r] = head]
      BY <1>0, <3>1 DEF Locals, Based
    <3>2. CASE pc' = [pc EXCEPT ![r] = "verify"] /\ base' = base
      BY <1>0, <3>2 DEF Locals, Based
    <3> QED BY <2>3, <3>1, <3>2
  <2> QED BY <1>2, <2>1, <2>2, <2>4, <2>5 DEF CaptureRef, github, TypeInv, TypeOK, Locals
<1>3. CASE CaptureFile(r)
  <2>1. PICK path \in Paths :
          LET version == content[ReadAt(r)][path]
          IN \/ /\ version # "irregular"
                /\ files' = [files EXCEPT ![r][path] = version]
                /\ UNCHANGED <<pc, artifact, faults>>
             \/ version = "irregular" /\ Unprepared(r) /\ UNCHANGED <<files, faults>>
             \/ Fault /\ Unprepared(r) /\ UNCHANGED files
    BY <1>3 DEF CaptureFile
  <2>2. content[ReadAt(r)][path] \in Versions
    BY <1>0, <1>3 DEF CaptureFile, ReadAt, Based, TypeInv, TypeOK
  <2>3. faults' \in 0 .. MaxFaults
    BY <1>0, <2>1, FaultType
  <2>4. files' \in [Runs -> [Paths -> Versions \cup {"none"}]]
    BY <1>0, <2>1, <2>2 DEF Locals
  <2>5. /\ pc' \in [Runs -> Points] /\ artifact' \in [Runs -> Commits \cup {None}]
        /\ \A q \in Runs : pc'[q] \in {"reading", "build"} => pc[q] \in {"reading", "build"}
    BY <1>0, <1>1, <2>1 DEF Unprepared, Goto, Locals
  <2>6. Locals' /\ Based'
    BY <1>0, <1>3, <2>4, <2>5 DEF CaptureFile, Locals, Based
  <2> QED BY <1>3, <2>3, <2>6 DEF CaptureFile, github, TypeInv, TypeOK, Locals
<1>4. CASE Captured(r)
  <2>1. Locals' /\ Based'
    BY <1>0, <1>1, <1>4 DEF Captured, Goto, Locals, Based
  <2> QED BY <1>4, <2>1 DEF Captured, github, TypeInv, TypeOK, Locals
<1>5. CASE BuildArtifact(r)
  <2>1. Locals' /\ Based'
    BY <1>0, <1>1, <1>5 DEF BuildArtifact, Unprepared, Goto, Locals, Based
  <2> QED BY <1>5, <2>1 DEF BuildArtifact, github, TypeInv, TypeOK, Locals
<1> QED BY <1>2, <1>3, <1>4, <1>5

\* A step that moves one worker past the capture leaves every capture with its commit.
LEMMA GotoBased ==
    ASSUME Locals, Based, NEW r \in Runs, NEW target \in Points \ {"reading", "build"},
           Goto(r, target), UNCHANGED base
    PROVE  pc' \in [Runs -> Points] /\ Based'
BY DEF Goto, Locals, Based

\* The steps from the verification to the draft, and the recovery, keep the types.
LEMMA RouteType ==
    ASSUME TypeInv, NEW r \in Runs, Verify(r) \/ Route(r) \/ Dispatch(r) \/ Resume(r)
    PROVE  TypeInv'
<1>0. /\ Locals /\ faults \in 0 .. MaxFaults /\ Based /\ store \in [Runs -> Records]
      /\ verified \subseteq Commits /\ drafts \subseteq Commits
  BY DEF TypeInv, TypeOK, Locals
<1>1. {"route", "dispatch", "done", "capture"} \subseteq Points \ {"reading", "build"}
  BY DEF Points
<1>2. CASE Verify(r)
  <2>1. pc' \in [Runs -> Points] /\ Based'
    BY <1>0, <1>1, <1>2, GotoBased DEF Verify
  <2>2. faults' \in 0 .. MaxFaults
    BY <1>0, <1>2, FaultType DEF Verify
  <2>3. artifact[r] # None => artifact[r] \in Commits
    BY <1>0 DEF Locals
  <2>4. store' \in [Runs -> Records] /\ verified' \subseteq Commits
    BY <1>0, <1>2, <2>3, RecordType DEF Verify, Record
  <2> QED BY <1>2, <2>1, <2>2, <2>4 DEF Verify, github, TypeInv, TypeOK
<1>3. CASE Route(r)
  <2>1. pc' \in [Runs -> Points] /\ Based'
    BY <1>0, <1>1, <1>3, GotoBased DEF Route
  <2>2. store' \in [Runs -> Records]
    BY <1>0, <1>3, RecordType DEF Route, Record
  <2> QED BY <1>3, <2>1, <2>2 DEF Route, github, TypeInv, TypeOK
<1>4. CASE Dispatch(r)
  <2>1. pc' \in [Runs -> Points] /\ Based'
    <3>1. CASE Goto(r, "done")
      BY <1>0, <1>1, <1>4, <3>1, GotoBased DEF Dispatch
    <3>2. CASE UNCHANGED pc
      BY <1>0, <1>4, <3>2 DEF Dispatch, Locals, Based
    <3> QED BY <1>4, <3>1, <3>2 DEF Dispatch
  <2>2. store' \in [Runs -> Records]
    BY <1>0, <1>4, RecordType DEF Dispatch, Record
  <2>3. drafts' \subseteq Commits
    BY <1>0, <1>4 DEF Dispatch, MayPublish, Gate, Records
  <2> QED BY <1>4, <2>1, <2>2, <2>3 DEF Dispatch, TypeInv, TypeOK
<1>5. CASE Resume(r)
  <2>1. pc' \in [Runs -> Points] /\ Based'
    BY <1>0, <1>1, <1>5, GotoBased DEF Resume
  <2>2. store' \in [Runs -> Records]
    BY <1>0, <1>5, RecordType DEF Resume, Record, Reset
  <2> QED BY <1>5, <2>1, <2>2 DEF Resume, github, TypeInv, TypeOK
<1> QED BY <1>2, <1>3, <1>4, <1>5

\* So do a crash and a commit of somebody else.
LEMMA EnvironmentType ==
    ASSUME TypeInv, (\E r \in Runs : Crash(r)) \/ MoveHead \/ UNCHANGED vars
    PROVE  TypeInv'
<1>1. ASSUME NEW r \in Runs, Crash(r) PROVE TypeInv'
  <2>1. Locals /\ faults \in 0 .. MaxFaults /\ Based /\ "crashed" \in Points
    BY DEF TypeInv, TypeOK, Locals, Points
  <2>2. faults' \in 0 .. MaxFaults
    BY <1>1, <2>1, FaultType DEF Crash
  <2>3. Locals' /\ Based'
    BY <1>1, <2>1, NoFilesType DEF Crash, Goto, Locals, Based
  <2> QED BY <1>1, <2>2, <2>3 DEF Crash, github, TypeInv, TypeOK, Locals
<1>2. CASE MoveHead
  <2>1. head' \in Commits
    BY <1>2, BoundAssumption DEF MoveHead, Commits, TypeInv, TypeOK
  <2> QED BY <1>2, <2>1 DEF MoveHead, TypeInv, TypeOK, Based
<1>3. CASE UNCHANGED vars
  BY <1>3 DEF vars, TypeInv, TypeOK, Based
<1> QED BY <1>1, <1>2, <1>3

\* Every reachable state is well typed, and a capture reads a commit.
LEMMA TypeInvariant == Spec => []TypeInv
<1>1. Init => TypeInv
  BY BoundAssumption, NoFilesType
     DEF Init, TypeInv, TypeOK, Based, Commits, Points, Records, NoRecord
<1>2. TypeInv /\ [Next]_vars => TypeInv'
  BY PrepareType, RouteType, EnvironmentType DEF Next, Worker
<1> QED BY <1>1, <1>2, PTL DEF Spec

\* The workers keep typed records: no receipt, binding or candidate that is not a commit,
\* however the runs are interrupted and resumed.
THEOREM TypeCorrect == Spec => []TypeOK
BY TypeInvariant, PTL DEF TypeInv

-----------------------------------------------------------------------------
(* Construction *)

\* What makes CandidateOfOneCommit inductive: every captured file is the base commit's.
CaptureInv ==
    /\ \A r \in Runs : \A path \in Paths :
          files[r][path] # "none" => files[r][path] = content[base[r]][path]
    /\ CandidateOfOneCommit

\* A step that captures no file and builds no candidate, but may forget both.
LEMMA KeepsCapture ==
    ASSUME TypeInv, CaptureInv, NEW r \in Runs, UNCHANGED content,
           \/ UNCHANGED <<base, files>>
           \/ /\ files' = [files EXCEPT ![r] = NoFiles]
              /\ \A q \in Runs \ {r} : base'[q] = base[q],
           artifact' = artifact \/ artifact' = [artifact EXCEPT ![r] = None]
    PROVE  CaptureInv'
<1>0. Locals
  BY DEF TypeInv, TypeOK, Locals
<1>1. \A q \in Runs : \A path \in Paths :
        files'[q][path] # "none" => files'[q][path] = content[base'[q]][path]
  <2>1. CASE UNCHANGED <<base, files>>
    BY <2>1 DEF CaptureInv
  <2>2. CASE /\ files' = [files EXCEPT ![r] = NoFiles]
             /\ \A q \in Runs \ {r} : base'[q] = base[q]
    <3>1. \A q \in Runs : files'[q] = IF q = r THEN NoFiles ELSE files[q]
      BY <1>0, <2>2 DEF Locals
    <3>2. \A path \in Paths : NoFiles[path] = "none"
      BY DEF NoFiles
    <3> QED BY <2>2, <3>1, <3>2 DEF CaptureInv
  <2> QED BY <2>1, <2>2
<1>2. \A q \in Runs : artifact'[q] = artifact[q] \/ artifact'[q] = None
  BY <1>0 DEF Locals
<1>3. CandidateOfOneCommit'
  BY <1>2 DEF CaptureInv, CandidateOfOneCommit
<1> QED BY <1>1, <1>3 DEF CaptureInv

\* Every step keeps it: a file is read at the base, which changes only when the captured
\* files are dropped, and a candidate is built of approved files.
LEMMA CaptureStep ==
    ASSUME TypeInv, CaptureInv, [Next]_vars
    PROVE  CaptureInv'
<1>0. Locals
  BY DEF TypeInv, TypeOK, Locals
<1>1. CASE UNCHANGED <<content, base, files, artifact>>
  BY <1>1 DEF CaptureInv, CandidateOfOneCommit
<1>2. ASSUME NEW r \in Runs, CaptureRef(r) PROVE CaptureInv'
  <2>1. UNCHANGED content
    BY <1>2 DEF CaptureRef, github
  <2> QED BY <1>0, <1>2, <2>1, KeepsCapture DEF CaptureRef, Unprepared, Locals
<1>3. ASSUME NEW r \in Runs, CaptureFile(r) PROVE CaptureInv'
  <2>1. UNCHANGED <<content, base>>
    BY <1>3 DEF CaptureFile, github
  <2>2. CASE UNCHANGED files /\ Unprepared(r)
    BY <2>1, <2>2, KeepsCapture DEF Unprepared
  <2>3. ASSUME NEW path \in Paths, files' = [files EXCEPT ![r][path] = content[ReadAt(r)][path]],
               UNCHANGED artifact
        PROVE  CaptureInv'
    <3>1. \A q \in Runs : \A p \in Paths :
            files'[q][p] = IF q = r /\ p = path THEN content[base[r]][path] ELSE files[q][p]
      BY <1>0, <2>3 DEF Locals, ReadAt
    <3> QED BY <2>1, <2>3, <3>1 DEF CaptureInv, CandidateOfOneCommit
  <2> QED BY <1>3, <2>2, <2>3 DEF CaptureFile
<1>4. ASSUME NEW r \in Runs, BuildArtifact(r) PROVE CaptureInv'
  <2>1. UNCHANGED <<content, base, files>>
    BY <1>4 DEF BuildArtifact, github
  <2>2. CASE Unprepared(r)
    BY <2>1, <2>2, KeepsCapture DEF Unprepared
  <2>3. CASE Approved(files[r]) /\ artifact' = [artifact EXCEPT ![r] = base[r]]
    <3>1. \A path \in Paths : content[base[r]][path] = "locked"
      BY <2>3 DEF Approved, CaptureInv
    <3>2. \A q \in Runs : artifact'[q] = IF q = r THEN base[r] ELSE artifact[q]
      BY <1>0, <2>3 DEF Locals
    <3> QED BY <2>1, <3>1, <3>2 DEF CaptureInv, CandidateOfOneCommit
  <2> QED BY <1>4, <2>2, <2>3 DEF BuildArtifact
<1>5. ASSUME NEW r \in Runs, Crash(r) PROVE CaptureInv'
  <2>1. UNCHANGED content
    BY <1>5 DEF Crash, github
  <2> QED BY <1>0, <1>5, <2>1, KeepsCapture DEF Crash, Locals
<1>6. ASSUME NEW r \in Runs, Captured(r) \/ Verify(r) \/ Route(r) \/ Dispatch(r) \/ Resume(r)
      PROVE  CaptureInv'
  BY <1>1, <1>6 DEF Captured, Verify, Route, Dispatch, Resume, github
<1>7. CASE MoveHead \/ UNCHANGED vars
  BY <1>1, <1>7 DEF MoveHead, vars
<1> QED BY <1>2, <1>3, <1>4, <1>5, <1>6, <1>7 DEF Next, Worker

\* Every candidate repairs the files of its own base commit, however the branch moves
\* while capture_remediation_source reads them and however many runs and faults there are.
THEOREM CandidatesAreOfOneCommit == Spec => []CandidateOfOneCommit
<1>1. Init => CaptureInv
  BY DEF Init, CaptureInv, CandidateOfOneCommit, NoFiles
<1>2. CaptureInv => CandidateOfOneCommit
  BY DEF CaptureInv
<1> QED BY <1>1, <1>2, TypeInvariant, CaptureStep, PTL DEF Spec

-----------------------------------------------------------------------------
(* Publication *)

\* What makes ReceiptBindsCandidate and DraftsWereVerified inductive: the durable
\* candidate of an authorizing receipt was verified, and a build verifies approved files.
RepairInv ==
    /\ ReceiptBindsCandidate
    /\ \A r \in Runs : store[r].publishable => store[r].candidate \in verified
    /\ \A c \in verified : Approved(content[c])
    /\ drafts \subseteq verified

\* A step that replaces one record by one that keeps the promise.
LEMMA RecordKeeps ==
    ASSUME RepairInv, store \in [Runs -> Records], NEW r \in Runs, NEW record, Record(r, record),
           record.publishable => /\ record.candidate # None
                                 /\ record.binding = record.candidate
                                 /\ record.candidate \in verified',
           verified \subseteq verified', \A c \in verified' : Approved(content[c]),
           UNCHANGED <<content, drafts>>
    PROVE  RepairInv'
<1>1. \A q \in Runs : store'[q] = IF q = r THEN record ELSE store[q]
  BY DEF Record
<1>2. \A q \in Runs : store'[q].publishable =>
        /\ store'[q].candidate # None /\ store'[q].binding = store'[q].candidate
        /\ store'[q].candidate \in verified'
  BY <1>1 DEF RepairInv, ReceiptBindsCandidate
<1>3. \A c \in verified' : Approved(content'[c])
  OBVIOUS
<1> QED BY <1>2, <1>3 DEF RepairInv, ReceiptBindsCandidate, Approved

\* Every step keeps it: only a successful verification authorizes, with the candidate it
\* verified; a reset and an attempt without a candidate withdraw the authorization.
LEMMA RepairStep ==
    ASSUME TypeInv, RepairInv, [Next]_vars
    PROVE  RepairInv'
<1>0. store \in [Runs -> Records]
  BY DEF TypeInv, TypeOK
<1>1. CASE UNCHANGED <<content, store, drafts, verified>>
  BY <1>1 DEF RepairInv, ReceiptBindsCandidate, Approved
<1>2. ASSUME NEW r \in Runs, Verify(r) PROVE RepairInv'
  <2>0. UNCHANGED <<content, drafts>>
    BY <1>2 DEF Verify, github
  <2>1. CASE /\ artifact[r] # None /\ Approved(content[artifact[r]])
             /\ Record(r, [publishable |-> TRUE, binding |-> artifact[r],
                           candidate |-> artifact[r], routed |-> "no"])
             /\ verified' = verified \cup {artifact[r]}
    <3>1. \A c \in verified' : Approved(content[c])
      BY <2>1 DEF RepairInv
    <3> QED BY <1>0, <2>0, <2>1, <3>1, RecordKeeps
  <2>2. CASE Record(r, NoRecord) /\ UNCHANGED verified
    <3>1. \A c \in verified' : Approved(content[c])
      BY <2>2 DEF RepairInv
    <3>2. ~NoRecord.publishable
      BY DEF NoRecord
    <3> QED BY <1>0, <2>0, <2>2, <3>1, <3>2, RecordKeeps
  <2>3. CASE /\ Record(r, [store[r] EXCEPT !.publishable = FALSE, !.binding = None, !.routed = "no"])
             /\ UNCHANGED verified
    <3>1. \A c \in verified' : Approved(content[c])
      BY <2>3 DEF RepairInv
    <3>2. ~[store[r] EXCEPT !.publishable = FALSE, !.binding = None, !.routed = "no"].publishable
      BY <1>0 DEF Records
    <3> QED BY <1>0, <2>0, <2>3, <3>1, <3>2, RecordKeeps
  <2> QED BY <1>2, <2>1, <2>2, <2>3 DEF Verify
<1>3. ASSUME NEW r \in Runs, NEW route, Record(r, [store[r] EXCEPT !.routed = route]),
             UNCHANGED <<content, drafts, verified>>
      PROVE  RepairInv'
  <2> DEFINE record == [store[r] EXCEPT !.routed = route]
  <2>1. /\ record.publishable = store[r].publishable /\ record.binding = store[r].binding
        /\ record.candidate = store[r].candidate
    BY <1>0 DEF Records
  <2>2. Record(r, record)
    BY <1>3
  <2> HIDE DEF record
  <2>3. /\ store[r].publishable => /\ store[r].candidate # None
                                   /\ store[r].binding = store[r].candidate
                                   /\ store[r].candidate \in verified
        /\ \A c \in verified' : Approved(content[c])
    BY <1>3 DEF RepairInv, ReceiptBindsCandidate
  <2> QED BY <1>0, <1>3, <2>1, <2>2, <2>3, RecordKeeps
<1>4. ASSUME NEW r \in Runs, Route(r) PROVE RepairInv'
  BY <1>3, <1>4 DEF Route, github
<1>5. ASSUME NEW r \in Runs, Dispatch(r) PROVE RepairInv'
  <2>1. CASE /\ MayPublish(store[r]) /\ drafts' = drafts \cup {store[r].candidate}
             /\ UNCHANGED store
    <3>1. UNCHANGED <<content, store, verified>>
      BY <1>5, <2>1 DEF Dispatch
    <3>2. drafts' \subseteq verified'
      BY <2>1, <3>1 DEF RepairInv, MayPublish, Gate
    <3> QED BY <3>1, <3>2 DEF RepairInv, ReceiptBindsCandidate, Approved
  <2> QED BY <1>1, <1>3, <1>5, <2>1 DEF Dispatch
<1>6. ASSUME NEW r \in Runs, Resume(r) PROVE RepairInv'
  <2>1. CASE UNCHANGED store
    BY <1>1, <1>6, <2>1 DEF Resume, github
  <2>2. CASE Record(r, NoRecord)
    <3>1. /\ UNCHANGED <<content, drafts, verified>>
          /\ \A c \in verified' : Approved(content[c])
      BY <1>6 DEF Resume, github, RepairInv
    <3>2. ~NoRecord.publishable
      BY DEF NoRecord
    <3> QED BY <1>0, <2>2, <3>1, <3>2, RecordKeeps
  <2> QED BY <1>6, <2>1, <2>2 DEF Resume, Reset
<1>7. ASSUME NEW r \in Runs,
             CaptureRef(r) \/ CaptureFile(r) \/ Captured(r) \/ BuildArtifact(r) \/ Crash(r)
      PROVE  RepairInv'
  BY <1>1, <1>7 DEF CaptureRef, CaptureFile, Captured, BuildArtifact, Crash, github
<1>8. CASE MoveHead \/ UNCHANGED vars
  BY <1>1, <1>8 DEF MoveHead, vars
<1> QED BY <1>2, <1>4, <1>5, <1>6, <1>7, <1>8 DEF Next, Worker

\* The invariant holds in every reachable state.
LEMMA RepairInvariant == Spec => []RepairInv
<1>1. Init => RepairInv
  BY DEF Init, RepairInv, ReceiptBindsCandidate, NoRecord
<1> QED BY <1>1, TypeInvariant, RepairStep, PTL DEF Spec

\* A durable receipt that authorizes publication is bound to the durable candidate,
\* whatever was interrupted, reset or could not be prepared: checkpoint_verified_candidate
\* writes both at once, and every other write withdraws the authorization.
THEOREM ReceiptsBind == Spec => []ReceiptBindsCandidate
BY RepairInvariant, PTL DEF RepairInv

\* Every draft is of a candidate that a build verified on a base with exactly the approved
\* files: the gate publishes the durable candidate of an authorizing receipt only.
THEOREM DraftsAreVerified == Spec => []DraftsWereVerified
<1>1. RepairInv => DraftsWereVerified
  BY DEF RepairInv, DraftsWereVerified, Approved
<1> QED BY <1>1, RepairInvariant, PTL
=============================================================================
