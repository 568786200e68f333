-------------------------- MODULE RepairCandidate ---------------------------
(***************************************************************************)
(* The way of a repair from the repository to a draft pull request, over   *)
(* several runs: capture of the two approved files at one commit of a      *)
(* moving default branch (github.py), construction of the one approved     *)
(* candidate (remediation.py), its verification and the checkpoint of      *)
(* receipt and candidate in the run (service.py, models.py), recovery      *)
(* after a crash, and the gate and fingerprint of the publisher            *)
(* (github.py).                                                            *)
(*                                                                         *)
(* The approved template makes one candidate of one pair of files, so a    *)
(* candidate is named by its base commit.                                  *)
(***************************************************************************)
EXTENDS Naturals, FiniteSets

CONSTANTS
    Runs,      \* runs of the audit, each of which contradicts the promise
    None,      \* no commit
    MaxMoves,  \* bound on new commits of the default branch
    MaxFaults  \* bound on failing requests and crashes

ASSUME BoundAssumption == MaxMoves \in Nat /\ MaxFaults \in Nat
ASSUME NoneAssumption == None \notin Nat

VARIABLES
    head,      \* the last commit of the default branch
    content,   \* what each commit holds at the approved paths
    pc,        \* where the worker of each run stands
    base,      \* the commit whose files are captured
    files,     \* the captured files
    artifact,  \* the candidate built from them
    store,     \* the durable run: receipt, its binding, candidate and route
    drafts,    \* GitHub: draft pull requests, by the candidate of their fingerprint
    verified,  \* history: candidates that a build verified
    faults     \* faults so far

vars == <<head, content, pc, base, files, artifact, store, drafts, verified, faults>>

Commits == 0 .. MaxMoves

\* ALLOWED_REMEDIATION_PATHS.
Paths == {"store.py", "test_app.py"}

\* "locked" is the content with the hash of EXPECTED_PREIMAGE_SHA256; other content cannot
\* be repaired, and what is not a regular bounded file cannot be read.
Versions == {"locked", "drifted", "irregular"}

NoFiles == [path \in Paths |-> "none"]

Records == [publishable : BOOLEAN, binding : Commits \cup {None},
            candidate : Commits \cup {None}, routed : {"no", "draft", "issue"}]

NoRecord == [publishable |-> FALSE, binding |-> None, candidate |-> None, routed |-> "no"]

Points == {"capture", "reading", "build", "verify", "route", "dispatch", "done", "crashed"}

TypeOK ==
    /\ head \in Commits
    /\ content \in [Commits -> [Paths -> Versions]]
    /\ pc \in [Runs -> Points]
    /\ base \in [Runs -> Commits \cup {None}]
    /\ files \in [Runs -> [Paths -> Versions \cup {"none"}]]
    /\ artifact \in [Runs -> Commits \cup {None}]
    /\ store \in [Runs -> Records]
    /\ drafts \subseteq Commits /\ verified \subseteq Commits
    /\ faults \in 0 .. MaxFaults

Init ==
    /\ head = 0
    /\ content \in [Commits -> [Paths -> Versions]]
    /\ pc = [r \in Runs |-> "capture"]
    /\ base = [r \in Runs |-> None]
    /\ files = [r \in Runs |-> NoFiles]
    /\ artifact = [r \in Runs |-> None]
    /\ store = [r \in Runs |-> NoRecord]
    /\ drafts = {} /\ verified = {}
    /\ faults = 0

-----------------------------------------------------------------------------
github == <<head, content, drafts>>

Goto(r, target) == pc' = [pc EXCEPT ![r] = target]
Fault == faults < MaxFaults /\ faults' = faults + 1

\* No candidate: the verification stage records an unavailable receipt.
Unprepared(r) ==
    /\ Goto(r, "verify")
    /\ artifact' = [artifact EXCEPT ![r] = None]

\* _get_ref_sha of the default branch, after the checks of the installation.
CaptureRef(r) ==
    /\ pc[r] = "capture"
    /\ \/ /\ base' = [base EXCEPT ![r] = head]
          /\ files' = [files EXCEPT ![r] = NoFiles]
          /\ Goto(r, "reading")
          /\ UNCHANGED <<artifact, faults>>
       \/ Fault /\ Unprepared(r) /\ UNCHANGED <<base, files>>
    /\ UNCHANGED <<github, store, verified>>

\* Mutant: the files are read at the branch, not at the commit that was resolved first.
ReadAt_head(r) == head

\* The blobs are those of the tree of the captured base commit.
ReadAt(r) == base[r]

\* One blob of the commit's tree, which must be a regular bounded file.
CaptureFile(r) ==
    /\ pc[r] = "reading"
    /\ \E path \in Paths :
          /\ files[r][path] = "none"
          /\ LET version == content[ReadAt(r)][path]
             IN \/ /\ version # "irregular"
                   /\ files' = [files EXCEPT ![r][path] = version]
                   /\ UNCHANGED <<pc, artifact, faults>>
                \/ version = "irregular" /\ Unprepared(r) /\ UNCHANGED <<files, faults>>
                \/ Fault /\ Unprepared(r) /\ UNCHANGED files
    /\ UNCHANGED <<github, base, store, verified>>

Captured(r) ==
    /\ pc[r] = "reading"
    /\ \A path \in Paths : files[r][path] # "none"
    /\ Goto(r, "build")
    /\ UNCHANGED <<github, base, files, artifact, store, verified, faults>>

\* Mutant: a drifted test file is repaired as well.
Approved_loosely(preimages) == preimages["store.py"] = "locked"

\* The hashes that build_bounded_remediation_artifact and _validate_artifact compare.
Approved(preimages) == \A path \in Paths : preimages[path] = "locked"

BuildArtifact(r) ==
    /\ pc[r] = "build"
    /\ \/ /\ Approved(files[r])
          /\ artifact' = [artifact EXCEPT ![r] = base[r]]
          /\ Goto(r, "verify")
       \/ ~Approved(files[r]) /\ Unprepared(r)
    /\ UNCHANGED <<github, base, files, store, verified, faults>>

Record(r, record) == store' = [store EXCEPT ![r] = record]

\* verify, to_verification_receipt and checkpoint_verified_candidate, with the save that
\* ends the stage.  A build verifies only what the commit holds (CloudBuildVerifier).
Verify(r) ==
    /\ pc[r] = "verify"
    /\ \/ /\ artifact[r] # None /\ Approved(content[artifact[r]])
          /\ Record(r, [publishable |-> TRUE, binding |-> artifact[r],
                        candidate |-> artifact[r], routed |-> "no"])
          /\ verified' = verified \cup {artifact[r]}
          /\ UNCHANGED faults
       \/ /\ artifact[r] # None
          /\ \/ Fault
             \/ ~Approved(content[artifact[r]]) /\ UNCHANGED faults
          /\ Record(r, NoRecord)
          /\ UNCHANGED verified
       \/ /\ artifact[r] = None
          /\ Record(r, [store[r] EXCEPT !.publishable = FALSE, !.binding = None, !.routed = "no"])
          /\ UNCHANGED <<verified, faults>>
    /\ Goto(r, "route")
    /\ UNCHANGED <<github, base, files, artifact>>

\* The planner's route and the save that makes it durable.
Route(r) ==
    /\ pc[r] = "route"
    /\ Record(r, [store[r] EXCEPT !.routed = IF store[r].publishable THEN "draft" ELSE "issue"])
    /\ Goto(r, "dispatch")
    /\ UNCHANGED <<github, base, files, artifact, verified, faults>>

\* _snapshot_candidate and _require_pull_request_gate.
Gate(record) ==
    /\ record.candidate # None
    /\ record.publishable
    /\ record.binding = record.candidate

\* An earlier draft of the same candidate is found, or the default branch is at its base.
MayPublish(record) ==
    Gate(record) /\ (record.candidate \in drafts \/ head = record.candidate)

\* publish_draft_pull_request, whose steps are in PullRequestPublication; a rejection
\* falls back to an issue.
Dispatch(r) ==
    /\ pc[r] = "dispatch"
    /\ \/ /\ store[r].routed = "draft" /\ MayPublish(store[r])
          /\ drafts' = drafts \cup {store[r].candidate}
          /\ Goto(r, "done") /\ UNCHANGED store
       \/ /\ store[r].routed = "draft" /\ ~MayPublish(store[r])
          /\ Record(r, [store[r] EXCEPT !.routed = "issue"])
          /\ UNCHANGED <<pc, drafts>>
       \/ store[r].routed = "issue" /\ Goto(r, "done") /\ UNCHANGED <<drafts, store>>
    /\ UNCHANGED <<head, content, base, files, artifact, verified, faults>>

Crash(r) ==
    /\ pc[r] \notin {"done", "crashed"}
    /\ Fault
    /\ Goto(r, "crashed")
    /\ base' = [base EXCEPT ![r] = None]
    /\ files' = [files EXCEPT ![r] = NoFiles]
    /\ artifact' = [artifact EXCEPT ![r] = None]
    /\ UNCHANGED <<github, store, verified>>

\* Mutant: the receipt of the interrupted attempt is kept, its candidate is not.
Reset_receipt_kept(record) == [record EXCEPT !.candidate = None, !.routed = "no"]

\* _reset_interrupted_run clears what an interrupted attempt recorded.
Reset(record) == NoRecord

\* A routed run is dispatched again; any other starts over.
Resume(r) ==
    /\ pc[r] = "crashed"
    /\ \/ store[r].routed # "no" /\ Goto(r, "dispatch") /\ UNCHANGED store
       \/ store[r].routed = "no" /\ Goto(r, "capture") /\ Record(r, Reset(store[r]))
    /\ UNCHANGED <<github, base, files, artifact, verified, faults>>

\* Somebody pushes a commit.
MoveHead ==
    /\ head < MaxMoves
    /\ head' = head + 1
    /\ UNCHANGED <<content, pc, base, files, artifact, store, drafts, verified, faults>>

Worker(r) ==
    \/ CaptureRef(r) \/ CaptureFile(r) \/ Captured(r) \/ BuildArtifact(r) \/ Verify(r)
    \/ Route(r) \/ Dispatch(r) \/ Resume(r)

Finished == \A r \in Runs : pc[r] = "done"

Next == (\E r \in Runs : Worker(r) \/ Crash(r)) \/ MoveHead \/ (Finished /\ UNCHANGED vars)

Spec == Init /\ [][Next]_vars

-----------------------------------------------------------------------------
\* The candidate handed to the verifier repairs the files of its own base commit: both
\* preimages were read there, although the branch may move between the two reads and before
\* the candidate is built.
CandidateOfOneCommit ==
    \A r \in Runs :
        artifact[r] # None => \A path \in Paths : content[artifact[r]][path] = "locked"

\* Every draft is of a candidate that a build verified, on a base that holds exactly the
\* files of the approved template, after any crashes, retries and moves of the branch.
DraftsWereVerified ==
    \A c \in drafts : c \in verified /\ \A path \in Paths : content[c][path] = "locked"

\* A durable receipt that authorizes publication is bound to the durable candidate, also
\* after an interrupted attempt and one that could not be prepared.
ReceiptBindsCandidate ==
    \A r \in Runs : store[r].publishable => store[r].candidate # None /\ store[r].binding = store[r].candidate
=============================================================================
