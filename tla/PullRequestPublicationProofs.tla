-------------------- MODULE PullRequestPublicationProofs --------------------
(* Theorems about publish_draft_pull_request, for any number of workers. *)
EXTENDS PullRequestPublication, TLAPS

-----------------------------------------------------------------------------
(* Types, exact receipts and a person's last word: any number of edits. *)

\* Where a call stands that found a pull request listed when it began.
Knowing == {"idle", "gate", "find", "verify_found"}

\* What a call knows where it stands.
Known(p) ==
    /\ pc[p] # "idle" => result[p] = "none"
    /\ pc[p] \in Verifying \cup {"landed"} => seen[p].number # 0
    /\ knew[p] => listed > 0 /\ pc[p] \in Knowing

CoreInv ==
    /\ TypeOK
    /\ \A p \in Publishers : Known(p)
    /\ ReceiptsExact

\* GitHub stays well typed and forgets no pull request.
Onward ==
    /\ at_base' \in BOOLEAN /\ raced' \in BOOLEAN
    /\ branch' \in Commits /\ draft' \in Drafts
    /\ pulls' \in Nat /\ pulls <= pulls'
    /\ listed' \in 0 .. pulls' /\ listed <= listed'
    /\ refs' \in Nat /\ flying' \in Nat
    /\ edits' \in 0 .. MaxEdits /\ faults' \in 0 .. MaxFaults

\* Nothing is published and nobody publishes at the start.
LEMMA CoreInit == Init => CoreInv
<1> SUFFICES ASSUME Init PROVE CoreInv
  OBVIOUS
<1>0. /\ pc = [p \in Publishers |-> "idle"] /\ seen = [p \in Publishers |-> NoPull]
      /\ result = [p \in Publishers |-> "none"] /\ knew = [p \in Publishers |-> FALSE]
  BY DEF Init
<1>1. /\ NoPull \in Pulls /\ NoPull.number = 0 /\ "idle" \in Points /\ "none" \in Results
      /\ "idle" \notin Verifying \cup {"landed"}
  BY DEF NoPull, Pulls, Commits, Points, Posting, Verifying, Results
<1>b. at_base \in BOOLEAN /\ raced \in BOOLEAN
  BY Zenon DEF Init
<1>2. /\ branch \in Commits /\ draft \in Drafts
      /\ pulls \in Nat /\ listed \in 0 .. pulls /\ refs \in Nat /\ flying \in Nat
      /\ edits \in 0 .. MaxEdits /\ faults \in 0 .. MaxFaults /\ 0 <= pulls
  BY BoundAssumption DEF Init, Commits, Drafts
<1>3. TypeOK
  BY <1>0, <1>1, <1>2, <1>b DEF TypeOK
<1>4. \A p \in Publishers : Known(p)
  BY <1>0, <1>1 DEF Known
<1>5. ReceiptsExact
  BY <1>0 DEF ReceiptsExact
<1> QED BY <1>3, <1>4, <1>5 DEF CoreInv

\* A step of p that changes p's locals to good ones keeps the invariant.
LEMMA LocalsKeep ==
    ASSUME CoreInv, Onward, NEW p \in Publishers, NEW point \in Points, NEW pull \in Pulls,
           NEW ending \in Results, NEW knows \in BOOLEAN, pull.number <= pulls',
           pc' = [pc EXCEPT ![p] = point], seen' = [seen EXCEPT ![p] = pull],
           result' = [result EXCEPT ![p] = ending], knew' = [knew EXCEPT ![p] = knows],
           point # "idle" => ending = "none",
           point \in Verifying \cup {"landed"} => pull.number # 0,
           knows => listed' > 0 /\ point \in Knowing,
           ending = "receipt" => pull.number # 0 /\ pull.head = "candidate"
    PROVE  CoreInv'
<1>0. /\ pulls \in Nat /\ listed \in 0 .. pulls
      /\ pc \in [Publishers -> Points] /\ seen \in [Publishers -> Pulls]
      /\ result \in [Publishers -> Results] /\ knew \in [Publishers -> BOOLEAN]
  BY DEF CoreInv, TypeOK
<1>a. /\ pc' \in [Publishers -> Points] /\ seen' \in [Publishers -> Pulls]
      /\ result' \in [Publishers -> Results] /\ knew' \in [Publishers -> BOOLEAN]
  BY <1>0
<1>1. /\ pc'[p] = point /\ seen'[p] = pull /\ result'[p] = ending /\ knew'[p] = knows
      /\ \A q \in Publishers \ {p} : /\ pc'[q] = pc[q] /\ seen'[q] = seen[q]
                                     /\ result'[q] = result[q] /\ knew'[q] = knew[q]
  BY <1>0
<1>2. \A q \in Publishers : seen'[q].number <= pulls'
  <2>1. ASSUME NEW q \in Publishers PROVE seen'[q].number <= pulls'
    <3>1. CASE q = p
      BY <1>1, <3>1
    <3>2. CASE q # p
      <4>1. seen'[q] = seen[q] /\ seen[q].number \in Nat /\ seen[q].number <= pulls
        BY <1>0, <1>1, <3>2 DEF CoreInv, TypeOK, Pulls
      <4>2. pulls <= pulls' /\ pulls' \in Nat
        BY DEF Onward
      <4> QED BY <1>0, <4>1, <4>2
    <3> QED BY <3>1, <3>2
  <2> QED BY <2>1
<1>3. TypeOK'
  BY <1>a, <1>2 DEF Onward, TypeOK
<1>4. ASSUME NEW q \in Publishers PROVE Known(q)'
  <2>1. CASE q = p
    BY <1>1, <2>1 DEF Known
  <2>2. CASE q # p
    <3>1. Known(q) /\ pc'[q] = pc[q] /\ seen'[q] = seen[q] /\ result'[q] = result[q]
          /\ knew'[q] = knew[q]
      BY <1>1, <2>2 DEF CoreInv
    <3>2. listed > 0 => listed' > 0
      BY <1>0 DEF Onward
    <3> QED BY <3>1, <3>2 DEF Known
  <2> QED BY <2>1, <2>2
<1>5. ASSUME NEW q \in Publishers, result'[q] = "receipt"
      PROVE  seen'[q].number \in 1 .. pulls' /\ seen'[q].head = "candidate"
  <2>0. seen'[q].number \in Nat /\ seen'[q].number <= pulls' /\ pulls' \in Nat
    BY <1>2, <1>a DEF Pulls, Onward
  <2>1. CASE q = p
    BY <1>1, <1>5, <2>0, <2>1
  <2>2. CASE q # p
    <3>1. seen'[q] = seen[q] /\ seen[q].number \in 1 .. pulls /\ seen[q].head = "candidate"
      BY <1>1, <1>5, <2>2 DEF CoreInv, ReceiptsExact
    <3> QED BY <1>0, <2>0, <3>1
  <2> QED BY <2>1, <2>2
<1> QED BY <1>3, <1>4, <1>5 DEF CoreInv, ReceiptsExact

\* A step of GitHub or of a person keeps the invariant.
LEMMA OutsideKeeps ==
    ASSUME CoreInv, Onward, UNCHANGED locals
    PROVE  CoreInv'
<1>0. /\ pulls \in Nat /\ listed \in 0 .. pulls /\ pulls' \in Nat /\ pulls <= pulls'
      /\ UNCHANGED <<pc, seen, result, knew>>
  BY DEF CoreInv, TypeOK, Onward, locals
<1>1. \A q \in Publishers : seen[q].number \in Nat /\ seen[q].number <= pulls
  BY DEF CoreInv, TypeOK, Pulls
<1>2. \A q \in Publishers : seen'[q].number <= pulls'
  BY <1>0, <1>1
<1>3. TypeOK'
  BY <1>0, <1>2 DEF CoreInv, TypeOK, Onward
<1>4. listed > 0 => listed' > 0
  BY <1>0 DEF Onward
<1>5. \A q \in Publishers : Known(q)'
  BY <1>0, <1>4 DEF CoreInv, Known
<1>6. ReceiptsExact'
  BY <1>0, <1>1 DEF CoreInv, ReceiptsExact
<1> QED BY <1>3, <1>5, <1>6 DEF CoreInv

\* A call that moves on keeps the invariant.
LEMMA GotoKeeps ==
    ASSUME CoreInv, Onward, NEW p \in Publishers, NEW point \in Points, Goto(p, point),
           pc[p] # "idle", point # "idle",
           point \in Verifying \cup {"landed"} => seen[p].number # 0,
           knew[p] => point \in Knowing
    PROVE  CoreInv'
<1>0. /\ pulls \in Nat /\ pulls' \in Nat /\ pulls <= pulls' /\ listed \in 0 .. pulls
      /\ listed' \in 0 .. pulls' /\ listed <= listed'
      /\ seen \in [Publishers -> Pulls] /\ result \in [Publishers -> Results]
      /\ knew \in [Publishers -> BOOLEAN] /\ seen[p].number <= pulls /\ seen[p].number \in Nat
      /\ Known(p)
  BY DEF CoreInv, TypeOK, Onward, Pulls
<1>1. /\ pc' = [pc EXCEPT ![p] = point] /\ seen' = [seen EXCEPT ![p] = seen[p]]
      /\ result' = [result EXCEPT ![p] = result[p]] /\ knew' = [knew EXCEPT ![p] = knew[p]]
  BY <1>0 DEF Goto
<1>2. seen[p].number <= pulls' /\ (listed > 0 => listed' > 0)
  BY <1>0
<1>3. /\ result[p] = "none" /\ knew[p] \in BOOLEAN /\ seen[p] \in Pulls /\ result[p] \in Results
      /\ (knew[p] => listed' > 0)
  BY <1>0, <1>2 DEF Known
<1> QED BY <1>1, <1>2, <1>3, LocalsKeep

\* A call that ends keeps the invariant.
LEMMA EndKeeps ==
    ASSUME CoreInv, Onward, NEW p \in Publishers, NEW ending \in Results, NEW pull \in Pulls,
           End(p, ending, pull), pull.number <= pulls,
           ending = "receipt" => pull.number # 0 /\ pull.head = "candidate"
    PROVE  CoreInv'
<1>0. /\ pulls \in Nat /\ pulls' \in Nat /\ pulls <= pulls' /\ listed \in 0 .. pulls
      /\ listed' \in 0 .. pulls' /\ listed <= listed' /\ pull.number \in Nat
      /\ knew \in [Publishers -> BOOLEAN] /\ Known(p)
  BY DEF CoreInv, TypeOK, Onward, Pulls
<1>1. /\ pc' = [pc EXCEPT ![p] = "idle"] /\ seen' = [seen EXCEPT ![p] = pull]
      /\ result' = [result EXCEPT ![p] = ending] /\ knew' = [knew EXCEPT ![p] = knew[p]]
  BY <1>0 DEF End
<1>2. pull.number <= pulls' /\ (listed > 0 => listed' > 0)
  BY <1>0
<1>3. "idle" \in Points \cap Knowing /\ "idle" \notin Verifying \cup {"landed"}
  BY DEF Points, Knowing, Verifying, Posting
<1>4. knew[p] \in BOOLEAN /\ (knew[p] => listed' > 0)
  BY <1>0, <1>2 DEF Known
<1> QED BY <1>1, <1>2, <1>3, <1>4, LocalsKeep

\* A call that ends without a receipt keeps the invariant.
LEMMA FailureKeeps ==
    ASSUME CoreInv, Onward, NEW p \in Publishers,
           NEW ending \in {"uncertain", "refused", "raised", "rejected"}, End(p, ending, NoPull)
    PROVE  CoreInv'
<1>1. NoPull \in Pulls /\ NoPull.number = 0 /\ ending \in Results /\ 0 <= pulls
  BY DEF NoPull, Pulls, Commits, Results, CoreInv, TypeOK
<1> QED BY <1>1, EndKeeps

\* A step that changes nothing on GitHub is onward.
LEMMA QuietIsOnward ==
    ASSUME CoreInv, UNCHANGED github, Fault \/ UNCHANGED faults
    PROVE  Onward
<1>1. faults' \in 0 .. MaxFaults
  BY BoundAssumption DEF CoreInv, TypeOK, Fault
<1>2. UNCHANGED <<at_base, branch, pulls, draft, listed, refs, flying, edits, raced>>
  BY DEF github
<1> QED BY <1>1, <1>2 DEF CoreInv, TypeOK, Onward

\* A POST that is abandoned or applied is onward.
LEMMA PostIsOnward ==
    ASSUME CoreInv, Fault \/ UNCHANGED faults, UNCHANGED <<at_base, branch, listed, refs, edits>>,
           flying' \in Nat, Open \/ UNCHANGED <<pulls, draft, raced>>
    PROVE  Onward
<1>1. faults' \in 0 .. MaxFaults
  BY BoundAssumption DEF CoreInv, TypeOK, Fault
<1>2. /\ pulls' \in Nat /\ pulls <= pulls' /\ listed' \in 0 .. pulls' /\ listed <= listed'
      /\ draft' \in Drafts
  BY DEF CoreInv, TypeOK, Open, Drafts
<1>3. raced' \in BOOLEAN
  BY Zenon DEF CoreInv, TypeOK, Open
<1> QED BY <1>1, <1>2, <1>3 DEF CoreInv, TypeOK, Onward

\* Steps on the branch are onward.
LEMMA RefIsOnward ==
    ASSUME CoreInv, Fault \/ UNCHANGED faults, branch' \in Commits, refs' \in Nat,
           UNCHANGED <<at_base, pulls, draft, listed, flying, edits, raced>>
    PROVE  Onward
<1>1. faults' \in 0 .. MaxFaults
  BY BoundAssumption DEF CoreInv, TypeOK, Fault
<1>2. pulls <= pulls' /\ listed <= listed'
  BY DEF CoreInv, TypeOK
<1> QED BY <1>1, <1>2 DEF CoreInv, TypeOK, Onward

\* Every step keeps the invariant.
LEMMA CoreStep ==
    ASSUME CoreInv, [Next]_vars
    PROVE  CoreInv'
<1>0. /\ pulls \in Nat /\ listed \in 0 .. pulls /\ refs \in Nat /\ flying \in Nat
      /\ branch \in Commits /\ pc \in [Publishers -> Points] /\ seen \in [Publishers -> Pulls]
      /\ faults \in 0 .. MaxFaults
      /\ \A p \in Publishers : Known(p)
  BY DEF CoreInv, TypeOK
<1>a. /\ "candidate" \in Commits
      /\ {"gate", "find", "check_start", "objects", "check_objects", "look", "create_ref",
          "ref_waiting", "reconcile_ref", "check_ref", "find_again", "post", "waiting",
          "landed", "reconcile", "verify_found", "verify_posted", "verify_reconciled"}
             \subseteq Points
      /\ Verifying = {"verify_found", "verify_posted", "verify_reconciled"}
      /\ Knowing = {"idle", "gate", "find", "verify_found"}
  BY DEF Commits, Points, Posting, Verifying, Knowing
<1>q. ASSUME NEW p \in Publishers, UNCHANGED github, RequestFails(p) \/ Reject(p) \/ ReconciliationFails(p)
      PROVE  CoreInv'
  BY <1>q, QuietIsOnward, FailureKeeps DEF RequestFails, Reject, ReconciliationFails
<1>g. ASSUME NEW p \in Publishers, NEW point \in Points \ (Verifying \cup {"landed", "idle"}),
             Goto(p, point), pc[p] # "idle", Fault \/ UNCHANGED faults, UNCHANGED github,
             pc[p] \in Knowing => point \in Knowing \/ ~knew[p]
      PROVE  CoreInv'
  <2>1. knew[p] => point \in Knowing
    BY <1>0, <1>g DEF Known
  <2> QED BY <1>g, <2>1, QuietIsOnward, GotoKeeps
<1>1. ASSUME NEW p \in Publishers, Start(p)
      PROVE  CoreInv'
  <2>1. Onward
    BY <1>1, QuietIsOnward DEF Start
  <2>2. /\ pc' = [pc EXCEPT ![p] = "gate"] /\ seen' = [seen EXCEPT ![p] = NoPull]
        /\ result' = [result EXCEPT ![p] = "none"] /\ knew' = [knew EXCEPT ![p] = listed > 0]
        /\ listed' = listed
    BY <1>1 DEF Start, github
  <2>3. /\ NoPull \in Pulls /\ NoPull.number = 0 /\ "none" \in Results /\ 0 <= pulls'
        /\ (listed > 0) \in BOOLEAN
    BY <2>1 DEF NoPull, Pulls, Commits, Results, Onward
  <2> QED BY <1>a, <2>1, <2>2, <2>3, LocalsKeep
<1>2. ASSUME NEW p \in Publishers, Authorize(p)
      PROVE  CoreInv'
  BY <1>2, <1>a, <1>g, <1>q DEF Authorize
<1>e. ASSUME NEW p \in Publishers, NEW point \in Verifying, Examine(p, point), OneIntact,
             UNCHANGED github, pc[p] # "idle", knew[p] => point \in Knowing
      PROVE  CoreInv'
  <2> DEFINE pull == [number |-> 1, head |-> branch]
  <2>1. Onward
    BY <1>e, QuietIsOnward DEF Examine
  <2>2. /\ pc' = [pc EXCEPT ![p] = point] /\ seen' = [seen EXCEPT ![p] = pull]
        /\ listed' = listed /\ pulls' = pulls
    BY <1>e DEF Examine, github
  <2>a. /\ result' = [result EXCEPT ![p] = "none"] /\ knew' = [knew EXCEPT ![p] = knew[p]]
        /\ knew[p] \in BOOLEAN
    BY <1>0, <1>e DEF Examine, Known, CoreInv, TypeOK
  <2>3. pull \in Pulls /\ pull.number = 1 /\ 1 <= pulls
    BY <1>0, <1>e DEF Pulls, OneIntact
  <2>4. "none" \in Results /\ point \in Points /\ point # "idle"
    BY <1>a, <1>e DEF Results
  <2>5. knew[p] => listed' > 0 /\ point \in Knowing
    BY <1>0, <1>e, <2>2 DEF Known
  <2> HIDE DEF pull
  <2>6. pull.number <= pulls' /\ pull.number # 0
    BY <2>2, <2>3
  <2> QED BY <2>1, <2>2, <2>a, <2>3, <2>4, <2>5, <2>6, LocalsKeep
<1>3. ASSUME NEW p \in Publishers, Find(p)
      PROVE  CoreInv'
  <2>0. pc[p] \in {"find", "find_again"} /\ UNCHANGED github
    BY <1>3 DEF Find
  <2>1. CASE Listed = 0 /\ UNCHANGED faults
             /\ Goto(p, IF pc[p] = "find" THEN "check_start" ELSE "post")
    <3>1. ~knew[p]
      BY <1>0, <2>1 DEF Listed, Known
    <3> QED BY <1>a, <1>g, <2>0, <2>1, <3>1
  <2>2. CASE OneIntact /\ Examine(p, "verify_found")
    BY <1>a, <1>e, <2>0, <2>2
  <2>3. CASE Reject(p) \/ RequestFails(p)
    BY <1>q, <2>0, <2>3
  <2> QED BY <1>3, <2>1, <2>2, <2>3 DEF Find
<1>4. ASSUME NEW p \in Publishers, CheckBase(p)
      PROVE  CoreInv'
  <2>0. pc[p] \in {"check_start", "check_objects", "check_ref"} /\ UNCHANGED github
        /\ AfterCheck[pc[p]] \in {"objects", "look", "find_again"}
    BY <1>4 DEF CheckBase, AfterCheck
  <2> QED BY <1>4, <1>a, <1>g, <1>q, <2>0 DEF CheckBase
<1>5. ASSUME NEW p \in Publishers, CreateObjects(p)
      PROVE  CoreInv'
  BY <1>5, <1>a, <1>g, <1>q DEF CreateObjects
<1>6. ASSUME NEW p \in Publishers, LookForBranch(p)
      PROVE  CoreInv'
  <2>0. pc[p] \in {"look", "reconcile_ref"} /\ UNCHANGED github
    BY <1>6 DEF LookForBranch
  <2>1. CASE Goto(p, "create_ref") /\ UNCHANGED faults
    BY <1>a, <1>g, <2>0, <2>1
  <2>2. CASE Goto(p, "check_ref") /\ UNCHANGED faults
    BY <1>a, <1>g, <2>0, <2>2
  <2>3. CASE End(p, "uncertain", NoPull) /\ UNCHANGED faults
    BY <2>0, <2>3, QuietIsOnward, FailureKeeps
  <2> QED BY <1>6, <1>q, <2>0, <2>1, <2>2, <2>3 DEF LookForBranch
<1>7. ASSUME NEW p \in Publishers, SendRef(p) \/ RefExists(p) \/ Send(p) \/ AlreadyOpen(p)
      PROVE  CoreInv'
  BY <1>7, <1>a, <1>g DEF SendRef, RefExists, Send, AlreadyOpen
<1>8. ASSUME NEW p \in Publishers, RefCreated(p)
      PROVE  CoreInv'
  <2>1. Onward /\ Goto(p, "check_ref") /\ pc[p] = "ref_waiting"
    BY <1>8, <1>0, <1>a, RefIsOnward DEF RefCreated, CommitOf
  <2> QED BY <1>0, <1>a, <2>1, GotoKeeps DEF Known
<1>9. ASSUME NEW p \in Publishers, RefFails(p)
      PROVE  CoreInv'
  <2>1. pc[p] = "ref_waiting" /\ Fault /\ branch' \in Commits /\ refs' \in Nat
        /\ UNCHANGED <<at_base, pulls, draft, listed, flying, edits, raced>>
    BY <1>9, <1>0, <1>a DEF RefFails, Created, CommitOf
  <2>2. Onward
    BY <2>1, RefIsOnward
  <2>3. Goto(p, "reconcile_ref") \/ End(p, "raised", NoPull) \/ End(p, "refused", NoPull)
    BY <1>9 DEF RefFails
  <2> QED BY <1>0, <1>a, <2>1, <2>2, <2>3, GotoKeeps, FailureKeeps DEF Known
<1>10. ASSUME NEW p \in Publishers, Land(p)
      PROVE  CoreInv'
  <2>1. Onward
    BY <1>0, <1>10, PostIsOnward DEF Land
  <2>2. /\ pc' = [pc EXCEPT ![p] = "landed"] /\ pc[p] = "waiting"
        /\ seen' = [seen EXCEPT ![p] = [number |-> pulls + 1, head |-> branch]]
        /\ result' = [result EXCEPT ![p] = "none"] /\ knew' = [knew EXCEPT ![p] = FALSE]
        /\ pulls' = pulls + 1
    BY <1>0, <1>a, <1>10 DEF Land, Open, Known, CoreInv, TypeOK
  <2>3. /\ [number |-> pulls + 1, head |-> branch] \in Pulls /\ "none" \in Results
        /\ pulls + 1 <= pulls' /\ pulls + 1 # 0
    BY <1>0, <2>2 DEF Pulls, Results
  <2> QED BY <1>a, <2>1, <2>2, <2>3, LocalsKeep
<1>11. ASSUME NEW p \in Publishers, Answer(p)
      PROVE  CoreInv'
  <2>1. pc[p] = "landed" /\ Goto(p, "verify_posted") /\ Onward
    BY <1>11, QuietIsOnward DEF Answer
  <2>2. seen[p].number # 0 /\ ~knew[p]
    BY <1>0, <1>a, <2>1 DEF Known
  <2> QED BY <1>a, <2>1, <2>2, GotoKeeps
<1>s. ASSUME NEW p \in Publishers, StopWaiting(p), Fault
      PROVE  Onward
  BY <1>0, <1>s, PostIsOnward DEF StopWaiting
<1>12. ASSUME NEW p \in Publishers, AnswerAmbiguous(p)
      PROVE  CoreInv'
  <2>1. Onward
    BY <1>12, <1>s DEF AnswerAmbiguous
  <2>2. /\ pc' = [pc EXCEPT ![p] = "reconcile"] /\ pc[p] \in {"waiting", "landed"}
        /\ seen' = [seen EXCEPT ![p] = NoPull]
        /\ result' = [result EXCEPT ![p] = "none"] /\ knew' = [knew EXCEPT ![p] = FALSE]
    BY <1>0, <1>a, <1>12 DEF AnswerAmbiguous, Known, CoreInv, TypeOK
  <2>3. NoPull \in Pulls /\ NoPull.number = 0 /\ "none" \in Results /\ 0 <= pulls'
    BY <2>1 DEF NoPull, Pulls, Commits, Results, Onward
  <2> QED BY <1>a, <2>1, <2>2, <2>3, LocalsKeep
<1>13. ASSUME NEW p \in Publishers, AnswerFails(p)
      PROVE  CoreInv'
  <2>1. CASE End(p, "refused", NoPull) /\ UNCHANGED github
    BY <1>13, <2>1, QuietIsOnward, FailureKeeps DEF AnswerFails
  <2>2. CASE StopWaiting(p) /\ End(p, "raised", NoPull)
    BY <1>13, <1>s, <2>2, FailureKeeps DEF AnswerFails
  <2> QED BY <1>13, <2>1, <2>2 DEF AnswerFails
<1>14. ASSUME NEW p \in Publishers, Reconcile(p)
      PROVE  CoreInv'
  <2>0. pc[p] = "reconcile" /\ UNCHANGED github /\ ~knew[p]
    BY <1>0, <1>a, <1>14 DEF Reconcile, Known
  <2>1. CASE End(p, "uncertain", NoPull) /\ UNCHANGED faults
    BY <2>0, <2>1, QuietIsOnward, FailureKeeps
  <2>2. CASE OneIntact /\ Examine(p, "verify_reconciled")
    BY <1>a, <1>e, <2>0, <2>2
  <2> QED BY <1>14, <1>q, <2>0, <2>1, <2>2 DEF Reconcile
<1>15. ASSUME NEW p \in Publishers, Verify(p)
      PROVE  CoreInv'
  <2>0. pc[p] \in Verifying /\ UNCHANGED github /\ seen[p].number # 0
        /\ seen[p] \in Pulls /\ seen[p].number <= pulls
    BY <1>0, <1>15 DEF Verify, Known, CoreInv, TypeOK
  <2>1. CASE branch = seen[p].head /\ Exact(branch) /\ End(p, "receipt", seen[p]) /\ UNCHANGED faults
    <3>1. "receipt" \in Results /\ seen[p].head = "candidate"
      BY <2>1 DEF Results, Exact
    <3> QED BY <2>0, <2>1, <3>1, QuietIsOnward, EndKeeps
  <2>2. CASE pc[p] = "verify_posted" /\ Fault /\ Goto(p, "reconcile")
    BY <1>a, <1>g, <2>0, <2>2
  <2>3. CASE Fault /\ End(p, "raised", NoPull)
    BY <2>0, <2>3, QuietIsOnward, FailureKeeps
  <2> QED BY <1>15, <1>q, <2>0, <2>1, <2>2, <2>3 DEF Verify
<1>16. ASSUME NEW p \in Publishers, Crash(p)
      PROVE  CoreInv'
  <2>1. CASE StopWaiting(p)
    BY <1>16, <1>s, <2>1, FailureKeeps DEF Crash
  <2>2. CASE refs' = refs + 1 /\ UNCHANGED <<at_base, branch, pulls, draft, listed, flying, edits, raced>>
    <3>1. Onward
      BY <1>0, <1>16, <2>2, RefIsOnward DEF Crash
    <3> QED BY <1>16, <3>1, FailureKeeps DEF Crash
  <2> QED BY <1>16, <2>1, <2>2 DEF Crash
<1>17. CASE SettleRef
  <2>1. branch' \in Commits /\ refs' \in Nat /\ UNCHANGED locals
    BY <1>0, <1>a, <1>17 DEF SettleRef
  <2> QED BY <1>17, <2>1, RefIsOnward, OutsideKeeps DEF SettleRef
<1>18. CASE SettlePost
  <2>1. flying' \in Nat
    BY <1>0, <1>18 DEF SettlePost
  <2> QED BY <1>18, <2>1, PostIsOnward, OutsideKeeps DEF SettlePost
<1>19. CASE List \/ MoveBase
  <2>0. at_base' \in BOOLEAN /\ raced' \in BOOLEAN
        /\ UNCHANGED <<branch, pulls, draft, refs, flying, edits, faults>>
    BY <1>19, Zenon DEF List, MoveBase, LeaveBase, CoreInv, TypeOK
  <2>1. Onward
    <3>1. listed' \in 0 .. pulls' /\ listed <= listed' /\ pulls <= pulls'
      BY <1>0, <1>19 DEF List, MoveBase
    <3> QED BY <2>0, <3>1 DEF Onward, CoreInv, TypeOK
  <2> QED BY <1>19, <2>1, OutsideKeeps DEF List, MoveBase
<1>20. CASE Edit
  <2>0. at_base' \in BOOLEAN /\ raced' \in BOOLEAN /\ branch' \in Commits /\ draft' \in Drafts
        /\ UNCHANGED <<pulls, listed, refs, flying, faults>>
    BY <1>20, Zenon DEF Edit, LeaveBase, CoreInv, TypeOK, Commits, Drafts
  <2>1. Onward
    <3>1. edits' \in 0 .. MaxEdits /\ listed <= listed' /\ pulls <= pulls'
      BY <1>0, <1>20, <2>0, BoundAssumption DEF Edit, CoreInv, TypeOK
    <3> QED BY <2>0, <3>1 DEF Onward, CoreInv, TypeOK
  <2> QED BY <1>20, <2>1, OutsideKeeps DEF Edit
<1>21. CASE UNCHANGED vars
  BY <1>21, QuietIsOnward, OutsideKeeps DEF vars
<1> QED
  BY <1>1, <1>2, <1>3, <1>4, <1>5, <1>6, <1>7, <1>8, <1>9, <1>10, <1>11, <1>12, <1>13, <1>14,
     <1>15, <1>16, <1>17, <1>18, <1>19, <1>20, <1>21 DEF Next, Step

\* Every reachable state is well typed: no call holds a pull request GitHub has not opened.
THEOREM TypeCorrect == Spec => []TypeOK
<1>1. CoreInv => TypeOK
  BY DEF CoreInv
<1> QED BY <1>1, CoreInit, CoreStep, PTL DEF Spec

\* Every receipt is of an opened pull request whose head was the exact candidate, whatever
\* people do to the branch and its pull requests.
THEOREM AllReceiptsExact == Spec => []ReceiptsExact
<1>1. CoreInv => ReceiptsExact
  BY DEF CoreInv
<1> QED BY <1>1, CoreInit, CoreStep, PTL DEF Spec

\* No call that begins when a pull request of the candidate is listed opens another one,
\* although the first was readied, closed or merged, or its branch changed or deleted.
THEOREM HistoryIsRespected == Spec => []HistoryRespected
<1>1. CoreInv => HistoryRespected
  BY DEF CoreInv, Known, Knowing, HistoryRespected
<1> QED BY <1>1, CoreInit, CoreStep, PTL DEF Spec

-----------------------------------------------------------------------------
(* Until somebody but the publishers touches the branch and its pull request. *)

\* GitHub holds the exact candidate or nothing, in one intact draft or in none.
GitHubAlone ==
    /\ branch \in {"absent", "candidate"}
    /\ \/ pulls = 0 /\ draft = "closed"
       \/ pulls = 1 /\ draft = "intact" /\ branch = "candidate"

\* A call only ever sees the candidate as the head of a pull request.
HeadsExact == \A p \in Publishers : seen[p].number # 0 => seen[p].head = "candidate"

AloneInv == edits = 0 => GitHubAlone /\ HeadsExact /\ PublishedNeverRejected

\* Steps of a call that the workflow does not see.
Goes(p) ==
    /\ pc[p] # "idle"
    /\ seen' = [seen EXCEPT ![p] = seen'[p]]
    /\ seen'[p].number # 0 => seen'[p].head = "candidate"
    /\ UNCHANGED <<result, knew>>
    /\ \/ UNCHANGED pulls
       \/ pulls = 0 /\ pulls' = 1

Fails(p) ==
    /\ pc[p] # "idle" /\ UNCHANGED pulls
    /\ \E ending \in {"uncertain", "refused", "raised"} : End(p, ending, NoPull)

Rejects(p) ==
    /\ pc[p] # "idle" /\ UNCHANGED pulls /\ ~knew[p]
    /\ End(p, "rejected", NoPull)

Confirms(p) ==
    /\ pc[p] # "idle" /\ UNCHANGED pulls
    /\ pulls = 1 /\ seen[p].number = 1
    /\ End(p, "receipt", seen[p])

\* A call goes on, fails, is rejected although it knew of no pull request, or confirms
\* the one there is.
Shape(p) ==
    \/ Goes(p) \/ Fails(p) \/ Rejects(p) \/ Confirms(p)

\* GitHub is empty at the start.
LEMMA AloneInit == Init => AloneInv
<1>1. Init => GitHubAlone
  BY DEF Init, GitHubAlone
<1>2. Init => HeadsExact
  BY DEF Init, HeadsExact, NoPull
<1>3. Init => PublishedNeverRejected
  BY Zenon DEF Init, PublishedNeverRejected
<1> QED BY <1>1, <1>2, <1>3 DEF AloneInv

\* Every step of a call has one of the shapes.
LEMMA StepShape ==
    ASSUME CoreInv, GitHubAlone, HeadsExact, NEW p \in Publishers, Step(p) \/ Crash(p)
    PROVE  Shape(p)
<1>0. /\ pc \in [Publishers -> Points] /\ seen \in [Publishers -> Pulls] /\ Known(p)
      /\ pulls \in {0, 1} /\ listed \in 0 .. pulls /\ seen[p].number \in Nat
      /\ seen[p].number <= pulls /\ NoPull.number = 0
      /\ Verifying = {"verify_found", "verify_posted", "verify_reconciled"}
  BY DEF CoreInv, TypeOK, GitHubAlone, Pulls, NoPull, Verifying
<1>g. ASSUME NEW point, Goto(p, point), pc[p] # "idle", UNCHANGED pulls
      PROVE  Shape(p)
  <2>1. Goes(p)
    BY <1>0, <1>g DEF Goto, Goes, HeadsExact
  <2> QED BY <1>g, <2>1 DEF Shape
<1>f. ASSUME pc[p] # "idle", RequestFails(p) \/ ReconciliationFails(p), UNCHANGED github
      PROVE  Shape(p)
  BY <1>f DEF RequestFails, ReconciliationFails, Fails, Shape, github
<1>h. ASSUME pc[p] # "idle", UNCHANGED pulls,
             NEW ending \in {"uncertain", "refused", "raised"}, End(p, ending, NoPull)
      PROVE  Shape(p)
  BY <1>h DEF Fails, Shape
<1>r. ASSUME pc[p] \notin Knowing, Reject(p), UNCHANGED github
      PROVE  Shape(p)
  <2>1. ~knew[p] /\ pc[p] # "idle"
    BY <1>0, <1>r DEF Known, Knowing
  <2> QED BY <1>r, <2>1 DEF Reject, Rejects, Shape, github
<1>i. Listed > 0 => OneIntact /\ branch = "candidate"
  BY <1>0 DEF Listed, OneIntact, GitHubAlone
<1>e. ASSUME NEW point, Examine(p, point), OneIntact, pc[p] # "idle", UNCHANGED github
      PROVE  Shape(p)
  <2>1. branch = "candidate"
    BY <1>0, <1>e, <1>i DEF Listed, OneIntact
  <2>2. seen' = [seen EXCEPT ![p] = [number |-> 1, head |-> branch]]
        /\ UNCHANGED <<result, knew>> /\ UNCHANGED pulls
    BY <1>e DEF Examine, github
  <2>3. seen'[p].head = "candidate" /\ seen' = [seen EXCEPT ![p] = seen'[p]]
    BY <1>0, <2>1, <2>2
  <2>4. Goes(p)
    BY <1>e, <2>1, <2>2, <2>3 DEF Goes
  <2> QED BY <2>4 DEF Shape
<1>1. CASE Authorize(p)
  BY <1>1, <1>g, <1>f DEF Authorize, github
<1>2. CASE Find(p)
  <2>0. pc[p] # "idle" /\ UNCHANGED github /\ UNCHANGED pulls
    BY <1>2 DEF Find, github
  <2> QED BY <1>2, <1>g, <1>f, <1>e, <1>i, <2>0 DEF Find
<1>3. CASE CheckBase(p)
  <2>0. pc[p] \in {"check_start", "check_objects", "check_ref"} /\ UNCHANGED github
        /\ UNCHANGED pulls
    BY <1>3 DEF CheckBase, AfterCheck, github
  <2>1. pc[p] # "idle" /\ pc[p] \notin Knowing
    BY <2>0 DEF Knowing
  <2> QED BY <1>3, <1>g, <1>f, <1>r, <2>0, <2>1 DEF CheckBase
<1>4. CASE CreateObjects(p)
  BY <1>4, <1>g, <1>f DEF CreateObjects, github
<1>5. CASE LookForBranch(p)
  <2>0. UNCHANGED github /\ UNCHANGED pulls /\ pc[p] # "idle" /\ pc[p] \notin Knowing
    BY <1>5 DEF LookForBranch, github, Knowing
  <2> QED BY <1>5, <1>g, <1>f, <1>h, <1>r, <2>0 DEF LookForBranch
<1>6. CASE SendRef(p) \/ RefCreated(p) \/ RefExists(p) \/ Send(p) \/ Answer(p) \/ AlreadyOpen(p)
  BY <1>6, <1>g DEF SendRef, RefCreated, RefExists, Send, Answer, AlreadyOpen, github
<1>7. CASE RefFails(p)
  BY <1>7, <1>g, <1>h DEF RefFails
<1>8. CASE Land(p)
  <2>1. /\ pc[p] = "waiting" /\ branch # "absent" /\ draft = "closed" /\ pulls' = pulls + 1
        /\ UNCHANGED <<result, knew>>
        /\ seen' = [seen EXCEPT ![p] = [number |-> pulls + 1, head |-> branch]]
    BY <1>8 DEF Land, Open, MayOpen
  <2>2. branch = "candidate" /\ pulls = 0 /\ pulls' = 1
    BY <2>1 DEF GitHubAlone
  <2>3. seen'[p].head = "candidate" /\ seen' = [seen EXCEPT ![p] = seen'[p]]
    BY <1>0, <2>1, <2>2
  <2>4. Goes(p)
    BY <2>1, <2>2, <2>3 DEF Goes
  <2> QED BY <2>4 DEF Shape
<1>9. CASE AnswerAmbiguous(p)
  <2>1. /\ seen' = [seen EXCEPT ![p] = NoPull] /\ UNCHANGED <<result, knew>>
        /\ UNCHANGED pulls /\ pc[p] # "idle"
    BY <1>9 DEF AnswerAmbiguous, StopWaiting
  <2>2. seen'[p] = NoPull
    BY <1>0, <2>1
  <2>3. Goes(p)
    BY <1>0, <2>1, <2>2 DEF Goes
  <2> QED BY <2>3 DEF Shape
<1>10. CASE AnswerFails(p)
  BY <1>10, <1>h DEF AnswerFails, StopWaiting, github
<1>11. CASE Reconcile(p)
  <2>0. pc[p] # "idle" /\ UNCHANGED github /\ UNCHANGED pulls
    BY <1>11 DEF Reconcile, github
  <2> QED BY <1>11, <1>f, <1>h, <1>e, <1>i, <2>0 DEF Reconcile
<1>12. CASE Verify(p)
  <2>0. pc[p] # "idle" /\ UNCHANGED github /\ UNCHANGED pulls /\ seen[p].number # 0
    BY <1>0, <1>12 DEF Verify, github, Known
  <2>1. pulls = 1 /\ seen[p].number = 1 /\ seen[p].head = "candidate" /\ branch = "candidate"
    BY <1>0, <2>0 DEF HeadsExact, GitHubAlone
  <2>2. ASSUME End(p, "receipt", seen[p]) PROVE Shape(p)
    BY <2>0, <2>1, <2>2 DEF Confirms, Shape
  <2> QED BY <1>12, <1>f, <1>g, <1>h, <2>0, <2>1, <2>2 DEF Verify, Exact
<1>13. CASE Crash(p)
  BY <1>13, <1>h DEF Crash, StopWaiting
<1> QED
  BY <1>1, <1>2, <1>3, <1>4, <1>5, <1>6, <1>7, <1>8, <1>9, <1>10, <1>11, <1>12, <1>13 DEF Step

\* Without a person's edits GitHub stays as the publishers make it.
LEMMA GitHubStep ==
    ASSUME CoreInv, GitHubAlone, [Next]_vars, edits' = 0
    PROVE  GitHubAlone'
<1>0. branch \in {"absent", "candidate"} /\ pulls \in {0, 1}
  BY DEF GitHubAlone
<1>q. ASSUME UNCHANGED <<branch, pulls, draft>>
      PROVE  GitHubAlone'
  BY <1>q DEF GitHubAlone
<1>r. ASSUME branch' \in {branch, Created(0)}, UNCHANGED <<pulls, draft>>
      PROVE  GitHubAlone'
  BY <1>r DEF GitHubAlone, Created, CommitOf
<1>o. ASSUME Open, UNCHANGED branch
      PROVE  GitHubAlone'
  BY <1>o DEF GitHubAlone, Open, MayOpen
<1>1. ASSUME NEW p \in Publishers, Start(p) \/ Step(p) \/ Crash(p)
      PROVE  GitHubAlone'
  <2>1. CASE Start(p) \/ Authorize(p) \/ Find(p) \/ CheckBase(p) \/ CreateObjects(p)
             \/ LookForBranch(p) \/ SendRef(p) \/ RefExists(p) \/ Send(p) \/ Answer(p)
             \/ AlreadyOpen(p) \/ Reconcile(p) \/ Verify(p)
    BY <1>q, <2>1 DEF Start, Authorize, Find, CheckBase, CreateObjects, LookForBranch, SendRef,
                      RefExists, Send, Answer, AlreadyOpen, Reconcile, Verify, github
  <2>2. CASE RefCreated(p) \/ RefFails(p)
    BY <1>r, <2>2 DEF RefCreated, RefFails, Created, CommitOf
  <2>3. CASE Land(p)
    BY <1>o, <2>3 DEF Land
  <2>4. CASE AnswerAmbiguous(p) \/ AnswerFails(p) \/ Crash(p)
    BY <1>q, <2>4 DEF AnswerAmbiguous, AnswerFails, Crash, StopWaiting, github
  <2> QED BY <1>1, <2>1, <2>2, <2>3, <2>4 DEF Step
<1>2. CASE SettleRef
  BY <1>r, <1>2 DEF SettleRef, Created, CommitOf
<1>3. CASE SettlePost
  BY <1>o, <1>q, <1>3 DEF SettlePost
<1>4. CASE List \/ MoveBase \/ UNCHANGED vars
  BY <1>q, <1>4 DEF List, MoveBase, vars, github
<1>5. ~Edit
  BY DEF Edit, CoreInv, TypeOK
<1> QED BY <1>1, <1>2, <1>3, <1>4, <1>5 DEF Next

\* Edits are never undone.
LEMMA EditsGrow ==
    ASSUME CoreInv, [Next]_vars, edits' = 0
    PROVE  edits = 0
<1>0. edits \in Nat
  BY BoundAssumption DEF CoreInv, TypeOK
<1>1. ASSUME NEW p \in Publishers, Start(p) \/ Crash(p) \/ Step(p)
      PROVE  edits' = edits
  BY <1>1 DEF Start, Crash, Step, Authorize, Find, CheckBase, CreateObjects, LookForBranch,
              SendRef, RefCreated, RefExists, RefFails, Send, Land, Answer, AlreadyOpen,
              AnswerAmbiguous, AnswerFails, Reconcile, Verify, StopWaiting, github
<1>2. CASE SettleRef \/ SettlePost \/ List \/ MoveBase \/ Edit \/ UNCHANGED vars
  BY <1>0, <1>2 DEF SettleRef, SettlePost, List, MoveBase, Edit, vars, github
<1> QED BY <1>1, <1>2 DEF Next

\* Every step keeps the invariant.
LEMMA AloneStep ==
    ASSUME CoreInv, AloneInv, [Next]_vars
    PROVE  AloneInv'
<1> SUFFICES ASSUME edits' = 0
             PROVE  GitHubAlone' /\ HeadsExact' /\ PublishedNeverRejected'
  BY DEF AloneInv
<1>e. edits = 0
  BY EditsGrow
<1>0. /\ pc \in [Publishers -> Points] /\ seen \in [Publishers -> Pulls]
      /\ result \in [Publishers -> Results] /\ knew \in [Publishers -> BOOLEAN]
      /\ GitHubAlone /\ HeadsExact /\ NoPull.number = 0
      /\ \A p \in Publishers : Known(p)
      /\ \A p \in Publishers : knew[p] => result[p] # "rejected"
  BY <1>e DEF CoreInv, TypeOK, AloneInv, NoPull, PublishedNeverRejected
<1>1. GitHubAlone'
  BY <1>0, GitHubStep
<1>2. ASSUME NEW p \in Publishers, Shape(p)
      PROVE  HeadsExact' /\ PublishedNeverRejected'
  <2>1. CASE Goes(p)
    BY <1>0, <2>1 DEF Goes, HeadsExact, PublishedNeverRejected
  <2>2. CASE Fails(p) \/ Rejects(p) \/ Confirms(p)
    BY <1>0, <2>2 DEF Fails, Rejects, Confirms, End, HeadsExact, PublishedNeverRejected
  <2> QED BY <1>2, <2>1, <2>2 DEF Shape
<1>3. ASSUME NEW p \in Publishers, Start(p)
      PROVE  HeadsExact' /\ PublishedNeverRejected'
  BY <1>0, <1>3 DEF Start, HeadsExact, PublishedNeverRejected
<1>4. CASE SettleRef \/ SettlePost \/ List \/ MoveBase \/ Edit \/ UNCHANGED vars
  <2>1. UNCHANGED <<seen, result, knew>>
    BY <1>4 DEF SettleRef, SettlePost, List, MoveBase, Edit, vars, locals
  <2>2. HeadsExact'
    BY <1>0, <2>1 DEF HeadsExact
  <2>3. PublishedNeverRejected'
    <3>1. knew' = knew /\ result' = result
      BY <2>1
    <3> QED BY <1>0, <3>1 DEF PublishedNeverRejected
  <2> QED BY <1>1, <2>2, <2>3
<1>5. ASSUME NEW p \in Publishers, Step(p) \/ Crash(p)
      PROVE  HeadsExact' /\ PublishedNeverRejected'
  BY <1>0, <1>2, <1>5, StepShape
<1> QED BY <1>1, <1>3, <1>4, <1>5 DEF Next

\* Until somebody else touches the draft, a call that begins when it is listed is not
\* rejected, although the default branch has moved: the workflow does not open an issue too.
THEOREM PublishedIsNotRejected == Spec => []PublishedNeverRejected
<1>1. AloneInv => PublishedNeverRejected
  BY DEF AloneInv, PublishedNeverRejected
<1>2. CoreInv /\ AloneInv /\ [Next]_vars => AloneInv'
  BY AloneStep
<1> QED BY <1>1, <1>2, CoreInit, CoreStep, AloneInit, PTL DEF Spec

-----------------------------------------------------------------------------
(* A stale draft needs a base that moves behind a call's last check. *)

\* Where a call has checked the base for the last time and its POST is not applied.
LastChecked == {"find_again", "post", "waiting"}

\* Once the base has moved, only a call that the move raced is still to open a draft.
Timely == at_base \/ raced \/ ~Committed

\* A step of p that leaves the base alone keeps p's call from being committed anew.
LEMMA TimelyKept ==
    ASSUME CoreInv, Timely, NEW p \in Publishers, NEW point, pc' = [pc EXCEPT ![p] = point],
           UNCHANGED <<at_base, raced>>, flying' = flying \/ Committed,
           point \in LastChecked => at_base \/ pc[p] \in LastChecked
    PROVE  Timely'
<1>1. \A q \in Publishers : pc'[q] = IF q = p THEN point ELSE pc[q]
  BY DEF CoreInv, TypeOK
<1>2. Committed' => Committed \/ at_base
  BY <1>1 DEF Committed, LastChecked
<1> QED BY <1>2 DEF Timely

\* A pull request is opened by a committed call only, and the base was there or moved
\* behind its check.
LEMMA TimelyStep ==
    ASSUME CoreInv, Timely, [Next]_vars
    PROVE  Timely' /\ (pulls' # pulls => at_base \/ raced)
<1>0. flying \in Nat /\ \A q \in Publishers : pc[q] \in LastChecked => Committed
  BY DEF Committed, LastChecked, CoreInv, TypeOK
<1>e. ASSUME NEW p \in Publishers, NEW ending, NEW pull, End(p, ending, pull),
             UNCHANGED <<at_base, raced, pulls>>, flying' = flying \/ Committed
      PROVE  Timely' /\ pulls' = pulls
  <2>1. pc' = [pc EXCEPT ![p] = "idle"] /\ "idle" \notin LastChecked
    BY <1>e DEF End, LastChecked
  <2> QED BY <1>e, <2>1, TimelyKept
<1>g. ASSUME NEW p \in Publishers, NEW point, pc' = [pc EXCEPT ![p] = point],
             point \in LastChecked => at_base \/ pc[p] \in LastChecked,
             UNCHANGED <<at_base, raced, pulls, flying>>
      PROVE  Timely' /\ pulls' = pulls
  BY <1>g, TimelyKept
<1>f. ASSUME NEW p \in Publishers, RequestFails(p) \/ Reject(p) \/ ReconciliationFails(p),
             UNCHANGED <<at_base, raced, pulls, flying>>
      PROVE  Timely' /\ pulls' = pulls
  BY <1>e, <1>f DEF RequestFails, Reject, ReconciliationFails
<1>1. ASSUME NEW p \in Publishers,
             Start(p) \/ Authorize(p) \/ Find(p) \/ CheckBase(p) \/ CreateObjects(p)
             \/ LookForBranch(p) \/ SendRef(p) \/ RefExists(p) \/ Send(p) \/ Answer(p)
             \/ AlreadyOpen(p) \/ Reconcile(p) \/ Verify(p)
      PROVE  Timely' /\ pulls' = pulls
  <2>0. UNCHANGED <<at_base, raced, pulls, flying>>
    BY <1>1 DEF Start, Authorize, Find, CheckBase, CreateObjects, LookForBranch, SendRef,
                RefExists, Send, Answer, AlreadyOpen, Reconcile, Verify, github
  <2>1. CASE Start(p) \/ SendRef(p) \/ RefExists(p) \/ Send(p) \/ Answer(p) \/ AlreadyOpen(p)
    BY <1>g, <2>0, <2>1 DEF Start, SendRef, RefExists, Send, Answer, AlreadyOpen, Goto, LastChecked
  <2>2. CASE Authorize(p) \/ CreateObjects(p) \/ LookForBranch(p)
    BY <1>e, <1>f, <1>g, <2>0, <2>2 DEF Authorize, CreateObjects, LookForBranch, Goto, LastChecked
  <2>3. CASE Find(p)
    BY <1>f, <1>g, <2>0, <2>3 DEF Find, Examine, Goto, LastChecked
  <2>4. CASE CheckBase(p)
    BY <1>f, <1>g, <2>0, <2>4 DEF CheckBase, Goto
  <2>5. CASE Reconcile(p) \/ Verify(p)
    BY <1>e, <1>f, <1>g, <2>0, <2>5 DEF Reconcile, Verify, Examine, Goto, LastChecked
  <2> QED BY <1>1, <2>1, <2>2, <2>3, <2>4, <2>5
<1>2. ASSUME NEW p \in Publishers, RefCreated(p) \/ RefFails(p)
      PROVE  Timely' /\ pulls' = pulls
  BY <1>e, <1>g, <1>2 DEF RefCreated, RefFails, Goto, LastChecked
<1>3. ASSUME NEW p \in Publishers, Land(p)
      PROVE  Timely' /\ (at_base \/ raced)
  <2>1. /\ pc' = [pc EXCEPT ![p] = "landed"] /\ UNCHANGED <<at_base, raced, flying>>
        /\ pc[p] \in LastChecked /\ "landed" \notin LastChecked
    BY <1>3 DEF Land, Open, LastChecked
  <2>2. Timely'
    BY <2>1, TimelyKept
  <2> QED BY <1>0, <2>1, <2>2 DEF Timely
<1>s. ASSUME NEW p \in Publishers, StopWaiting(p)
      PROVE  UNCHANGED <<at_base, raced, pulls>> /\ (flying' = flying \/ Committed)
  BY <1>0, <1>s DEF StopWaiting, LastChecked
<1>4. ASSUME NEW p \in Publishers, AnswerAmbiguous(p)
      PROVE  Timely' /\ pulls' = pulls
  BY <1>4, <1>s, TimelyKept DEF AnswerAmbiguous, LastChecked
<1>5. ASSUME NEW p \in Publishers, AnswerFails(p) \/ Crash(p)
      PROVE  Timely' /\ pulls' = pulls
  BY <1>5, <1>s, <1>e DEF AnswerFails, Crash, github
<1>6. CASE SettlePost
  <2>1. /\ Committed /\ UNCHANGED <<at_base, raced, pc>> /\ flying' \in Nat
        /\ (flying' > 0 => flying > 0)
    BY <1>0, <1>6 DEF SettlePost, Open, Committed, locals
  <2> QED BY <2>1 DEF Timely, Committed
<1>7. CASE SettleRef \/ List \/ UNCHANGED vars
  BY <1>7 DEF SettleRef, List, vars, locals, github, Timely, Committed
<1>8. CASE MoveBase \/ Edit
  <2>1. /\ UNCHANGED <<pulls, flying, pc>>
        /\ LeaveBase \/ UNCHANGED <<at_base, raced>>
    BY <1>8 DEF MoveBase, Edit, locals
  <2> QED BY <2>1 DEF LeaveBase, Timely, Committed
<1> QED BY <1>1, <1>2, <1>3, <1>4, <1>5, <1>6, <1>7, <1>8 DEF Next, Step

\* However POSTs are delayed, no draft is opened on a moved base unless the base moved
\* between the last check of some call and its POST.
THEOREM DraftsAreNotStale == Spec => NoStaleDraft
<1>1. Init => Timely
  BY Zenon DEF Init, Timely
<1>2. CoreInv /\ Timely /\ [Next]_vars => Timely' /\ (pulls' # pulls => at_base \/ raced)
  BY TimelyStep
<1>3. (pulls' # pulls => at_base \/ raced) => [pulls' # pulls => at_base \/ raced]_vars
  OBVIOUS
<1> QED BY <1>1, <1>2, <1>3, CoreInit, CoreStep, PTL DEF Spec, NoStaleDraft

-----------------------------------------------------------------------------
(* publish_draft_pull_request implements Publication. *)

\* What a call answered and its receipt, as the abstract specification sees them.
AnswerOf(p) == IF result[p] = "rejected" THEN "refused" ELSE result[p]
ReceiptOf(p) == IF result[p] = "receipt" THEN seen[p].number ELSE 0

\* A step of p that keeps the locals of the other calls is seen through p alone.
LEMMA SeenThrough ==
    ASSUME TypeOK, NEW p \in Publishers, NEW ending, NEW pull,
           result' = [result EXCEPT ![p] = ending], seen' = [seen EXCEPT ![p] = pull]
    PROVE  /\ [q \in Publishers |-> AnswerOf(q)]'
                = [[q \in Publishers |-> AnswerOf(q)] EXCEPT ![p] =
                      IF ending = "rejected" THEN "refused" ELSE ending]
           /\ [q \in Publishers |-> ReceiptOf(q)]'
                = [[q \in Publishers |-> ReceiptOf(q)] EXCEPT ![p] =
                      IF ending = "receipt" THEN pull.number ELSE 0]
<1>1. \A q \in Publishers :
        /\ AnswerOf(q)' = IF q = p THEN IF ending = "rejected" THEN "refused" ELSE ending
                          ELSE AnswerOf(q)
        /\ ReceiptOf(q)' = IF q = p THEN IF ending = "receipt" THEN pull.number ELSE 0
                           ELSE ReceiptOf(q)
  BY DEF TypeOK, AnswerOf, ReceiptOf
<1> QED BY <1>1

\* Steps of a call that the workflow does not see, but for a draft that is opened.
Proceeds(p) ==
    /\ pc[p] # "idle"
    /\ seen' = [seen EXCEPT ![p] = seen'[p]]
    /\ UNCHANGED <<result, edits>>
    /\ UNCHANGED pulls \/ Open

EndsWithout(p) ==
    /\ pc[p] # "idle" /\ UNCHANGED <<pulls, edits>>
    /\ \E ending \in {"uncertain", "refused", "raised", "rejected"} : End(p, ending, NoPull)

EndsWith(p) ==
    /\ pc[p] # "idle" /\ UNCHANGED <<pulls, edits>>
    /\ seen[p].number \in 1 .. pulls
    /\ End(p, "receipt", seen[p])

\* A call proceeds, ends without a receipt or ends with one of a pull request that exists.
Kind(p) == Proceeds(p) \/ EndsWithout(p) \/ EndsWith(p)

\* Every step of a call is of one of the kinds.
LEMMA StepKind ==
    ASSUME CoreInv, NEW p \in Publishers, Step(p) \/ Crash(p)
    PROVE  Kind(p)
<1>0. /\ pc \in [Publishers -> Points] /\ seen \in [Publishers -> Pulls] /\ Known(p)
      /\ Verifying = {"verify_found", "verify_posted", "verify_reconciled"}
      /\ pulls \in Nat /\ seen[p].number \in Nat /\ seen[p].number <= pulls
  BY DEF CoreInv, TypeOK, Pulls, Verifying
<1>g. ASSUME NEW point, Goto(p, point), pc[p] # "idle", UNCHANGED <<pulls, edits>>
      PROVE  Kind(p)
  <2>1. Proceeds(p)
    BY <1>0, <1>g DEF Goto, Proceeds
  <2> QED BY <2>1 DEF Kind
<1>f. ASSUME pc[p] # "idle", RequestFails(p) \/ ReconciliationFails(p) \/ Reject(p),
             UNCHANGED github
      PROVE  Kind(p)
  BY <1>f DEF RequestFails, ReconciliationFails, Reject, EndsWithout, Kind, github
<1>h. ASSUME pc[p] # "idle", UNCHANGED <<pulls, edits>>,
             NEW ending \in {"uncertain", "refused", "raised"}, End(p, ending, NoPull)
      PROVE  Kind(p)
  BY <1>h DEF EndsWithout, Kind
<1>e. ASSUME NEW point, Examine(p, point), pc[p] # "idle", UNCHANGED github
      PROVE  Kind(p)
  <2>1. Proceeds(p)
    BY <1>0, <1>e DEF Examine, Proceeds, github
  <2> QED BY <2>1 DEF Kind
<1>1. CASE Authorize(p) \/ Find(p) \/ CreateObjects(p) \/ LookForBranch(p) \/ Reconcile(p)
  <2>0. pc[p] # "idle" /\ UNCHANGED github /\ UNCHANGED <<pulls, edits>>
    BY <1>1 DEF Authorize, Find, CreateObjects, LookForBranch, Reconcile, github
  <2> QED
    BY <1>1, <1>g, <1>f, <1>h, <1>e, <2>0
       DEF Authorize, Find, CreateObjects, LookForBranch, Reconcile
<1>2. CASE CheckBase(p)
  <2>0. pc[p] # "idle" /\ UNCHANGED github /\ UNCHANGED <<pulls, edits>>
    BY <1>2 DEF CheckBase, AfterCheck, github
  <2> QED BY <1>2, <1>g, <1>f, <2>0 DEF CheckBase
<1>3. CASE SendRef(p) \/ RefCreated(p) \/ RefExists(p) \/ Send(p) \/ Answer(p) \/ AlreadyOpen(p)
  BY <1>3, <1>g DEF SendRef, RefCreated, RefExists, Send, Answer, AlreadyOpen, github
<1>4. CASE RefFails(p)
  BY <1>4, <1>g, <1>h DEF RefFails
<1>5. CASE Land(p)
  <2>1. /\ pc[p] = "waiting" /\ Open /\ UNCHANGED <<result, edits>>
        /\ seen' = [seen EXCEPT ![p] = [number |-> pulls + 1, head |-> branch]]
    BY <1>5 DEF Land
  <2>2. Proceeds(p)
    BY <1>0, <2>1 DEF Proceeds
  <2> QED BY <2>2 DEF Kind
<1>6. CASE AnswerAmbiguous(p)
  <2>1. Proceeds(p)
    BY <1>0, <1>6 DEF AnswerAmbiguous, StopWaiting, Proceeds
  <2> QED BY <2>1 DEF Kind
<1>7. CASE AnswerFails(p)
  BY <1>7, <1>h DEF AnswerFails, StopWaiting, github
<1>8. CASE Verify(p)
  <2>0. pc[p] # "idle" /\ UNCHANGED github /\ UNCHANGED <<pulls, edits>>
        /\ seen[p].number \in 1 .. pulls
    BY <1>0, <1>8 DEF Verify, Known, github
  <2>1. ASSUME End(p, "receipt", seen[p]) PROVE Kind(p)
    BY <2>0, <2>1 DEF EndsWith, Kind
  <2> QED BY <1>8, <1>f, <1>g, <1>h, <2>0, <2>1 DEF Verify
<1>9. CASE Crash(p)
  BY <1>9, <1>h DEF Crash, StopWaiting
<1> QED
  BY <1>1, <1>2, <1>3, <1>4, <1>5, <1>6, <1>7, <1>8, <1>9 DEF Step

\* A step that only changes what a call holds while it goes on.
LEMMA HiddenAnswers ==
    ASSUME CoreInv, NEW p \in Publishers, Proceeds(p)
    PROVE  /\ [q \in Publishers |-> AnswerOf(q)]' = [q \in Publishers |-> AnswerOf(q)]
           /\ [q \in Publishers |-> ReceiptOf(q)]' = [q \in Publishers |-> ReceiptOf(q)]
<1>1. /\ TypeOK /\ result[p] = "none" /\ result' = [result EXCEPT ![p] = "none"]
      /\ seen' = [seen EXCEPT ![p] = seen'[p]]
  BY DEF CoreInv, TypeOK, Known, Proceeds
<1>2. /\ [q \in Publishers |-> AnswerOf(q)]'
           = [[q \in Publishers |-> AnswerOf(q)] EXCEPT ![p] = "none"]
      /\ [q \in Publishers |-> ReceiptOf(q)]'
           = [[q \in Publishers |-> ReceiptOf(q)] EXCEPT ![p] = 0]
  <2>1. /\ [q \in Publishers |-> AnswerOf(q)]'
             = [[q \in Publishers |-> AnswerOf(q)] EXCEPT ![p] =
                   IF "none" = "rejected" THEN "refused" ELSE "none"]
        /\ [q \in Publishers |-> ReceiptOf(q)]'
             = [[q \in Publishers |-> ReceiptOf(q)] EXCEPT ![p] =
                   IF "none" = "receipt" THEN seen'[p].number ELSE 0]
    BY ONLY <1>1, SeenThrough, Zenon
  <2> QED BY ONLY <2>1
<1>3. AnswerOf(p) = "none" /\ ReceiptOf(p) = 0
  BY <1>1 DEF AnswerOf, ReceiptOf
<1> QED BY <1>2, <1>3

\* A call that ends without a receipt fails in the abstract specification.
LEMMA FailureMaps ==
    ASSUME CoreInv, NEW p \in Publishers, EndsWithout(p)
    PROVE  Abstract!Fail(p)
<1>0. PICK ending \in {"uncertain", "refused", "raised", "rejected"} : End(p, ending, NoPull)
  BY DEF EndsWithout
<1>1. /\ TypeOK /\ result[p] = "none" /\ result' = [result EXCEPT ![p] = ending]
      /\ seen' = [seen EXCEPT ![p] = NoPull] /\ UNCHANGED <<pulls, edits>>
  BY <1>0 DEF CoreInv, Known, End, EndsWithout
<1>2. /\ [q \in Publishers |-> AnswerOf(q)]'
           = [[q \in Publishers |-> AnswerOf(q)] EXCEPT ![p] =
                 IF ending = "rejected" THEN "refused" ELSE ending]
      /\ [q \in Publishers |-> ReceiptOf(q)]'
           = [[q \in Publishers |-> ReceiptOf(q)] EXCEPT ![p] = 0]
  BY <1>0, <1>1, SeenThrough
<1>3. ReceiptOf(p) = 0
  BY <1>1 DEF ReceiptOf
<1>4. [q \in Publishers |-> ReceiptOf(q)]' = [q \in Publishers |-> ReceiptOf(q)]
  BY <1>2, <1>3
<1>5. (IF ending = "rejected" THEN "refused" ELSE ending) \in {"uncertain", "refused", "raised"}
  BY <1>0
<1>6. (edits > 0)' = (edits > 0)
  BY <1>1
<1> QED BY <1>1, <1>2, <1>3, <1>4, <1>5, <1>6 DEF Abstract!Fail, AnswerOf, ReceiptOf

\* A draft that is opened appears in the abstract specification.
LEMMA OpeningMaps ==
    ASSUME CoreInv, AloneInv, Open, UNCHANGED edits,
           [q \in Publishers |-> AnswerOf(q)]' = [q \in Publishers |-> AnswerOf(q)],
           [q \in Publishers |-> ReceiptOf(q)]' = [q \in Publishers |-> ReceiptOf(q)]
    PROVE  Abstract!Appear
<1>1. pulls = 0 \/ edits > 0
  BY DEF CoreInv, TypeOK, AloneInv, GitHubAlone, Open, MayOpen
<1>2. pulls' = pulls + 1 /\ (edits > 0)' = (edits > 0)
  BY DEF Open
<1> QED BY <1>1, <1>2 DEF Abstract!Appear, AnswerOf, ReceiptOf

\* Every step is a step of the abstract specification or is not seen by it.
LEMMA RefinementStep ==
    ASSUME CoreInv, AloneInv, [Next]_vars
    PROVE  [Abstract!Next]_Abstract!vars
<1>0. TypeOK /\ edits \in Nat /\ \A p \in Publishers : Known(p)
  BY BoundAssumption DEF CoreInv, TypeOK
<1>1. ASSUME NEW p \in Publishers, Start(p)
      PROVE  Abstract!Next
  <2>1. /\ result' = [result EXCEPT ![p] = "none"] /\ seen' = [seen EXCEPT ![p] = NoPull]
        /\ UNCHANGED pulls /\ (edits > 0)' = (edits > 0)
    BY <1>1 DEF Start, github
  <2>2. /\ [q \in Publishers |-> AnswerOf(q)]'
             = [[q \in Publishers |-> AnswerOf(q)] EXCEPT ![p] = "none"]
        /\ [q \in Publishers |-> ReceiptOf(q)]'
             = [[q \in Publishers |-> ReceiptOf(q)] EXCEPT ![p] = 0]
    BY <1>0, <2>1, SeenThrough
  <2>3. Abstract!Call(p)
    BY <2>1, <2>2 DEF Abstract!Call, AnswerOf, ReceiptOf
  <2> QED BY <2>3 DEF Abstract!Next
<1>2. ASSUME NEW p \in Publishers, Proceeds(p)
      PROVE  Abstract!Next \/ UNCHANGED Abstract!vars
  <2>1. /\ [q \in Publishers |-> AnswerOf(q)]' = [q \in Publishers |-> AnswerOf(q)]
        /\ [q \in Publishers |-> ReceiptOf(q)]' = [q \in Publishers |-> ReceiptOf(q)]
        /\ UNCHANGED edits
    BY <1>2, HiddenAnswers DEF Proceeds
  <2>2. CASE UNCHANGED pulls
    BY <2>1, <2>2 DEF Abstract!vars, AnswerOf, ReceiptOf
  <2>3. CASE Open
    BY <2>1, <2>3, OpeningMaps DEF Abstract!Next
  <2> QED BY <1>2, <2>2, <2>3 DEF Proceeds
<1>3. ASSUME NEW p \in Publishers, EndsWithout(p)
      PROVE  Abstract!Next
  BY <1>3, FailureMaps DEF Abstract!Next
<1>4. ASSUME NEW p \in Publishers, EndsWith(p)
      PROVE  Abstract!Next
  <2>1. /\ result' = [result EXCEPT ![p] = "receipt"] /\ seen' = [seen EXCEPT ![p] = seen[p]]
        /\ result[p] = "none" /\ seen[p].number \in 1 .. pulls /\ UNCHANGED pulls
        /\ (edits > 0)' = (edits > 0)
    BY <1>0, <1>4 DEF EndsWith, End, Known
  <2>2. /\ [q \in Publishers |-> AnswerOf(q)]'
             = [[q \in Publishers |-> AnswerOf(q)] EXCEPT ![p] = "receipt"]
        /\ [q \in Publishers |-> ReceiptOf(q)]'
             = [[q \in Publishers |-> ReceiptOf(q)] EXCEPT ![p] = seen[p].number]
    BY <1>0, <2>1, SeenThrough
  <2>3. AnswerOf(p) = "none"
    BY <2>1 DEF AnswerOf
  <2>4. Abstract!Confirm(p)
    BY <2>1, <2>2, <2>3 DEF Abstract!Confirm, AnswerOf, ReceiptOf
  <2> QED BY <2>4 DEF Abstract!Next
<1>5. ASSUME NEW p \in Publishers, Step(p) \/ Crash(p)
      PROVE  Abstract!Next \/ UNCHANGED Abstract!vars
  BY <1>2, <1>3, <1>4, <1>5, StepKind DEF Kind
<1>6. CASE SettlePost
  <2>0. UNCHANGED <<result, seen, edits>>
    BY <1>6 DEF SettlePost, locals
  <2>1. CASE UNCHANGED pulls
    BY <2>0, <2>1 DEF Abstract!vars
  <2>2. CASE Open
    BY <2>0, <2>2, OpeningMaps DEF Abstract!Next, AnswerOf, ReceiptOf
  <2> QED BY <1>6, <2>1, <2>2 DEF SettlePost
<1>7. CASE SettleRef \/ List \/ MoveBase \/ UNCHANGED vars
  BY <1>7 DEF SettleRef, List, MoveBase, vars, locals, github, Abstract!vars
<1>8. CASE Edit
  <2>1. UNCHANGED <<pulls, result, seen>> /\ (edits > 0)' = TRUE
    BY <1>0, <1>8 DEF Edit, locals
  <2> QED BY <2>1 DEF Abstract!Next, Abstract!Interfere
<1> QED BY <1>1, <1>5, <1>6, <1>7, <1>8 DEF Next

\* publish_draft_pull_request is what the workflow relies on: until a person interferes one
\* draft however many calls, late POSTs and moved bases, and receipts only of drafts.
THEOREM Refinement == Spec => ImplementsPublication
<1>1. Init => Abstract!Init
  BY DEF Init, Abstract!Init
<1>2. CoreInv /\ AloneInv /\ [Next]_vars => AloneInv'
  BY AloneStep
<1>3. CoreInv /\ AloneInv /\ [Next]_vars => [Abstract!Next]_Abstract!vars
  BY RefinementStep
<1> QED
  BY <1>1, <1>2, <1>3, CoreInit, CoreStep, AloneInit, PTL
     DEF Spec, ImplementsPublication, Abstract!Spec
=============================================================================
