----------------------- MODULE IssuePublicationProofs -----------------------
(* Theorems about publish_issue, for any number of workers. *)
EXTENDS IssuePublication, TLAPS

-----------------------------------------------------------------------------
(* Types, and agreement of the receipts: no assumption on leases or errors. *)

\* A receipt is durable once it is there, a call in progress has not returned one, and
\* a call that holds an issue holds a real one.
AgreeInv ==
    /\ TypeOK
    /\ intent.number # 0 => intent.owner = Nobody
    /\ \A p \in Publishers :
          /\ pc[p] \in {"landed", "complete"} => number[p] # 0
          /\ pc[p] # "idle" => result[p] # "receipt"
    /\ ReceiptsAgree

\* Nothing is published or claimed at the start.
LEMMA AgreeInit == Init => AgreeInv
<1> SUFFICES ASSUME Init PROVE AgreeInv
  OBVIOUS
<1>1. exposed \in BOOLEAN
  BY DEF Init
<1>2. intent \in Intents /\ intent.number = 0
  BY DEF Init, NoIntent, Intents
<1>3. TypeOK
  BY <1>1, <1>2, BoundAssumption DEF Init, TypeOK, Points, Results
<1> QED BY <1>2, <1>3 DEF Init, AgreeInv, ReceiptsAgree

\* A call that ends leaves an intent with the receipt it had, or with a first one.
LEMMA EndAgree ==
    ASSUME AgreeInv, NEW p \in Publishers, NEW ending \in Results, NEW n \in 0 .. issues,
           NEW i \in Intents, i.number <= issues, End(p, ending, n, i),
           i.number # 0 => i.owner = Nobody,
           intent.number # 0 => i.number = intent.number,
           ending = "receipt" => n = i.number /\ n # 0,
           UNCHANGED <<issues, listed, posts>>, flying' \in Nat, faults' \in 0 .. MaxFaults,
           exposed' \in BOOLEAN
    PROVE  AgreeInv'
<1>1. /\ pc' = [pc EXCEPT ![p] = "idle"] /\ result' = [result EXCEPT ![p] = ending]
      /\ number' = [number EXCEPT ![p] = n] /\ "idle" \in Points
  BY DEF End, Goto, Points
<1>2. /\ intent' \in Intents /\ intent'.number = i.number
      /\ i.number # 0 => intent'.owner = Nobody
  BY OwnerAssumption DEF End, Disowned, Intents
<1>3. TypeOK'
  BY <1>1, <1>2 DEF AgreeInv, TypeOK
<1>4. \A q \in Publishers : /\ pc'[q] \in {"landed", "complete"} => number'[q] # 0
                            /\ pc'[q] # "idle" => result'[q] # "receipt"
  BY <1>1 DEF AgreeInv, TypeOK
<1>5. ReceiptsAgree'
  BY <1>1, <1>2 DEF AgreeInv, TypeOK, ReceiptsAgree
<1> QED BY <1>2, <1>3, <1>4, <1>5 DEF AgreeInv

\* An exposed intent is not forgotten.
LEMMA ExposureStep ==
    ASSUME [Next]_vars
    PROVE  exposed' = exposed \/ exposed' = TRUE
<1>1. ASSUME NEW p \in Publishers, Start(p) \/ Crash(p)
      PROVE  exposed' = exposed
  BY <1>1 DEF Start, Crash
<1>2. ASSUME NEW p \in Publishers, Step(p)
      PROVE  exposed' = exposed \/ exposed' = TRUE
  BY <1>2 DEF Step, NotConnected, ClaimReceipt, Claim, ClaimTimesOut, ClaimError, Mint, Find,
              Send, Land, Answer, Refuse, AnswerAmbiguous, Reconcile, Break, Complete,
              ReleaseIntent
<1>3. SettlePost \/ List \/ ExpireIntent \/ IntentLapses \/ UNCHANGED vars
        => exposed' = exposed \/ exposed' = TRUE
  BY DEF SettlePost, List, ExpireIntent, IntentLapses, vars
<1> QED BY <1>1, <1>2, <1>3 DEF Next

\* Every step keeps the agreement.
LEMMA AgreeStep ==
    ASSUME AgreeInv, [Next]_vars
    PROVE  AgreeInv'
<1> USE OwnerAssumption, BoundAssumption
<1>0. intent \in Intents /\ intent.number <= issues /\ faults \in 0 .. MaxFaults
      /\ issues \in Nat /\ flying \in Nat /\ "uncertain" \in Results /\ "refused" \in Results
      /\ "receipt" \in Results /\ 0 \in 0 .. issues
      /\ (intent.number # 0 => intent.owner = Nobody)
      /\ intent.number \in Nat /\ exposed' \in BOOLEAN
  <2>1. exposed' \in BOOLEAN
    BY ExposureStep DEF AgreeInv, TypeOK
  <2> QED BY <2>1 DEF AgreeInv, TypeOK, Results, Intents
<1>1. ASSUME NEW p \in Publishers, Start(p)
      PROVE  AgreeInv'
  BY <1>0, <1>1 DEF AgreeInv, TypeOK, Points, Results, ReceiptsAgree, github, Goto, Start
<1>a. ASSUME NEW p \in Publishers, Uncertain(p), UNCHANGED <<issues, listed, posts>>,
             flying' \in Nat, faults' \in 0 .. MaxFaults
      PROVE  AgreeInv'
  BY <1>0, <1>a, EndAgree DEF Uncertain
<1>b. Fault => faults' \in 0 .. MaxFaults
  BY <1>0 DEF Fault
<1>c. ASSUME NEW p \in Publishers, NotConnected(p)
      PROVE  AgreeInv'
  BY <1>0, <1>b, <1>c, EndAgree DEF NotConnected, github
<1>d. ASSUME NEW p \in Publishers, ClaimReceipt(p)
      PROVE  AgreeInv'
  BY <1>0, <1>d, EndAgree DEF ClaimReceipt, github
<1>e. ASSUME NEW p \in Publishers, ClaimTimesOut(p)
      PROVE  AgreeInv'
  BY <1>0, <1>a, <1>e DEF ClaimTimesOut, github
<1>f. ASSUME NEW p \in Publishers
      PROVE  Claimed(p) \in Intents /\ Claimed(p).number = 0
  BY DEF Claimed, Intents
<1>2. ASSUME NEW p \in Publishers, Claim(p)
      PROVE  AgreeInv'
  <2>1. intent' \in Intents /\ intent'.number = 0 /\ intent.number = 0
    BY <1>2, <1>f DEF Claim
  <2>2. \A q \in Publishers : result[q] # "receipt"
    BY <2>1 DEF AgreeInv, ReceiptsAgree
  <2> QED BY <1>0, <1>2, <2>1, <2>2 DEF Claim, Goto, github, AgreeInv, TypeOK, Points, ReceiptsAgree
<1>g. ASSUME NEW p \in Publishers, ClaimError(p)
      PROVE  AgreeInv'
  <2>1. CASE Uncertain(p)
    BY <1>0, <1>a, <1>b, <1>g, <2>1 DEF ClaimError, github
  <2>2. CASE intent.number = 0 /\ End(p, "uncertain", 0, Claimed(p))
    BY <1>0, <1>b, <1>f, <1>g, <2>2, EndAgree DEF ClaimError, github
  <2> QED BY <1>g, <2>1, <2>2 DEF ClaimError
<1>3. ASSUME NEW p \in Publishers, Mint(p) \/ Refuse(p) \/ Break(p) \/ AnswerAmbiguous(p)
      PROVE  AgreeInv'
  BY <1>0, <1>3 DEF AgreeInv, TypeOK, Intents, Points, Results, ReceiptsAgree, github, Goto, Fault,
              Mint, Refuse, Break, AnswerAmbiguous, StopWaiting, Release
<1>4. ASSUME NEW p \in Publishers, Find(p) \/ Reconcile(p)
      PROVE  AgreeInv'
  BY <1>0, <1>4 DEF AgreeInv, TypeOK, Intents, Points, Results, ReceiptsAgree, github, Goto, Fault,
              Find, Reconcile, Hold, Uncertain, Release, End, Disowned
<1>5. ASSUME NEW p \in Publishers, Send(p) \/ Land(p) \/ Answer(p)
      PROVE  AgreeInv'
  BY <1>0, <1>5 DEF AgreeInv, TypeOK, Intents, Points, Results, ReceiptsAgree, github, Goto,
              Send, Land, Answer, Hold
<1>6. ASSUME NEW p \in Publishers, Complete(p)
      PROVE  AgreeInv'
  <2>0. number[p] # 0 /\ number[p] \in 0 .. issues
    BY <1>6 DEF Complete, AgreeInv, TypeOK
  <2> DEFINE Good(i) == /\ i \in Intents /\ i.number <= issues /\ i.number # 0
                        /\ i.owner = Nobody /\ i.number \in 0 .. issues
                        /\ intent.number # 0 => i.number = intent.number
  <2>a. ASSUME intent.number # 0 PROVE Good(Completed(p))
    <3>1. Completed(p) = intent
      BY <2>a DEF Completed
    <3> QED BY <1>0, <2>a, <3>1
  <2>b. ASSUME intent.number = 0 PROVE Good(Completed(p))
    <3>1. Completed(p) = [owner |-> Nobody, live |-> FALSE, number |-> number[p]]
      BY <2>b DEF Completed, NoIntent
    <3> QED BY <1>0, <2>0, <2>b, <3>1 DEF Intents
  <2>1. /\ Completed(p) \in Intents /\ Completed(p).number <= issues /\ Completed(p).number # 0
        /\ Completed(p).owner = Nobody /\ Completed(p).number \in 0 .. issues
        /\ intent.number # 0 => Completed(p).number = intent.number
    BY <2>a, <2>b
  <2>2. CASE Uncertain(p)
    BY <1>0, <1>a, <1>b, <1>6, <2>2 DEF Complete, github
  <2>3. CASE End(p, "receipt", Completed(p).number, Completed(p)) /\ UNCHANGED faults
    BY <1>0, <1>6, <2>1, <2>3, EndAgree DEF Complete, github
  <2>4. CASE End(p, "uncertain", 0, Completed(p)) /\ Fault
    BY <1>0, <1>b, <1>6, <2>1, <2>4, EndAgree DEF Complete, github
  <2> QED BY <1>6, <2>2, <2>3, <2>4 DEF Complete
<1>7. ASSUME NEW p \in Publishers, ReleaseIntent(p)
      PROVE  AgreeInv'
  <2>1. /\ intent' \in Intents /\ intent'.number = intent.number
        /\ intent.number # 0 => intent'.owner = Nobody
    <3>1. CASE intent' = NoIntent /\ intent.owner = p
      BY <1>0, <3>1 DEF NoIntent, Intents
    <3>2. CASE intent' = intent
      BY <1>0, <3>2
    <3>3. CASE intent' = Disowned(intent, p)
      BY <1>0, <3>3 DEF Disowned, Intents
    <3> QED BY <1>7, <3>1, <3>2, <3>3 DEF ReleaseIntent
  <2>2. faults' \in 0 .. MaxFaults
    BY <1>0, <1>b, <1>7 DEF ReleaseIntent
  <2> QED BY <1>0, <1>7, <2>1, <2>2
        DEF ReleaseIntent, Goto, github, AgreeInv, TypeOK, Points, ReceiptsAgree
<1>h. ASSUME NEW p \in Publishers, Crash(p)
      PROVE  AgreeInv'
  <2>1. flying' \in Nat /\ UNCHANGED <<issues, listed, posts>> /\ faults' \in 0 .. MaxFaults
    BY <1>0, <1>b, <1>h DEF Crash, StopWaiting
  <2> QED BY <1>0, <1>h, <2>1, EndAgree DEF Crash
<1>i. CASE SettlePost
  <2>1. flying' \in Nat /\ issues' \in Nat /\ issues <= issues'
    BY <1>0, <1>i DEF SettlePost
  <2>2. 0 .. issues \subseteq 0 .. issues'
    BY <1>0, <2>1
  <2>3. listed' \in 0 .. issues' /\ number' \in [Publishers -> 0 .. issues']
        /\ intent'.number <= issues' /\ intent' \in Intents
    BY <1>0, <1>i, <2>1, <2>2 DEF SettlePost, AgreeInv, TypeOK
  <2>4. UNCHANGED <<intent, posts, pc, result, number, faults>>
    BY <1>i DEF SettlePost
  <2> QED BY <1>0, <2>1, <2>3, <2>4 DEF AgreeInv, TypeOK, ReceiptsAgree
<1>j. CASE List
  BY <1>0, <1>j DEF List, AgreeInv, TypeOK, ReceiptsAgree
<1>k. CASE ExpireIntent \/ IntentLapses
  <2>1. /\ intent' \in Intents /\ intent'.number = intent.number
        /\ intent'.owner = intent.owner
    BY <1>0, <1>k DEF ExpireIntent, IntentLapses, Intents
  <2>2. faults' \in 0 .. MaxFaults /\ UNCHANGED <<github, pc, result, number>>
    BY <1>0, <1>b, <1>k DEF ExpireIntent, IntentLapses
  <2> QED BY <1>0, <2>1, <2>2 DEF github, AgreeInv, TypeOK, ReceiptsAgree
<1>9. CASE UNCHANGED vars
  BY <1>9 DEF vars, AgreeInv, TypeOK, ReceiptsAgree
<1> QED
  BY <1>1, <1>2, <1>3, <1>4, <1>5, <1>6, <1>7, <1>9, <1>c, <1>d, <1>e, <1>g, <1>h, <1>i, <1>j, <1>k
     DEF Next, Step

\* Every reachable state is well typed: no call and no intent names an issue that GitHub
\* has not created.
THEOREM TypeCorrect == Spec => []TypeOK
<1>1. AgreeInv => TypeOK
  BY DEF AgreeInv
<1> QED BY <1>1, AgreeInit, AgreeStep, PTL DEF Spec

\* All receipts name the issue of the durable intent, whatever leases expire and
\* whatever connections break: the first completed receipt wins.
THEOREM AllReceiptsAgree == Spec => []ReceiptsAgree
<1>1. AgreeInv => ReceiptsAgree
  BY DEF AgreeInv
<1> QED BY <1>1, AgreeInit, AgreeStep, PTL DEF Spec

-----------------------------------------------------------------------------
(* One issue per finding, until an intent is exposed.                       *)

\* GitHub has settled every POST and its list shows the outcome.
Settled == flying = 0 /\ listed = issues

\* What a call knows where it stands.
Known(p) ==
    /\ pc[p] \in Working => intent.owner = p /\ intent.live
    /\ pc[p] \in {"mint", "find", "release"} => Settled
    /\ pc[p] \in {"post", "waiting"} => issues = 0 /\ flying = 0
    /\ pc[p] = "landed" => flying = 0

OneIssueInv ==
    /\ issues + flying <= 1
    /\ Free(intent) /\ intent.number = 0 => Settled
    /\ \A p \in Publishers : Known(p)

\* Nothing is under way at the start.
LEMMA OneIssueInit == Init => OneIssueInv
BY DEF Init, OneIssueInv, Settled, Known, Working, NoIntent, Free

\* A call that does not work on the intent ends without disturbing the others.
LEMMA BystanderEnds ==
    ASSUME AgreeInv, OneIssueInv, NEW p \in Publishers, pc[p] = "claim",
           NEW ending, NEW n, End(p, ending, n, intent), UNCHANGED github
    PROVE  OneIssueInv'
<1>1. intent.owner # p => intent' = intent
  BY DEF End, Disowned
<1>2. pc' = [pc EXCEPT ![p] = "idle"]
  BY DEF End, Goto
<1>3. Free(intent') <=> Free(intent)
  BY OwnerAssumption DEF End, Disowned, Free, AgreeInv, TypeOK, Intents
<1>4. intent'.number = intent.number /\ intent'.live = intent.live
      /\ (\A q \in Publishers \ {p} : intent.owner = q => intent'.owner = q)
  BY DEF End, Disowned, AgreeInv, TypeOK, Intents
<1>5. \A q \in Publishers : Known(q)'
  BY <1>2, <1>4 DEF OneIssueInv, Known, Settled, Working, github, AgreeInv, TypeOK
<1> QED BY <1>3, <1>4, <1>5 DEF OneIssueInv, Settled, github

\* Nobody works next to the owner of the intent.
LEMMA OwnerIsAlone ==
    ASSUME AgreeInv, OneIssueInv, NEW p \in Publishers, pc[p] \in Working,
           NEW target, Goto(p, target)
    PROVE  /\ \A q \in Publishers \ {p} : Known(q)'
           /\ pc'[p] = target
<1>1. \A q \in Publishers \ {p} : pc[q] \notin Working /\ pc'[q] = pc[q]
  BY DEF OneIssueInv, Known, Goto, AgreeInv, TypeOK
<1>2. {"mint", "find", "release", "post", "waiting", "landed"} \subseteq Working
  BY DEF Working, Points
<1> QED BY <1>1, <1>2 DEF Known, Goto, AgreeInv, TypeOK

\* The owner moves on under its intent.
LEMMA OwnerMoves ==
    ASSUME AgreeInv, OneIssueInv, NEW p \in Publishers, pc[p] \in Working,
           NEW target \in Working, Goto(p, target), UNCHANGED intent,
           issues' + flying' <= 1,
           target \in {"mint", "find", "release"} => Settled',
           target \in {"post", "waiting"} => issues' = 0 /\ flying' = 0,
           target = "landed" => flying' = 0
    PROVE  OneIssueInv'
<1>1. intent.owner = p /\ intent.live /\ intent.owner # Nobody
  BY OwnerAssumption DEF OneIssueInv, Known
<1>2. ~Free(intent')
  BY <1>1 DEF Free
<1>3. Known(p)'
  BY <1>1, OwnerIsAlone DEF Known
<1> QED BY <1>2, <1>3, OwnerIsAlone DEF OneIssueInv

\* The owner leaves an intent that still excludes, or a completed one.
LEMMA OwnerEnds ==
    ASSUME AgreeInv, OneIssueInv, NEW p \in Publishers, pc[p] \in Working,
           Goto(p, "idle"), issues' + flying' <= 1,
           Free(intent') /\ intent'.number = 0 => Settled'
    PROVE  OneIssueInv'
<1>1. Known(p)'
  BY OwnerIsAlone DEF Known, Working
<1> QED BY <1>1, OwnerIsAlone DEF OneIssueInv

\* Uncertain keeps the exclusion: the intent is live and names a call that is over.
LEMMA OwnerUncertain ==
    ASSUME AgreeInv, OneIssueInv, NEW p \in Publishers, pc[p] \in Working,
           NEW n, End(p, "uncertain", n, intent), issues' + flying' <= 1
    PROVE  OneIssueInv'
<1>1. intent.owner = p /\ intent.live
  BY DEF OneIssueInv, Known
<1>2. ~Free(intent')
  BY <1>1, OwnerAssumption DEF End, Disowned, Free, AgreeInv, TypeOK, Intents
<1> QED BY <1>2, OwnerEnds DEF End

\* Every step that exposes no intent keeps the invariant.
LEMMA OneIssueStep ==
    ASSUME AgreeInv, OneIssueInv, [Next]_vars, ~exposed'
    PROVE  OneIssueInv'
<1>0. /\ issues \in Nat /\ flying \in Nat /\ listed \in 0 .. issues /\ issues + flying <= 1
      /\ intent \in Intents /\ pc \in [Publishers -> Points]
      /\ (Free(intent) /\ intent.number = 0 => Settled)
      /\ \A p \in Publishers : Known(p)
  BY DEF AgreeInv, TypeOK, OneIssueInv
<1>a. {"mint", "find", "post", "waiting", "landed", "reconcile", "complete", "release"}
        \subseteq Working
  BY DEF Working, Points
<1>1. ASSUME NEW p \in Publishers, Start(p)
      PROVE  OneIssueInv'
  <2>1. pc' = [pc EXCEPT ![p] = "claim"] /\ UNCHANGED <<intent, issues, listed, flying>>
    BY <1>1 DEF Start, Goto, github
  <2>2. \A q \in Publishers : Known(q)'
    BY <1>0, <2>1 DEF Known, Settled, Working
  <2> QED BY <1>0, <2>1, <2>2 DEF OneIssueInv, Settled
<1>2. ASSUME NEW p \in Publishers, NotConnected(p) \/ ClaimReceipt(p) \/ ClaimTimesOut(p)
      PROVE  OneIssueInv'
  BY <1>2, BystanderEnds DEF NotConnected, ClaimReceipt, ClaimTimesOut, Uncertain
<1>b. ASSUME intent.number = 0, Free(intent)
      PROVE  (\A q \in Publishers : pc[q] \notin Working) /\ Settled
  <2>1. Nobody \notin Publishers
    BY OwnerAssumption
  <2> QED BY <1>0, <1>b, <2>1 DEF Known, Free
<1>3. ASSUME NEW p \in Publishers, Claim(p)
      PROVE  OneIssueInv'
  <2>1. /\ intent' = [owner |-> p, live |-> TRUE, number |-> 0]
        /\ pc' = [pc EXCEPT ![p] = "mint"] /\ UNCHANGED <<issues, listed, flying>>
    BY <1>3 DEF Claim, Claimed, Goto, github
  <2>2. (\A q \in Publishers : pc[q] \notin Working) /\ Settled
    BY <1>3, <1>b DEF Claim
  <2>3. \A q \in Publishers : Known(q)'
    BY <1>0, <1>a, <2>1, <2>2 DEF Known, Settled
  <2>4. ~Free(intent')
    BY <2>1, OwnerAssumption DEF Free
  <2> QED BY <1>0, <2>1, <2>3, <2>4 DEF OneIssueInv
<1>4. ASSUME NEW p \in Publishers, ClaimError(p)
      PROVE  OneIssueInv'
  <2>1. CASE Uncertain(p)
    BY <1>4, <2>1, BystanderEnds DEF ClaimError, Uncertain
  <2>2. CASE intent.number = 0 /\ Free(intent) /\ End(p, "uncertain", 0, Claimed(p))
    <3>1. /\ intent' = [owner |-> Former, live |-> TRUE, number |-> 0]
          /\ pc' = [pc EXCEPT ![p] = "idle"] /\ UNCHANGED <<issues, listed, flying>>
      BY <1>4, <2>2 DEF ClaimError, End, Claimed, Disowned, Goto, github
    <3>2. \A q \in Publishers : pc[q] \notin Working
      BY <1>b, <2>2
    <3>3. \A q \in Publishers : Known(q)'
      BY <1>0, <1>a, <3>1, <3>2 DEF Known, Working
    <3>4. ~Free(intent')
      BY <3>1, OwnerAssumption DEF Free
    <3> QED BY <1>0, <3>1, <3>3, <3>4 DEF OneIssueInv
  <2> QED BY <1>4, <2>1, <2>2 DEF ClaimError
<1>5. ASSUME NEW p \in Publishers, Mint(p)
      PROVE  OneIssueInv'
  <2>1. Settled /\ pc[p] \in Working /\ UNCHANGED <<issues, listed, flying, intent>>
    BY <1>0, <1>a, <1>5 DEF Mint, Known, github, Release
  <2>2. PICK target \in {"find", "release"} : Goto(p, target)
    BY <1>5 DEF Mint, Release
  <2> QED BY <1>0, <1>a, <2>1, <2>2, OwnerMoves DEF Settled
<1>6. ASSUME NEW p \in Publishers, Find(p)
      PROVE  OneIssueInv'
  <2>1. Settled /\ pc[p] \in Working /\ UNCHANGED <<issues, listed, flying>>
    BY <1>0, <1>a, <1>6 DEF Find, Known
  <2>2. CASE Hold(p, listed)
    BY <1>0, <1>a, <2>1, <2>2, OwnerMoves DEF Hold
  <2>3. CASE listed = 0 /\ Goto(p, "post") /\ UNCHANGED intent
    BY <1>0, <1>a, <2>1, <2>3, OwnerMoves DEF Settled
  <2>4. CASE Uncertain(p)
    BY <1>0, <2>1, <2>4, OwnerUncertain DEF Uncertain
  <2>5. CASE Release(p, "raised")
    BY <1>0, <1>a, <2>1, <2>5, OwnerMoves DEF Release, Settled
  <2> QED BY <1>6, <2>2, <2>3, <2>4, <2>5 DEF Find
<1>7. ASSUME NEW p \in Publishers, Send(p)
      PROVE  OneIssueInv'
  BY <1>0, <1>a, <1>7, OwnerMoves DEF Send, Known, github
<1>8. ASSUME NEW p \in Publishers, Land(p)
      PROVE  OneIssueInv'
  BY <1>0, <1>a, <1>8, OwnerMoves DEF Land, Known
<1>9. ASSUME NEW p \in Publishers, Answer(p)
      PROVE  OneIssueInv'
  BY <1>0, <1>a, <1>9, OwnerMoves DEF Answer, Hold, github
<1>10. ASSUME NEW p \in Publishers, Refuse(p)
      PROVE  OneIssueInv'
  BY <1>0, <1>a, <1>10, OwnerMoves DEF Refuse, Release, Known, Settled, github
<1>c. ASSUME NEW p \in Publishers, StopWaiting(p)
      PROVE  issues' + flying' <= 1
  BY <1>0, <1>c DEF StopWaiting, Known
<1>11. ASSUME NEW p \in Publishers, AnswerAmbiguous(p)
      PROVE  OneIssueInv'
  BY <1>a, <1>c, <1>11, OwnerMoves DEF AnswerAmbiguous
<1>12. ASSUME NEW p \in Publishers, Reconcile(p)
      PROVE  OneIssueInv'
  <2>1. pc[p] \in Working /\ UNCHANGED <<issues, flying>>
    BY <1>a, <1>12 DEF Reconcile, github
  <2>2. CASE Hold(p, listed)
    BY <1>0, <1>a, <2>1, <2>2, OwnerMoves DEF Hold
  <2>3. CASE Uncertain(p)
    BY <1>0, <2>1, <2>3, OwnerUncertain DEF Uncertain
  <2> QED BY <1>12, <2>2, <2>3 DEF Reconcile
<1>13. ASSUME NEW p \in Publishers, Complete(p)
      PROVE  OneIssueInv'
  <2>1. pc[p] \in Working /\ UNCHANGED <<issues, flying>> /\ number[p] # 0
    BY <1>a, <1>13 DEF Complete, github, AgreeInv
  <2>2. CASE Uncertain(p)
    BY <1>0, <2>1, <2>2, OwnerUncertain DEF Uncertain
  <2>3. ASSUME NEW ending, NEW n, End(p, ending, n, Completed(p))
        PROVE  OneIssueInv'
    <3>1. Completed(p) \in [owner : Publishers \cup {Nobody, Former}, live : BOOLEAN, number : Nat]
          /\ Completed(p).number # 0
      <4>1. CASE intent.number # 0
        BY <1>0, <4>1 DEF Completed, Intents
      <4>2. CASE intent.number = 0
        <5>1. Completed(p) = [owner |-> Nobody, live |-> FALSE, number |-> number[p]]
          BY <4>2 DEF Completed, NoIntent
        <5> QED BY <1>0, <2>1, <5>1 DEF AgreeInv, TypeOK
      <4> QED BY <4>1, <4>2
    <3>2. intent'.number # 0
      BY <2>3, <3>1 DEF End, Disowned
    <3> QED BY <1>0, <2>1, <2>3, <3>2, OwnerEnds DEF End
  <2> QED BY <1>13, <2>2, <2>3 DEF Complete
<1>14. ASSUME NEW p \in Publishers, ReleaseIntent(p)
      PROVE  OneIssueInv'
  <2>1. Settled /\ pc[p] \in Working /\ UNCHANGED <<issues, listed, flying>>
    BY <1>0, <1>a, <1>14 DEF ReleaseIntent, Known, github
  <2> QED BY <1>0, <1>14, <2>1, OwnerEnds DEF ReleaseIntent, Settled
<1>15. ASSUME NEW p \in Publishers, Crash(p)
      PROVE  OneIssueInv'
  <2>1. CASE pc[p] = "claim"
    BY <1>15, <2>1, BystanderEnds DEF Crash, StopWaiting, github
  <2>2. CASE pc[p] # "claim"
    <3>1. pc[p] \in Working
      BY <1>0, <1>15, <2>2 DEF Crash, Working
    <3> QED BY <1>c, <1>15, <3>1, OwnerUncertain DEF Crash
  <2> QED BY <2>1, <2>2
<1>16. CASE SettlePost
  <2>0. /\ flying > 0 /\ flying' = flying - 1 /\ issues' \in {issues, issues + 1}
        /\ UNCHANGED <<intent, pc>>
    BY <1>16 DEF SettlePost
  <2>1. ~Settled /\ issues' + flying' <= 1 /\ UNCHANGED <<intent, pc>> /\ flying # 0
    <3>1. ~Settled
      BY <2>0 DEF Settled
    <3>2. issues \in Nat /\ flying \in Nat /\ issues + flying <= 1
      BY <1>0
    <3>3. issues' = issues => issues' + flying' <= 1
      BY <2>0, <3>2
    <3>4. issues' = issues + 1 => issues' + flying' <= 1
      BY <2>0, <3>2
    <3>5. issues' + flying' <= 1
      BY <2>0, <3>3, <3>4
    <3>6. flying # 0
      BY <2>0, <3>2
    <3> QED BY <2>0, <3>1, <3>5, <3>6
  <2>2. \A q \in Publishers : Known(q)'
    BY <1>0, <2>1 DEF Known
  <2> QED BY <1>0, <2>1, <2>2 DEF OneIssueInv
<1>17. CASE List
  <2>1. ~Settled /\ UNCHANGED <<intent, pc, issues, flying>>
    BY <1>0, <1>17 DEF List, Settled
  <2>2. \A q \in Publishers : Known(q)'
    BY <1>0, <2>1 DEF Known
  <2> QED BY <1>0, <2>1, <2>2 DEF OneIssueInv
<1>18. CASE ExpireIntent
  <2>1. /\ Settled /\ intent.owner = Former /\ UNCHANGED <<issues, listed, flying, pc>>
    BY <1>18 DEF ExpireIntent, Settled, github
  <2>2. \A q \in Publishers : pc[q] \notin Working
    BY <1>0, <2>1, OwnerAssumption DEF Known
  <2>3. \A q \in Publishers : Known(q)'
    BY <1>a, <2>1, <2>2 DEF Known
  <2> QED BY <1>0, <2>1, <2>3 DEF OneIssueInv, Settled
<1>19. CASE UNCHANGED vars
  BY <1>19 DEF vars, OneIssueInv, Known, Settled
<1> QED
  BY <1>1, <1>2, <1>3, <1>4, <1>5, <1>6, <1>7, <1>8, <1>9, <1>10, <1>11, <1>12, <1>13, <1>14,
     <1>15, <1>16, <1>17, <1>18, <1>19 DEF Next, Step, Break, IntentLapses

\* As long as no intent was exposed.
GuardedInv == ~exposed => OneIssueInv

\* Every step keeps the guarded invariant.
LEMMA GuardedStep ==
    ASSUME AgreeInv, GuardedInv, [Next]_vars
    PROVE  GuardedInv'
<1>1. ~exposed' => ~exposed
  BY ExposureStep
<1> QED BY <1>1, OneIssueStep DEF GuardedInv

\* Any number of workers and runs publish at most one issue for a finding, although
\* answers are lost, workers die and POSTs land late: an uncertain owner keeps the intent
\* until it expires, and the next owner searches before it writes.
THEOREM OneIssue == Spec => []OneIssuePerFinding
<1>1. AgreeInv /\ GuardedInv => OneIssuePerFinding
  BY DEF AgreeInv, TypeOK, GuardedInv, OneIssueInv, OneIssuePerFinding
<1>2. Init => GuardedInv
  BY OneIssueInit DEF GuardedInv
<1> QED BY <1>1, <1>2, AgreeInit, AgreeStep, GuardedStep, PTL DEF Spec

-----------------------------------------------------------------------------
(* publish_issue implements Publication. *)

\* A call in progress has no result yet, except while it releases its intent.
Unanswered ==
    \A p \in Publishers : pc[p] \notin {"idle", "release"} => result[p] = "none"

\* What a call answered and its receipt, as the abstract specification sees them.
AnswerOf(p) == IF pc[p] = "release" THEN "none" ELSE result[p]
ReceiptOf(p) == IF result[p] = "receipt" THEN number[p] ELSE 0

\* A step of p that keeps the locals of the other calls is seen through p alone.
LEMMA SeenThrough ==
    ASSUME TypeOK, NEW p \in Publishers, NEW point, NEW ending, NEW n,
           pc' = [pc EXCEPT ![p] = point],
           result' = [result EXCEPT ![p] = ending],
           number' = [number EXCEPT ![p] = n]
    PROVE  /\ [q \in Publishers |-> AnswerOf(q)]'
                = [[q \in Publishers |-> AnswerOf(q)] EXCEPT ![p] =
                      IF point = "release" THEN "none" ELSE ending]
           /\ [q \in Publishers |-> ReceiptOf(q)]'
                = [[q \in Publishers |-> ReceiptOf(q)] EXCEPT ![p] =
                      IF ending = "receipt" THEN n ELSE 0]
<1>1. \A q \in Publishers :
        /\ AnswerOf(q)' = IF q = p THEN IF point = "release" THEN "none" ELSE ending
                          ELSE AnswerOf(q)
        /\ ReceiptOf(q)' = IF q = p THEN IF ending = "receipt" THEN n ELSE 0
                           ELSE ReceiptOf(q)
  BY DEF TypeOK, AnswerOf, ReceiptOf
<1> QED BY <1>1

\* A call that ends without a receipt fails in the abstract specification.
LEMMA FailureMaps ==
    ASSUME AgreeInv, NEW p \in Publishers, pc[p] # "idle", UNCHANGED <<issues, exposed>>,
           NEW ending \in {"uncertain", "refused", "raised"}, NEW n,
           pc' = [pc EXCEPT ![p] = "idle"], result' = [result EXCEPT ![p] = ending],
           number' = [number EXCEPT ![p] = n]
    PROVE  Abstract!Fail(p)
<1>1. TypeOK /\ result[p] # "receipt"
  BY DEF AgreeInv
<1>2. /\ [q \in Publishers |-> AnswerOf(q)]'
           = [[q \in Publishers |-> AnswerOf(q)] EXCEPT ![p] = ending]
      /\ [q \in Publishers |-> ReceiptOf(q)]'
           = [[q \in Publishers |-> ReceiptOf(q)] EXCEPT ![p] = 0]
  BY <1>1, SeenThrough
<1>3. ReceiptOf(p) = 0
  BY <1>1 DEF ReceiptOf
<1>4. [q \in Publishers |-> ReceiptOf(q)]' = [q \in Publishers |-> ReceiptOf(q)]
  BY <1>2, <1>3
<1> QED BY <1>2, <1>3, <1>4 DEF Abstract!Fail, AnswerOf, ReceiptOf

\* A call that starts, or has yet to release its intent, has not answered.
LEMMA NoAnswerMaps ==
    ASSUME AgreeInv, NEW p \in Publishers, NEW point, NEW ending, NEW n, UNCHANGED <<issues, exposed>>,
           point = "release" \/ ending = "none", ending # "receipt",
           pc' = [pc EXCEPT ![p] = point], result' = [result EXCEPT ![p] = ending],
           number' = [number EXCEPT ![p] = n]
    PROVE  Abstract!Call(p)
<1>1. /\ [q \in Publishers |-> AnswerOf(q)]'
           = [[q \in Publishers |-> AnswerOf(q)] EXCEPT ![p] = "none"]
      /\ [q \in Publishers |-> ReceiptOf(q)]'
           = [[q \in Publishers |-> ReceiptOf(q)] EXCEPT ![p] = 0]
  BY SeenThrough DEF AgreeInv
<1> QED BY <1>1 DEF Abstract!Call, AnswerOf, ReceiptOf

\* A call that ends with a receipt names an issue that exists.
LEMMA ReceiptMaps ==
    ASSUME AgreeInv, Unanswered, NEW p \in Publishers, pc[p] \in {"claim", "complete"},
           UNCHANGED <<issues, exposed>>, NEW n \in 1 .. issues, NEW i, End(p, "receipt", n, i)
    PROVE  Abstract!Confirm(p)
<1>1. /\ pc' = [pc EXCEPT ![p] = "idle"] /\ result' = [result EXCEPT ![p] = "receipt"]
      /\ number' = [number EXCEPT ![p] = n] /\ TypeOK /\ result[p] = "none"
  BY DEF End, Goto, AgreeInv, Unanswered
<1>3. /\ [q \in Publishers |-> AnswerOf(q)]'
           = [[q \in Publishers |-> AnswerOf(q)] EXCEPT ![p] = "receipt"]
      /\ [q \in Publishers |-> ReceiptOf(q)]'
           = [[q \in Publishers |-> ReceiptOf(q)] EXCEPT ![p] = n]
  BY <1>1, SeenThrough
<1>4. AnswerOf(p) = "none"
  BY <1>1 DEF AnswerOf
<1> QED BY <1>3, <1>4 DEF Abstract!Confirm, AnswerOf, ReceiptOf

\* A call that goes on is not seen.
LEMMA HiddenMaps ==
    ASSUME AgreeInv, Unanswered, NEW p \in Publishers, pc[p] \notin {"idle", "release"},
           NEW point, point \notin {"idle", "release"}, UNCHANGED <<issues, exposed, result>>, NEW n,
           pc' = [pc EXCEPT ![p] = point], number' = [number EXCEPT ![p] = n]
    PROVE  UNCHANGED Abstract!vars
<1>1. TypeOK /\ result[p] = "none" /\ result' = [result EXCEPT ![p] = "none"]
  BY DEF AgreeInv, TypeOK, Unanswered
<1>2. /\ [q \in Publishers |-> AnswerOf(q)]'
           = [[q \in Publishers |-> AnswerOf(q)] EXCEPT ![p] = "none"]
      /\ [q \in Publishers |-> ReceiptOf(q)]'
           = [[q \in Publishers |-> ReceiptOf(q)] EXCEPT ![p] = 0]
  BY <1>1, SeenThrough
<1>3. AnswerOf(p) = "none" /\ ReceiptOf(p) = 0
  BY <1>1 DEF AnswerOf, ReceiptOf
<1> QED BY <1>2, <1>3 DEF Abstract!vars, AnswerOf, ReceiptOf

\* Steps of the environment change no call.
LEMMA OutsideMaps ==
    ASSUME UNCHANGED <<issues, exposed, pc, result, number>>
    PROVE  UNCHANGED Abstract!vars
BY DEF Abstract!vars

\* Every step keeps the calls in progress unanswered.
LEMMA UnansweredStep ==
    ASSUME AgreeInv, Unanswered, [Next]_vars
    PROVE  Unanswered'
<1>0. pc \in [Publishers -> Points] /\ result \in [Publishers -> Results]
  BY DEF AgreeInv, TypeOK
<1>a. ASSUME NEW p \in Publishers, NEW ending, NEW n, NEW i, End(p, ending, n, i)
      PROVE  Unanswered'
  BY <1>0, <1>a DEF End, Goto, Unanswered
<1>b. ASSUME NEW p \in Publishers, NEW ending, Release(p, ending)
      PROVE  Unanswered'
  BY <1>0, <1>b DEF Release, Goto, Unanswered
<1>c. ASSUME NEW p \in Publishers, NEW point, Goto(p, point), UNCHANGED result,
             pc[p] \notin {"idle", "release"}
      PROVE  Unanswered'
  BY <1>0, <1>c DEF Goto, Unanswered
<1>d. ASSUME UNCHANGED <<pc, result>>
      PROVE  Unanswered'
  BY <1>d DEF Unanswered
<1>1. ASSUME NEW p \in Publishers, Start(p)
      PROVE  Unanswered'
  BY <1>0, <1>1 DEF Start, Goto, Unanswered
<1>2. ASSUME NEW p \in Publishers, Step(p)
      PROVE  Unanswered'
  <2>1. CASE NotConnected(p) \/ ClaimReceipt(p) \/ ClaimTimesOut(p) \/ ClaimError(p)
    BY <1>a, <2>1 DEF NotConnected, ClaimReceipt, ClaimTimesOut, ClaimError, Uncertain
  <2>2. CASE Claim(p) \/ Send(p) \/ Land(p) \/ AnswerAmbiguous(p)
    BY <1>c, <2>2 DEF Claim, Send, Land, AnswerAmbiguous
  <2>3. CASE Answer(p)
    BY <1>c, <2>3 DEF Answer, Hold
  <2>4. CASE Mint(p)
    BY <1>b, <1>c, <2>4 DEF Mint
  <2>5. CASE Find(p)
    BY <1>a, <1>b, <1>c, <2>5 DEF Find, Hold, Uncertain
  <2>6. CASE Reconcile(p)
    BY <1>a, <1>c, <2>6 DEF Reconcile, Hold, Uncertain
  <2>7. CASE Refuse(p) \/ Break(p)
    BY <1>b, <2>7 DEF Refuse, Break
  <2>8. CASE Complete(p)
    BY <1>a, <2>8 DEF Complete, Uncertain
  <2>9. CASE ReleaseIntent(p)
    BY <1>0, <2>9 DEF ReleaseIntent, Goto, Unanswered
  <2> QED BY <1>2, <2>1, <2>2, <2>3, <2>4, <2>5, <2>6, <2>7, <2>8, <2>9 DEF Step
<1>3. ASSUME NEW p \in Publishers, Crash(p)
      PROVE  Unanswered'
  BY <1>a, <1>3 DEF Crash
<1>4. CASE SettlePost \/ List \/ ExpireIntent \/ IntentLapses \/ UNCHANGED vars
  BY <1>d, <1>4 DEF SettlePost, List, ExpireIntent, IntentLapses, vars
<1> QED BY <1>1, <1>2, <1>3, <1>4 DEF Next

\* Every step is a step of the abstract specification or is not seen by it.
LEMMA RefinementStep ==
    ASSUME AgreeInv, GuardedInv, Unanswered, [Next]_vars
    PROVE  [Abstract!Next]_Abstract!vars
<1>0. /\ issues \in Nat /\ flying \in Nat
      /\ ~exposed => issues + flying <= 1
      /\ intent.number \in 0 .. issues /\ number \in [Publishers -> 0 .. issues]
      /\ pc \in [Publishers -> Points] /\ result \in [Publishers -> Results]
      /\ \A p \in Publishers : pc[p] = "waiting" => issues = 0 \/ exposed
  BY DEF AgreeInv, TypeOK, Intents, GuardedInv, OneIssueInv, Known
<1>a. ASSUME NEW p \in Publishers, NEW ending \in {"uncertain", "refused", "raised"}, NEW i,
             End(p, ending, 0, i), pc[p] # "idle", UNCHANGED <<issues, exposed>>
      PROVE  Abstract!Next
  BY <1>a, FailureMaps DEF End, Goto, Abstract!Next
<1>b. ASSUME NEW p \in Publishers, NEW ending \in {"refused", "raised"}, Release(p, ending),
             UNCHANGED <<issues, exposed>>
      PROVE  Abstract!Next
  BY <1>b, NoAnswerMaps DEF Release, Goto, Abstract!Next
<1>c. ASSUME NEW p \in Publishers, NEW point, Goto(p, point), UNCHANGED number,
             pc[p] \notin {"idle", "release"}, point \notin {"idle", "release"},
             UNCHANGED <<issues, exposed, result>>
      PROVE  UNCHANGED Abstract!vars
  <2>1. number' = [number EXCEPT ![p] = number[p]]
    BY <1>0, <1>c
  <2> QED BY <1>c, <2>1, HiddenMaps DEF Goto
<1>d. ASSUME NEW p \in Publishers, NEW n, Hold(p, n), pc[p] \notin {"idle", "release"},
             UNCHANGED <<issues, exposed>>
      PROVE  UNCHANGED Abstract!vars
  <2>1. /\ pc' = [pc EXCEPT ![p] = "complete"] /\ number' = [number EXCEPT ![p] = n]
        /\ UNCHANGED <<issues, exposed, result>>
    BY <1>d DEF Hold, Goto
  <2> QED BY <1>d, <2>1, HiddenMaps
<1>1. ASSUME NEW p \in Publishers, Start(p)
      PROVE  Abstract!Next
  BY <1>1, NoAnswerMaps DEF Start, Goto, github, Abstract!Next
<1>2. ASSUME NEW p \in Publishers, NotConnected(p) \/ ClaimTimesOut(p) \/ ClaimError(p)
      PROVE  Abstract!Next
  BY <1>a, <1>2 DEF NotConnected, ClaimTimesOut, ClaimError, Uncertain, github
<1>3. ASSUME NEW p \in Publishers, ClaimReceipt(p)
      PROVE  Abstract!Next
  <2>1. intent.number \in 1 .. issues
    BY <1>0, <1>3 DEF ClaimReceipt
  <2> QED BY <1>0, <1>3, <2>1, ReceiptMaps DEF ClaimReceipt, github, Abstract!Next
<1>4. ASSUME NEW p \in Publishers, Claim(p) \/ Send(p)
      PROVE  UNCHANGED Abstract!vars
  BY <1>c, <1>4 DEF Claim, Send, github
<1>5. ASSUME NEW p \in Publishers, AnswerAmbiguous(p) \/ Answer(p)
      PROVE  UNCHANGED Abstract!vars
  <2>1. CASE AnswerAmbiguous(p)
    <3>1. /\ pc' = [pc EXCEPT ![p] = "reconcile"] /\ number' = [number EXCEPT ![p] = 0]
          /\ UNCHANGED <<issues, exposed, result>> /\ pc[p] \in {"waiting", "landed"}
      BY <2>1 DEF AnswerAmbiguous, StopWaiting, Goto
    <3> QED BY <3>1, HiddenMaps
  <2>2. CASE Answer(p)
    BY <1>d, <2>2 DEF Answer, github
  <2> QED BY <1>5, <2>1, <2>2
<1>6. ASSUME NEW p \in Publishers, Mint(p)
      PROVE  Abstract!Next \/ UNCHANGED Abstract!vars
  BY <1>b, <1>c, <1>6 DEF Mint, github
<1>7. ASSUME NEW p \in Publishers, Find(p)
      PROVE  Abstract!Next \/ UNCHANGED Abstract!vars
  <2>0. pc[p] = "find" /\ UNCHANGED <<issues, exposed>>
    BY <1>7 DEF Find
  <2>1. CASE Hold(p, listed)
    BY <1>d, <2>0, <2>1
  <2>2. CASE Goto(p, "post") /\ UNCHANGED <<result, number>>
    BY <1>c, <2>0, <2>2
  <2>3. CASE Uncertain(p)
    BY <1>a, <2>0, <2>3 DEF Uncertain
  <2>4. CASE Release(p, "raised")
    BY <1>b, <2>0, <2>4
  <2> QED BY <1>7, <2>1, <2>2, <2>3, <2>4 DEF Find
<1>8. ASSUME NEW p \in Publishers, Reconcile(p)
      PROVE  Abstract!Next \/ UNCHANGED Abstract!vars
  BY <1>a, <1>d, <1>8 DEF Reconcile, Uncertain, github
<1>9. ASSUME NEW p \in Publishers, Refuse(p)
      PROVE  Abstract!Next
  BY <1>b, <1>9 DEF Refuse, github
<1>10. ASSUME NEW p \in Publishers, Land(p)
      PROVE  Abstract!Next
  <2>1. /\ (issues = 0 \/ exposed) /\ issues' = issues + 1 /\ exposed' = exposed /\ result' = result /\ result[p] = "none"
        /\ pc' = [pc EXCEPT ![p] = "landed"] /\ pc[p] = "waiting"
        /\ number' = [number EXCEPT ![p] = issues + 1]
    BY <1>0, <1>10 DEF Land, Goto, Unanswered
  <2>2. result' = [result EXCEPT ![p] = "none"]
    BY <1>0, <2>1
  <2>3. /\ [q \in Publishers |-> AnswerOf(q)]'
             = [[q \in Publishers |-> AnswerOf(q)] EXCEPT ![p] = "none"]
        /\ [q \in Publishers |-> ReceiptOf(q)]'
             = [[q \in Publishers |-> ReceiptOf(q)] EXCEPT ![p] = 0]
    <3>1. TypeOK
      BY DEF AgreeInv
    <3>2. /\ [q \in Publishers |-> AnswerOf(q)]'
               = [[q \in Publishers |-> AnswerOf(q)] EXCEPT ![p] =
                     IF "landed" = "release" THEN "none" ELSE "none"]
          /\ [q \in Publishers |-> ReceiptOf(q)]'
               = [[q \in Publishers |-> ReceiptOf(q)] EXCEPT ![p] =
                     IF "none" = "receipt" THEN issues + 1 ELSE 0]
      BY ONLY <2>1, <2>2, <3>1, SeenThrough, Zenon
    <3> QED BY ONLY <3>2
  <2>4. AnswerOf(p) = "none" /\ ReceiptOf(p) = 0
    BY <2>1 DEF AnswerOf, ReceiptOf
  <2>5. Abstract!Appear
    BY <2>1, <2>3, <2>4 DEF Abstract!Appear, AnswerOf, ReceiptOf
  <2> QED BY <2>5 DEF Abstract!Next
<1>11. ASSUME NEW p \in Publishers, Complete(p)
      PROVE  Abstract!Next
  <2>1. ASSUME End(p, "receipt", Completed(p).number, Completed(p))
        PROVE  Abstract!Next
    <3>1. Completed(p).number \in 1 .. issues
      <4>1. number[p] # 0 /\ pc[p] = "complete"
        BY <1>11 DEF Complete, AgreeInv
      <4>2. CASE intent.number # 0
        BY <1>0, <4>2 DEF Completed
      <4>3. CASE intent.number = 0
        <5>1. Completed(p).number = number[p]
          BY <4>3 DEF Completed, NoIntent
        <5> QED BY <1>0, <4>1, <5>1
      <4> QED BY <4>2, <4>3
    <3> QED BY <1>0, <1>11, <2>1, <3>1, ReceiptMaps DEF Complete, github, Abstract!Next
  <2> QED BY <1>a, <1>11, <2>1 DEF Complete, Uncertain, github
<1>12. ASSUME NEW p \in Publishers, ReleaseIntent(p)
      PROVE  Abstract!Next
  <2>1. /\ pc' = [pc EXCEPT ![p] = "idle"] /\ result' = [result EXCEPT ![p] = result[p]]
        /\ number' = [number EXCEPT ![p] = number[p]] /\ pc[p] = "release" /\ UNCHANGED <<issues, exposed>>
    BY <1>0, <1>12 DEF ReleaseIntent, Goto, github
  <2>2. result[p] \in {"none", "uncertain", "refused", "raised"}
    BY <1>0, <2>1 DEF Results, AgreeInv
  <2>3. CASE result[p] = "none"
    BY <2>1, <2>3, NoAnswerMaps DEF Abstract!Next
  <2>4. CASE result[p] \in {"uncertain", "refused", "raised"}
    BY <2>1, <2>4, FailureMaps DEF Abstract!Next
  <2> QED BY <2>2, <2>3, <2>4
<1>13. ASSUME NEW p \in Publishers, Crash(p)
      PROVE  Abstract!Next
  BY <1>a, <1>13 DEF Crash, StopWaiting
<1>14. CASE SettlePost
  <2>1. CASE issues' = issues
    BY <1>14, <2>1, OutsideMaps DEF SettlePost
  <2>2. CASE issues' = issues + 1
    <3>1. (issues = 0 \/ exposed) /\ issues' = issues + 1 /\ UNCHANGED <<exposed, pc, result, number>>
      BY <1>0, <1>14, <2>2 DEF SettlePost
    <3>2. Abstract!Appear
      BY <3>1 DEF Abstract!Appear
    <3> QED BY <3>2 DEF Abstract!Next
  <2> QED BY <1>14, <2>1, <2>2 DEF SettlePost
<1>15. CASE List \/ ExpireIntent \/ UNCHANGED vars
  BY <1>15, OutsideMaps DEF List, ExpireIntent, vars, github
<1>16. ASSUME NEW p \in Publishers, Break(p)
      PROVE  Abstract!Next
  <2>1. /\ pc' = [pc EXCEPT ![p] = "release"] /\ result' = [result EXCEPT ![p] = "raised"]
        /\ number' = [number EXCEPT ![p] = 0] /\ result[p] = "none"
        /\ issues' = issues /\ exposed' = TRUE
    BY <1>16 DEF Break, Release, Goto, StopWaiting, Unanswered
  <2>2. /\ [q \in Publishers |-> AnswerOf(q)]'
             = [[q \in Publishers |-> AnswerOf(q)] EXCEPT ![p] = "none"]
        /\ [q \in Publishers |-> ReceiptOf(q)]'
             = [[q \in Publishers |-> ReceiptOf(q)] EXCEPT ![p] = 0]
    BY <2>1, SeenThrough DEF AgreeInv
  <2>3. AnswerOf(p) = "none" /\ ReceiptOf(p) = 0
    BY <2>1 DEF AnswerOf, ReceiptOf
  <2>4. Abstract!Interfere
    BY <2>1, <2>2, <2>3 DEF Abstract!Interfere, AnswerOf, ReceiptOf
  <2> QED BY <2>4 DEF Abstract!Next
<1>17. CASE IntentLapses
  <2>1. Abstract!Interfere
    BY <1>17 DEF IntentLapses, github, Abstract!Interfere
  <2> QED BY <2>1 DEF Abstract!Next
<1> QED
  BY <1>1, <1>2, <1>3, <1>4, <1>5, <1>6, <1>7, <1>8, <1>9, <1>10, <1>11, <1>12, <1>13, <1>14,
     <1>15, <1>16, <1>17 DEF Next, Step

\* publish_issue is what the workflow relies on: at most one issue appears until an intent
\* is exposed, and a call answers with a receipt only for an issue that exists.
THEOREM Refinement == Spec => ImplementsPublication
<1>1. Init => Unanswered /\ GuardedInv
  BY OneIssueInit DEF Init, Unanswered, GuardedInv
<1>2. Init => Abstract!Init
  BY DEF Init, Abstract!Init
<1>3. AgreeInv /\ GuardedInv /\ Unanswered /\ [Next]_vars => [Abstract!Next]_Abstract!vars
  BY RefinementStep
<1> QED
  BY <1>1, <1>2, <1>3, AgreeInit, AgreeStep, GuardedStep, UnansweredStep, PTL
     DEF Spec, ImplementsPublication, Abstract!Spec
=============================================================================
