----------------------- MODULE ClaimCompilationProofs -----------------------
(***************************************************************************)
(* Theorems about ClaimCompilation, for every set of pages and quotes,     *)
(* every model output and every number of attempts and faults.             *)
(***************************************************************************)
EXTENDS ClaimCompilation, TLAPS

-----------------------------------------------------------------------------
(* Records and payloads. *)

SomeClaim == [quote : Quotes, fits : BOOLEAN, page : Pages, control : BOOLEAN]

Statuses == {"RECEIVED", "CAPTURING", "COMPILING", "BINDING", "ROUTING_ACTION"} \cup Failures

\* The updates that the workflow makes keep a record a record.
LEMMA RecordType ==
    ASSUME NEW r \in Records
    PROVE  /\ \A status \in Statuses : [r EXCEPT !.status = status] \in Records
           /\ \A invoked \in BOOLEAN : [r EXCEPT !.invoked = invoked] \in Records
           /\ \A attempted \in BOOLEAN :
                 [r EXCEPT !.status = "COMPILING", !.attempted = attempted] \in Records
           /\ \A claim \in Claims : \A invoked \in BOOLEAN :
                 [r EXCEPT !.claim = claim, !.invoked = invoked] \in Records
BY DEF Records, Statuses

\* A claim that is bound is a claim of a captured page, and marking it keeps it one.
LEMMA BoundType ==
    ASSUME NEW r \in Records, can_bind_account_deletion(r.claim)
    PROVE  /\ r.claim \in SomeClaim
           /\ [r EXCEPT !.status = "BINDING", !.claim.control = TRUE] \in Records
<1>1. r.claim \in Claims /\ r.claim # NoClaim
  BY QuoteAssumption DEF Records, can_bind_account_deletion, NoClaim
<1>2. r.claim \in SomeClaim
  BY <1>1 DEF Claims, SomeClaim
<1>3. [r.claim EXCEPT !.control = TRUE] \in Claims
  BY <1>2 DEF SomeClaim, Claims
<1>4. [r EXCEPT !.status = "BINDING", !.claim.control = TRUE] =
         [r EXCEPT !.status = "BINDING", !.claim = [r.claim EXCEPT !.control = TRUE]]
  BY DEF Records
<1>5. \A claim \in Claims : [r EXCEPT !.status = "BINDING", !.claim = claim] \in Records
  BY DEF Records
<1> QED BY <1>2, <1>3, <1>4, <1>5

\* What the worker captured is a page wherever it is used.
CaptureKnown == pc \in {"start_compile", "compile", "bind", "probe"} => capture \in Pages

\* A payload of the compiler becomes a claim about the captured page.
LEMMA NewClaimType ==
    ASSUME Payload \in Payloads, capture \in Pages
    PROVE  NewClaim \in SomeClaim /\ NewClaim \in Claims
<1>1. Payload.quote \in Quotes /\ Payload.fits \in BOOLEAN
  BY DEF Payloads
<1> QED BY <1>1 DEF NewClaim, SomeClaim, Claims

-----------------------------------------------------------------------------
(* Type correctness. *)

TypeInv == TypeOK /\ CaptureKnown

\* The initial run is typed.
LEMMA TypeInit == Init => TypeInv
<1> SUFFICES ASSUME Init PROVE TypeInv
  OBVIOUS
<1>1. NoClaim \in Claims /\ NoOutput \in Outputs
  BY DEF Claims, Outputs
<1>2. new_run \in Records
  BY <1>1 DEF new_run, Records
<1>3. Silence \in [saw : BOOLEAN, raw : Outputs, text : Outputs]
  BY <1>1 DEF Silence
<1>4. 0 \in 0 .. MaxAttempts /\ 0 \in 0 .. MaxFaults
  BY BoundAssumption
<1>5. [claim |-> NoClaim, capture |-> NoPage] \in [claim : Claims, capture : Pages \cup {NoPage}]
  BY <1>1
<1> QED BY <1>2, <1>3, <1>4, <1>5 DEF Init, TypeInv, TypeOK, CaptureKnown, Points

\* A failure leaves a typed record at the start of the next attempt.
LEMMA FailType ==
    ASSUME NEW r \in Records, NEW status \in Failures, Fail(r, status)
    PROVE  run' \in Records /\ store' \in Records /\ pc' = "idle"
<1>1. status \in Statuses
  BY DEF Statuses
<1> QED BY <1>1, RecordType DEF Fail, Save

\* Every step keeps the types.
LEMMA TypeStep ==
    ASSUME TypeInv, [Next]_vars
    PROVE  TypeInv'
<1>0. /\ TypeOK /\ CaptureKnown /\ run \in Records /\ store \in Records
      /\ Silence \in [saw : BOOLEAN, raw : Outputs, text : Outputs]
      /\ {"idle", "capture", "start_compile", "compile", "bind", "probe", "down"} = Points
  BY DEF TypeInv, TypeOK, Silence, Outputs, Points
<1>1. CASE UNCHANGED vars
  BY <1>0, <1>1 DEF vars, TypeInv, TypeOK, CaptureKnown
<1>2. CASE StartAttempt
  <2>1. run' \in Records /\ store' \in Records
    BY <1>0, <1>2, RecordType DEF StartAttempt, Save, Statuses
  <2>2. attempts' \in 0 .. MaxAttempts
    BY <1>0, <1>2, BoundAssumption DEF StartAttempt, TypeOK
  <2> QED BY <1>0, <1>2, <2>1, <2>2 DEF StartAttempt, TypeInv, TypeOK, CaptureKnown
<1>3. ASSUME Fault PROVE faults' \in 0 .. MaxFaults
  BY <1>0, <1>3, BoundAssumption DEF Fault, TypeOK
<1>4. CASE Capture
  <2>1. CASE capture' = page /\ pc' = "start_compile" /\ UNCHANGED <<run, store, faults>>
    BY <1>0, <1>4, <2>1 DEF Capture, TypeInv, TypeOK, CaptureKnown
  <2>2. ASSUME Fault, NEW status \in Failures, Fail(run, status), UNCHANGED capture
        PROVE  TypeInv'
    BY <1>0, <1>3, <1>4, <2>2, FailType DEF Capture, TypeInv, TypeOK, CaptureKnown
  <2> QED BY <1>4, <2>1, <2>2 DEF Capture
<1>5. CASE StartCompile
  <2>1. run.attempted \in BOOLEAN
    BY <1>0 DEF Records
  <2>2. run' \in Records /\ store' \in Records
    BY <1>0, <1>5, <2>1, RecordType DEF StartCompile, Statuses
  <2> QED BY <1>0, <1>5, <2>2 DEF StartCompile, TypeInv, TypeOK, CaptureKnown
<1>6. CASE Event
  <2>1. PICK agent \in BOOLEAN, typed \in BOOLEAN, output \in Outputs, content \in Outputs :
          /\ stream' = [saw  |-> stream.saw \/ agent,
                        raw  |-> IF ~typed THEN NoOutput
                                 ELSE IF output # NoOutput THEN output ELSE stream.raw,
                        text |-> IF content # NoOutput THEN content ELSE stream.text]
          /\ used' = (used \/ agent)
    BY <1>6 DEF Event
  <2>2. NoOutput \in Outputs
    BY DEF Outputs
  <2>3. stream' \in [saw : BOOLEAN, raw : Outputs, text : Outputs] /\ used' \in BOOLEAN
    BY <1>0, <2>1, <2>2 DEF TypeOK
  <2> QED BY <1>0, <1>6, <2>3 DEF Event, TypeInv, TypeOK, CaptureKnown
<1>7. stream.saw \in BOOLEAN
  BY <1>0 DEF TypeOK
<1>8. CASE Compile
  <2> DEFINE r == [run EXCEPT !.claim = NewClaim, !.invoked = Provenance]
  <2>1. r \in Records
    BY <1>0, <1>7, <1>8, RecordType, NewClaimType DEF Compile, CaptureKnown, Provenance
  <2>2. \/ Save(r) /\ pc' = "bind"
        \/ Fail([r EXCEPT !.invoked = FALSE], "FAILED_SAFE")
    BY <1>8 DEF Compile
  <2> HIDE DEF r
  <2>3. CASE Save(r) /\ pc' = "bind"
    BY <1>0, <1>8, <2>1, <2>3 DEF Compile, Save, TypeInv, TypeOK, CaptureKnown
  <2>4. CASE Fail([r EXCEPT !.invoked = FALSE], "FAILED_SAFE")
    <3>0. FALSE \in BOOLEAN /\ "FAILED_SAFE" \in Failures
      BY DEF Failures
    <3>1. [r EXCEPT !.invoked = FALSE] \in Records
      BY <2>1, <3>0, RecordType
    <3>2. run' \in Records /\ store' \in Records /\ pc' = "idle"
      BY <2>4, <3>0, <3>1, FailType
    <3> QED BY <1>0, <1>8, <3>2 DEF Compile, TypeInv, TypeOK, CaptureKnown
  <2> QED BY <2>2, <2>3, <2>4
<1>9. CASE CompileRejects
  <2>1. [run EXCEPT !.invoked = Provenance] \in Records
    BY <1>0, <1>7, RecordType DEF Provenance
  <2>2. run' \in Records /\ store' \in Records /\ pc' = "idle"
    BY <1>9, <2>1, FailType DEF CompileRejects, Failures
  <2> QED BY <1>0, <1>9, <2>2 DEF CompileRejects, TypeInv, TypeOK, CaptureKnown
<1>10. CASE CompileFails
  <2>1. [run EXCEPT !.invoked = Provenance] \in Records
    BY <1>0, <1>7, RecordType DEF Provenance
  <2>2. run' \in Records /\ store' \in Records /\ pc' = "idle"
    BY <1>0, <1>10, <2>1, FailType DEF CompileFails, Failures
  <2> QED BY <1>0, <1>3, <1>10, <2>2 DEF CompileFails, TypeInv, TypeOK, CaptureKnown
<1>11. CASE Bind
  <2>1. CASE can_bind_account_deletion(run.claim)
    BY <1>0, <1>11, <2>1, BoundType DEF Bind, Save, TypeInv, TypeOK, CaptureKnown
  <2>2. CASE ~can_bind_account_deletion(run.claim)
    <3>1. "ROUTING_ACTION" \in Statuses
      BY DEF Statuses
    <3>2. [run EXCEPT !.status = "ROUTING_ACTION"] \in Records
      BY <1>0, <3>1, RecordType
    <3>3. run' \in Records /\ store' \in Records
      BY <1>11, <2>2, <3>2 DEF Bind, Save
    <3> QED BY <1>0, <1>11, <2>2, <3>3 DEF Bind, TypeInv, TypeOK, CaptureKnown
  <2> QED BY <2>1, <2>2
<1>12. CASE Probe
  <2>1. tested' \in [claim : Claims, capture : Pages \cup {NoPage}]
    BY <1>0, <1>12 DEF Probe, TypeOK, Records
  <2>2. run' \in Records /\ store' \in Records /\ pc' = "idle" /\ faults' \in 0 .. MaxFaults
    <3>1. CASE Save([run EXCEPT !.status = "ROUTING_ACTION"]) /\ pc' = "idle" /\ UNCHANGED faults
      BY <1>0, <3>1, RecordType DEF Save, Statuses, TypeOK
    <3>2. CASE Fault /\ \E status \in Failures : Fail(run, status)
      BY <1>0, <1>3, <3>2, FailType
    <3> QED BY <1>12, <3>1, <3>2 DEF Probe
  <2> QED BY <1>0, <1>12, <2>1, <2>2 DEF Probe, TypeInv, TypeOK, CaptureKnown
<1>13. CASE Crash
  BY <1>0, <1>3, <1>13 DEF Crash, TypeInv, TypeOK, CaptureKnown
<1>14. CASE ChangePage
  BY <1>0, <1>14 DEF ChangePage, TypeInv, TypeOK, CaptureKnown
<1> QED
  BY <1>1, <1>2, <1>4, <1>5, <1>6, <1>8, <1>9, <1>10, <1>11, <1>12, <1>13, <1>14 DEF Next

\* Every variable keeps its type, whatever the page serves and the model returns.
THEOREM TypeCorrect == Spec => []TypeOK
<1>1. Spec => []TypeInv
  BY TypeInit, TypeStep, PTL DEF Spec
<1> QED BY <1>1, PTL DEF TypeInv

-----------------------------------------------------------------------------
(* Grounding. *)

\* source.py's grounding check accepts exactly the quotes that the page says.
LEMMA GroundedSays ==
    ASSUME NEW quote, NEW source
    PROVE  exact_quote_is_grounded(quote, source) <=> Says(source, quote)
BY DEF exact_quote_is_grounded, Says

\* From the compiler to the probe the claim is about the page of this attempt, which says
\* its quote; at the probe it is a deletion promise that fits the control.
Grounded ==
    /\ pc \in {"bind", "probe"} =>
          /\ run.claim.page = capture
          /\ Says(capture, run.claim.quote)
    /\ pc = "probe" => run.claim.fits /\ run.claim.quote \in Promises

GroundInv == TypeInv /\ Grounded /\ TestedIsGrounded

\* Whether a record shows a control only on a claim that its source says.
Supported(r) == r.claim.control => Says(r.claim.page, r.claim.quote)

\* Status and provenance do not matter to a record's claim.
LEMMA SameClaim ==
    ASSUME NEW r \in Records, Supported(r)
    PROVE  /\ \A status : Supported([r EXCEPT !.status = status])
           /\ \A invoked : Supported([r EXCEPT !.invoked = invoked])
           /\ \A status, attempted :
                 Supported([r EXCEPT !.status = status, !.attempted = attempted])
           /\ \A status, invoked :
                 Supported([[r EXCEPT !.invoked = invoked] EXCEPT !.status = status])
BY DEF Records, Supported

\* A failure keeps the claim.
LEMMA FailSupported ==
    ASSUME NEW r \in Records, Supported(r), NEW status, Fail(r, status)
    PROVE  Supported(run)' /\ Supported(store)' /\ pc' = "idle"
BY SameClaim DEF Fail, Save, Supported

\* Every step keeps the grounding of claims.
LEMMA GroundStep ==
    ASSUME GroundInv, [Next]_vars
    PROVE  GroundInv'
<1>0. /\ TypeOK /\ CaptureKnown /\ Grounded /\ TestedIsGrounded
      /\ run \in Records /\ store \in Records
      /\ Supported(run) /\ Supported(store)
  BY DEF GroundInv, TypeInv, TypeOK, TestedIsGrounded, Supported
<1>1. TypeInv'
  BY TypeStep DEF GroundInv
<1>2. ASSUME Supported(run)', Supported(store)', Grounded', UNCHANGED tested
      PROVE  GroundInv'
  BY <1>0, <1>1, <1>2 DEF GroundInv, TestedIsGrounded, Supported
<1>3. ASSUME pc' \notin {"bind", "probe"} PROVE Grounded'
  BY <1>3 DEF Grounded
<1>4. CASE UNCHANGED vars
  <2>1. Grounded' /\ Supported(run)' /\ Supported(store)' /\ UNCHANGED tested
    BY <1>0, <1>4 DEF vars, Grounded, Supported, Says
  <2> QED BY <1>2, <2>1
<1>5. CASE StartAttempt
  <2>1. Supported(run)' /\ Supported(store)'
    BY <1>0, <1>5, SameClaim DEF StartAttempt, Save, Supported
  <2> QED BY <1>2, <1>3, <1>5, <2>1 DEF StartAttempt
<1>6. CASE Capture
  <2>1. CASE capture' = page /\ pc' = "start_compile" /\ UNCHANGED <<run, store, faults>>
    <3>1. Supported(run)' /\ Supported(store)'
      BY <1>0, <2>1 DEF Supported, Says
    <3> QED BY <1>2, <1>3, <1>6, <2>1, <3>1 DEF Capture
  <2>2. ASSUME NEW status \in Failures, Fail(run, status) PROVE GroundInv'
    BY <1>0, <1>2, <1>3, <1>6, <2>2, FailSupported DEF Capture
  <2> QED BY <1>6, <2>1, <2>2 DEF Capture
<1>7. CASE StartCompile
  <2>1. Supported(run)' /\ Supported(store)'
    BY <1>0, <1>7, SameClaim DEF StartCompile, Supported
  <2> QED BY <1>2, <1>3, <1>7, <2>1 DEF StartCompile
<1>8. CASE Event
  <2>1. Supported(run)' /\ Supported(store)'
    BY <1>0, <1>8 DEF Event, Supported, Says
  <2> QED BY <1>2, <1>3, <1>8, <2>1 DEF Event
<1>9. CASE Compile
  <2> DEFINE r == [run EXCEPT !.claim = NewClaim, !.invoked = Provenance]
  <2>1. r \in Records
    <3>1. stream.saw \in BOOLEAN
      BY <1>0 DEF TypeOK
    <3> QED
      BY <1>0, <1>9, <3>1, RecordType, NewClaimType DEF Compile, CaptureKnown, Provenance
  <2>2. r.claim = NewClaim
    BY <1>0 DEF Records
  <2>3. /\ r.claim.page = capture /\ r.claim.quote = Payload.quote
        /\ r.claim.control = FALSE
    BY <2>2 DEF NewClaim
  <2>4. \/ exact_quote_is_grounded(Payload.quote, capture) /\ Save(r) /\ pc' = "bind"
        \/ Fail([r EXCEPT !.invoked = FALSE], "FAILED_SAFE")
    BY <1>9 DEF Compile
  <2> HIDE DEF r
  <2>5. Supported(r)
    BY <2>3 DEF Supported
  <2>6. CASE exact_quote_is_grounded(Payload.quote, capture) /\ Save(r) /\ pc' = "bind"
    <3>1. Says(capture, r.claim.quote)
      BY <2>3, <2>6, GroundedSays
    <3>2. run' = r /\ store' = r /\ capture' = capture /\ UNCHANGED tested
      BY <1>9, <2>6 DEF Save, Compile
    <3>3. Grounded'
      BY <2>3, <2>6, <3>1, <3>2 DEF Grounded
    <3>4. Supported(run)' /\ Supported(store)'
      BY <2>5, <3>2 DEF Supported
    <3> QED BY <1>2, <3>2, <3>3, <3>4
  <2>7. CASE Fail([r EXCEPT !.invoked = FALSE], "FAILED_SAFE")
    <3>1. FALSE \in BOOLEAN
      OBVIOUS
    <3>2. [r EXCEPT !.invoked = FALSE] \in Records /\ Supported([r EXCEPT !.invoked = FALSE])
      BY <2>1, <2>5, <3>1, RecordType, SameClaim
    <3>3. Supported(run)' /\ Supported(store)' /\ pc' = "idle"
      BY <2>7, <3>2, FailSupported
    <3> QED BY <1>2, <1>3, <1>9, <3>3 DEF Compile
  <2> QED BY <2>4, <2>6, <2>7
<1>10. ASSUME NEW status \in Failures, Fail([run EXCEPT !.invoked = Provenance], status)
       PROVE  Supported(run)' /\ Supported(store)' /\ pc' = "idle"
  <2>1. Provenance \in BOOLEAN
    BY <1>0 DEF TypeOK, Provenance
  <2>2. /\ [run EXCEPT !.invoked = Provenance] \in Records
        /\ Supported([run EXCEPT !.invoked = Provenance])
    BY <1>0, <2>1, RecordType, SameClaim
  <2> QED BY <1>10, <2>2, FailSupported
<1>11. CASE CompileRejects
  BY <1>2, <1>3, <1>10, <1>11 DEF CompileRejects, Failures
<1>12. CASE CompileFails
  <2>1. CASE \E status \in Failures : Fail([run EXCEPT !.invoked = Provenance], status)
    BY <1>2, <1>3, <1>10, <1>12, <2>1 DEF CompileFails
  <2>2. CASE Fail(run, "FAILED_SAFE")
    BY <1>0, <1>2, <1>3, <1>12, <2>2, FailSupported DEF CompileFails
  <2> QED BY <1>12, <2>1, <2>2 DEF CompileFails
<1>13. CASE Bind
  <2>1. CASE can_bind_account_deletion(run.claim)
    <3> DEFINE r == [run EXCEPT !.status = "BINDING", !.claim.control = TRUE]
    <3>1. run' = r /\ store' = r /\ pc' = "probe" /\ UNCHANGED <<capture, tested>>
      BY <1>13, <2>1 DEF Bind, Save
    <3>2. /\ r.claim.page = run.claim.page /\ r.claim.quote = run.claim.quote
          /\ r.claim.fits = run.claim.fits
      BY <1>0, <2>1, BoundType DEF Records, SomeClaim
    <3>3. /\ run.claim.page = capture /\ Says(capture, run.claim.quote)
          /\ run.claim.fits /\ run.claim.quote \in Promises
      BY <1>0, <1>13, <2>1 DEF Bind, Grounded, can_bind_account_deletion
    <3> HIDE DEF r
    <3>4. Grounded'
      BY <3>1, <3>2, <3>3 DEF Grounded
    <3>5. Supported(run)' /\ Supported(store)'
      BY <3>1, <3>2, <3>3 DEF Supported
    <3> QED BY <1>2, <3>1, <3>4, <3>5
  <2>2. CASE ~can_bind_account_deletion(run.claim)
    <3>1. /\ run' = [run EXCEPT !.status = "ROUTING_ACTION"]
          /\ store' = [run EXCEPT !.status = "ROUTING_ACTION"]
          /\ pc' = "idle" /\ UNCHANGED tested
      BY <1>13, <2>2 DEF Bind, Save
    <3>2. Supported(run)' /\ Supported(store)'
      BY <1>0, <3>1, SameClaim DEF Supported
    <3> QED BY <1>2, <1>3, <3>1, <3>2
  <2> QED BY <2>1, <2>2
<1>14. CASE Probe
  <2>1. /\ tested' = [claim |-> run.claim, capture |-> capture]
        /\ run.claim.page = capture /\ Says(capture, run.claim.quote)
        /\ run.claim.fits /\ run.claim.quote \in Promises
    BY <1>0, <1>14 DEF Probe, Grounded
  <2>2. Supported(run)' /\ Supported(store)' /\ pc' = "idle"
    <3>1. CASE Save([run EXCEPT !.status = "ROUTING_ACTION"]) /\ pc' = "idle"
      BY <1>0, <3>1, SameClaim DEF Save, Supported
    <3>2. ASSUME NEW status \in Failures, Fail(run, status)
          PROVE  Supported(run)' /\ Supported(store)' /\ pc' = "idle"
      BY <1>0, <3>2, FailSupported
    <3> QED BY <1>14, <3>1, <3>2 DEF Probe
  <2>3. TestedIsGrounded'
    BY <2>1, <2>2 DEF TestedIsGrounded, Supported, Says
  <2> QED BY <1>1, <1>3, <2>2, <2>3 DEF GroundInv
<1>15. CASE Crash
  <2>1. Supported(run)' /\ Supported(store)'
    BY <1>0, <1>15 DEF Crash, Supported, Says
  <2> QED BY <1>2, <1>3, <1>15, <2>1 DEF Crash
<1>16. CASE ChangePage
  <2>1. Grounded' /\ Supported(run)' /\ Supported(store)' /\ UNCHANGED tested
    BY <1>0, <1>16 DEF ChangePage, Grounded, Supported, Says
  <2> QED BY <1>2, <2>1
<1> QED
  BY <1>4, <1>5, <1>6, <1>7, <1>8, <1>9, <1>11, <1>12, <1>13, <1>14, <1>15, <1>16 DEF Next

\* A new run has no claim.
LEMMA GroundInit == Init => GroundInv
<1>1. ASSUME Init PROVE Grounded /\ TestedIsGrounded
  BY <1>1 DEF Init, Grounded, TestedIsGrounded, new_run, NoClaim
<1> QED BY <1>1, TypeInit DEF GroundInv

\* evaluation.md's "Reject claim; no probe": whatever the model returned, however the page
\* was edited and whatever earlier attempts left, the deletion control runs only for a
\* promise that the page of the same attempt says, and no record shows a control on a claim
\* that its source does not say.
THEOREM TestsAreGrounded == Spec => []TestedIsGrounded
<1>1. Spec => []GroundInv
  BY GroundInit, GroundStep, PTL DEF Spec
<1> QED BY <1>1, PTL DEF GroundInv

-----------------------------------------------------------------------------
(* Provenance. *)

\* Whether a record claims no more of the model than happened.
Honest(r) == r.invoked => used /\ r.attempted

\* What the stream of the attempt says of the model, and what the worker has recorded of it
\* at each of its awaits.
StreamKnown ==
    /\ stream.saw => used /\ compiler = "adk"
    /\ pc \in {"capture", "start_compile"} => stream = Silence

Recorded ==
    /\ pc = "compile" /\ compiler = "adk" => run.attempted
    /\ pc \in {"bind", "probe"} => run.invoked = stream.saw

\* A run that an attempt or a crash holds has not failed, in the store or in the copy.
Unfailed == pc # "idle" => store.status \notin Failures /\ run.status \notin Failures

ProvInv == TypeInv /\ StreamKnown /\ Recorded /\ Unfailed /\ ProvenanceKept

\* Steps that do not touch the provenance of a record keep it honest.
LEMMA SameProvenance ==
    ASSUME NEW r \in Records, NEW status
    PROVE  /\ [r EXCEPT !.status = status].invoked = r.invoked
           /\ [r EXCEPT !.status = status].attempted = r.attempted
           /\ [r EXCEPT !.status = status].status = status
BY DEF Records

\* A failure is recorded with the provenance of the record it ends.
LEMMA FailRecords ==
    ASSUME NEW r \in Records, NEW status, Fail(r, status)
    PROVE  /\ run' = store' /\ pc' = "idle"
           /\ store.invoked' = r.invoked /\ store.attempted' = r.attempted
BY SameProvenance DEF Fail, Save

\* Every step keeps the provenance.
LEMMA ProvStep ==
    ASSUME ProvInv, [Next]_vars
    PROVE  ProvInv'
<1>0. /\ TypeOK /\ CaptureKnown /\ StreamKnown /\ Recorded /\ Unfailed
      /\ ProvenanceKept /\ run \in Records /\ store \in Records
      /\ Honest(run) /\ Honest(store) /\ stream.saw \in BOOLEAN /\ used \in BOOLEAN
  BY DEF ProvInv, TypeInv, TypeOK, ProvenanceKept, Honest
<1>1. TypeInv'
  BY TypeStep DEF ProvInv
<1> DEFINE Shown == /\ store.status \in Failures /\ stream.saw
                    /\ Payload \in Payloads => Says(capture, Payload.quote)
                    => store.invoked
<1>2. ASSUME StreamKnown', Recorded', Unfailed', Honest(run)', Honest(store)', Shown'
      PROVE  ProvInv'
  BY <1>1, <1>2 DEF ProvInv, ProvenanceKept, Honest
<1>3. Shown
  BY <1>0 DEF ProvenanceKept
<1> HIDE DEF Shown
\* Before the worker fails, nothing is to be shown.
<1>4. ASSUME store'.status \notin Failures, run'.status \notin Failures PROVE Shown' /\ Unfailed'
  BY <1>4 DEF Shown, Unfailed
<1>5. CASE UNCHANGED vars
  <2>1. StreamKnown' /\ Recorded' /\ Unfailed' /\ Honest(run)' /\ Honest(store)'
    BY <1>0, <1>5 DEF vars, StreamKnown, Recorded, Unfailed, Honest
  <2>2. Shown'
    BY <1>3, <1>5 DEF vars, Shown, Payload, Coerced, Says
  <2> QED BY <1>2, <2>1, <2>2
<1>6. CASE StartAttempt
  <2> DEFINE r == [store EXCEPT !.status = "CAPTURING"]
  <2>1. /\ run' = r /\ store' = r /\ pc' = "capture" /\ stream' = Silence
        /\ UNCHANGED <<compiler, used>>
    BY <1>6 DEF StartAttempt, Save
  <2>2. r.invoked = store.invoked /\ r.attempted = store.attempted /\ r.status = "CAPTURING"
    BY <1>0, SameProvenance
  <2> HIDE DEF r
  <2>3. StreamKnown' /\ Recorded'
    BY <2>1 DEF StreamKnown, Recorded, Silence
  <2>4. Honest(run)' /\ Honest(store)'
    BY <1>0, <2>1, <2>2 DEF Honest
  <2>5. store'.status \notin Failures /\ run'.status \notin Failures
    BY <2>1, <2>2 DEF Failures
  <2> QED BY <1>2, <1>4, <2>3, <2>4, <2>5
<1>7. CASE Capture
  <2>1. CASE capture' = page /\ pc' = "start_compile" /\ UNCHANGED <<run, store, faults>>
    <3>1. StreamKnown' /\ Recorded' /\ Honest(run)' /\ Honest(store)'
      BY <1>0, <1>7, <2>1 DEF Capture, StreamKnown, Recorded, Honest
    <3>2. store'.status \notin Failures /\ run'.status \notin Failures
      BY <1>0, <1>7, <2>1 DEF Capture, Unfailed
    <3> QED BY <1>2, <1>4, <3>1, <3>2
  <2>2. ASSUME NEW status \in Failures, Fail(run, status) PROVE ProvInv'
    <3>1. /\ run' = store' /\ pc' = "idle" /\ UNCHANGED <<stream, used, compiler>>
          /\ store.invoked' = run.invoked /\ store.attempted' = run.attempted
          /\ stream = Silence
      BY <1>0, <1>7, <2>2, FailRecords DEF Capture, StreamKnown
    <3>2. StreamKnown' /\ Recorded' /\ Unfailed'
      BY <1>0, <3>1 DEF StreamKnown, Recorded, Unfailed, Silence
    <3>3. Honest(run)' /\ Honest(store)'
      BY <1>0, <3>1 DEF Honest
    <3>4. Shown'
      BY <3>1 DEF Shown, Silence
    <3> QED BY <1>2, <3>2, <3>3, <3>4
  <2> QED BY <1>7, <2>1, <2>2 DEF Capture
<1>8. CASE StartCompile
  <2>1. /\ store'.status = "COMPILING" /\ store'.invoked = run.invoked
        /\ store'.attempted = run.attempted
        /\ run'.status = "COMPILING" /\ run'.invoked = run.invoked
        /\ run'.attempted = (run.attempted \/ compiler = "adk")
    BY <1>0, <1>8 DEF StartCompile, Records
  <2>2. stream' = Silence /\ pc' = "compile" /\ UNCHANGED <<compiler, used>>
    BY <1>8 DEF StartCompile
  <2>3. StreamKnown' /\ Recorded'
    BY <2>1, <2>2 DEF StreamKnown, Recorded, Silence
  <2>4. Honest(run)' /\ Honest(store)'
    BY <1>0, <2>1, <2>2 DEF Honest
  <2>5. store'.status \notin Failures /\ run'.status \notin Failures
    BY <2>1 DEF Failures
  <2> QED BY <1>2, <1>4, <2>3, <2>4, <2>5
<1>9. CASE Event
  <2>1. PICK agent \in BOOLEAN :
          stream'.saw = (stream.saw \/ agent) /\ used' = (used \/ agent)
    BY <1>9 DEF Event
  <2>2. /\ pc = "compile" /\ compiler = "adk"
        /\ UNCHANGED <<compiler, run, store, pc>>
    BY <1>9 DEF Event
  <2>3. StreamKnown'
    BY <1>0, <2>1, <2>2 DEF StreamKnown
  <2>4. Recorded' /\ Honest(run)' /\ Honest(store)'
    BY <1>0, <2>1, <2>2 DEF Recorded, Honest
  <2>5. store'.status \notin Failures /\ run'.status \notin Failures
    BY <1>0, <2>2 DEF Unfailed
  <2> QED BY <1>2, <1>4, <2>3, <2>4, <2>5
\* While the compiler runs, a model that answered was recorded as attempted.
<1>10. ASSUME pc = "compile", stream.saw PROVE used /\ run.attempted
  BY <1>0, <1>10 DEF StreamKnown, Recorded
<1>11. CASE Compile
  <2> DEFINE r == [run EXCEPT !.claim = NewClaim, !.invoked = Provenance]
  <2>1. r \in Records
    BY <1>0, <1>11, RecordType, NewClaimType DEF Compile, CaptureKnown, Provenance
  <2>2. r.invoked = stream.saw /\ r.attempted = run.attempted /\ r.status = run.status
    BY <1>0 DEF Records, Provenance
  <2>3. \/ exact_quote_is_grounded(Payload.quote, capture) /\ Save(r) /\ pc' = "bind"
        \/ /\ ~exact_quote_is_grounded(Payload.quote, capture)
           /\ Fail([r EXCEPT !.invoked = FALSE], "FAILED_SAFE")
    BY <1>11 DEF Compile
  <2>4. /\ pc = "compile" /\ Payload \in Payloads
        /\ UNCHANGED <<compiler, capture, stream, used>>
    BY <1>11 DEF Compile
  <2> HIDE DEF r
  <2>5. StreamKnown' /\ pc' \in {"bind", "idle"}
    BY <1>0, <2>3, <2>4 DEF StreamKnown, Fail
  <2>6. CASE Save(r) /\ pc' = "bind"
    <3>1. run' = r /\ store' = r
      BY <2>6 DEF Save
    <3>2. Recorded' /\ Honest(run)' /\ Honest(store)'
      BY <1>10, <2>2, <2>4, <2>6, <3>1 DEF Recorded, Honest
    <3>3. store'.status \notin Failures /\ run'.status \notin Failures
      BY <1>0, <2>2, <2>4, <3>1 DEF Unfailed
    <3> QED BY <1>2, <1>4, <2>5, <3>2, <3>3
  <2>7. CASE /\ ~exact_quote_is_grounded(Payload.quote, capture)
             /\ Fail([r EXCEPT !.invoked = FALSE], "FAILED_SAFE")
    <3>1. FALSE \in BOOLEAN
      OBVIOUS
    <3>2. [r EXCEPT !.invoked = FALSE] \in Records
      BY <2>1, <3>1, RecordType
    <3>3. [r EXCEPT !.invoked = FALSE].invoked = FALSE
      BY <2>1 DEF Records
    <3>4. run' = store' /\ pc' = "idle" /\ store.invoked' = FALSE
      BY <2>7, <3>2, <3>3, FailRecords
    <3>5. Recorded' /\ Unfailed' /\ Honest(run)' /\ Honest(store)'
      BY <3>4 DEF Recorded, Unfailed, Honest
    <3>6. Payload' = Payload /\ ~Says(capture', Payload'.quote) /\ Payload' \in Payloads
      BY <2>4, <2>7, GroundedSays DEF Payload, Coerced
    <3>7. Shown'
      BY <3>6 DEF Shown
    <3> QED BY <1>2, <2>5, <3>5, <3>7
  <2> QED BY <2>3, <2>6, <2>7
<1>12. ASSUME NEW status \in Failures, Fail([run EXCEPT !.invoked = Provenance], status),
              pc = "compile", UNCHANGED <<compiler, stream, used>>
       PROVE  ProvInv'
  <2>1. Provenance \in BOOLEAN
    BY <1>0 DEF Provenance
  <2>2. [run EXCEPT !.invoked = Provenance] \in Records
    BY <1>0, <2>1, RecordType
  <2>3. /\ [run EXCEPT !.invoked = Provenance].invoked = stream.saw
        /\ [run EXCEPT !.invoked = Provenance].attempted = run.attempted
    BY <1>0 DEF Records, Provenance
  <2>4. /\ run' = store' /\ pc' = "idle"
        /\ store.invoked' = stream.saw /\ store.attempted' = run.attempted
    BY <1>12, <2>2, <2>3, FailRecords
  <2>5. StreamKnown' /\ Recorded' /\ Unfailed' /\ Shown'
    BY <1>0, <1>12, <2>4 DEF StreamKnown, Recorded, Unfailed, Shown
  <2>6. Honest(run)' /\ Honest(store)'
    BY <1>10, <1>12, <2>4 DEF Honest
  <2> QED BY <1>2, <2>5, <2>6
<1>13. CASE CompileRejects
  BY <1>12, <1>13 DEF CompileRejects, Failures
<1>14. CASE CompileFails
  <2>1. CASE \E status \in Failures : Fail([run EXCEPT !.invoked = Provenance], status)
    BY <1>12, <1>14, <2>1 DEF CompileFails
  <2>2. CASE stream = Silence /\ Fail(run, "FAILED_SAFE")
    <3>1. /\ run' = store' /\ pc' = "idle" /\ UNCHANGED <<stream, used, compiler>>
          /\ store.invoked' = run.invoked /\ store.attempted' = run.attempted
      BY <1>0, <1>14, <2>2, FailRecords DEF CompileFails
    <3>2. StreamKnown' /\ Recorded' /\ Unfailed'
      BY <1>0, <3>1 DEF StreamKnown, Recorded, Unfailed
    <3>3. Honest(run)' /\ Honest(store)'
      BY <1>0, <3>1 DEF Honest
    <3>4. Shown'
      BY <2>2, <3>1 DEF Shown, Silence
    <3> QED BY <1>2, <3>2, <3>3, <3>4
  <2> QED BY <1>14, <2>1, <2>2 DEF CompileFails
<1>15. CASE Bind
  <2>1. /\ pc = "bind" /\ UNCHANGED <<compiler, stream, used>> /\ run' = store'
        /\ pc' \in {"probe", "idle"}
    BY <1>15 DEF Bind, Save
  <2>2. /\ store'.invoked = run.invoked /\ store'.attempted = run.attempted
        /\ store'.status \in {"BINDING", "ROUTING_ACTION"}
    BY <1>0, <1>15 DEF Bind, Save, Records
  <2>3. StreamKnown' /\ Recorded' /\ Honest(run)' /\ Honest(store)'
    BY <1>0, <2>1, <2>2 DEF StreamKnown, Recorded, Honest
  <2>4. store'.status \notin Failures /\ run'.status \notin Failures
    BY <2>1, <2>2 DEF Failures
  <2> QED BY <1>2, <1>4, <2>3, <2>4
<1>16. CASE Probe
  <2>1. pc = "probe" /\ run.invoked = stream.saw /\ UNCHANGED <<compiler, stream, used>>
    BY <1>0, <1>16 DEF Probe, Recorded
  <2>2. /\ run' = store' /\ pc' = "idle"
        /\ store.invoked' = run.invoked /\ store.attempted' = run.attempted
    <3>1. CASE Save([run EXCEPT !.status = "ROUTING_ACTION"]) /\ pc' = "idle"
      BY <1>0, <3>1, SameProvenance DEF Save
    <3>2. CASE \E status \in Failures : Fail(run, status)
      BY <1>0, <3>2, FailRecords
    <3> QED BY <1>16, <3>1, <3>2 DEF Probe
  <2>3. StreamKnown' /\ Recorded' /\ Unfailed' /\ Shown'
    BY <1>0, <2>1, <2>2 DEF StreamKnown, Recorded, Unfailed, Shown
  <2>4. Honest(run)' /\ Honest(store)'
    BY <1>0, <2>1, <2>2 DEF Honest
  <2> QED BY <1>2, <2>3, <2>4
<1>17. CASE Crash
  <2>1. /\ pc # "idle" /\ pc' = "down" /\ run' = store
        /\ UNCHANGED <<compiler, stream, store, used>>
    BY <1>17 DEF Crash
  <2>2. StreamKnown' /\ Recorded' /\ Honest(run)' /\ Honest(store)'
    BY <1>0, <2>1 DEF StreamKnown, Recorded, Honest
  <2>3. store'.status \notin Failures /\ run'.status \notin Failures
    BY <1>0, <2>1 DEF Unfailed
  <2> QED BY <1>2, <1>4, <2>2, <2>3
<1>18. CASE ChangePage
  <2>1. StreamKnown' /\ Recorded' /\ Unfailed' /\ Honest(run)' /\ Honest(store)'
    BY <1>0, <1>18 DEF ChangePage, StreamKnown, Recorded, Unfailed, Honest
  <2>2. Shown'
    BY <1>3, <1>18 DEF ChangePage, Shown, Payload, Coerced, Says
  <2> QED BY <1>2, <2>1, <2>2
<1> QED
  BY <1>5, <1>6, <1>7, <1>8, <1>9, <1>11, <1>13, <1>14, <1>15, <1>16, <1>17, <1>18 DEF Next

\* A new run has asked no model.
LEMMA ProvInit == Init => ProvInv
<1>1. ASSUME Init PROVE StreamKnown /\ Recorded /\ Unfailed /\ ProvenanceKept
  BY <1>1 DEF Init, StreamKnown, Recorded, Unfailed, ProvenanceKept, new_run, Silence
<1> QED BY <1>1, TypeInit DEF ProvInv

\* test_workflow.py's "failed model output preserves attempt and invocation provenance",
\* for every order of model events, failures, crashes and resumed attempts: no record claims
\* an invocation that did not happen, and a failure after the model answered records it,
\* except the grounding error of service.py, which carries no provenance.
THEOREM ProvenanceIsKept == Spec => []ProvenanceKept
<1>1. Spec => []ProvInv
  BY ProvInit, ProvStep, PTL DEF Spec
<1> QED BY <1>1, PTL DEF ProvInv
=============================================================================
