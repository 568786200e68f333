-------------------------- MODULE ClaimCompilation --------------------------
(***************************************************************************)
(* From the promise page to a claim bound to a control: the capture        *)
(* (source.py, demo_client.py), the two claim compilers (compiler.py), the *)
(* grounding of the quote (source.py), the binding (control.py) and the    *)
(* part of AuditService._execute (service.py) that calls them, over the    *)
(* attempts of one run.                                                    *)
(*                                                                         *)
(* The page may change at any time.  A quote is a model value: Promises    *)
(* are the quotes with every fragment the deletion control requires.  A    *)
(* capture's content hash is the captured page itself.                     *)
(***************************************************************************)
EXTENDS Naturals

CONSTANTS
    Compilers,    \* deployments considered: values of settings.compiler
    Quotes,       \* what a page may say and a model may quote
    Promises,     \* the quotes with every required fragment
    NoQuote,      \* no quote, an empty one
    Pages,        \* what the source may serve
    MaxAttempts,  \* bound on the attempts of the run
    MaxFaults     \* bound on failing calls and crashes

PageType == [text : SUBSET Quotes, deletion : Quotes \cup {NoQuote},
             other : Quotes \cup {NoQuote}]

ASSUME CompilerAssumption == Compilers \subseteq {"adk", "deterministic"}
ASSUME QuoteAssumption == Promises \subseteq Quotes /\ NoQuote \notin Quotes
ASSUME PageAssumption == Pages \subseteq PageType /\ Pages # {}
ASSUME BoundAssumption == MaxAttempts \in Nat /\ MaxFaults \in Nat

VARIABLES
    compiler,  \* settings.compiler, fixed
    page,      \* what the source serves
    capture,   \* what the attempt captured
    stream,    \* what the model's event stream has shown the compiler
    run,       \* the worker's copy of the run
    store,     \* the durable run
    pc,        \* the await at which the worker stands
    attempts,  \* attempts so far
    faults,    \* faults so far
    used,      \* history: the model answered in some attempt
    tested     \* history: the claim the control was last executed for, and the
               \* capture of that attempt

vars == <<compiler, page, capture, stream, run, store, pc, attempts, faults, used, tested>>

Points == {"idle", "capture", "start_compile", "compile", "bind", "probe", "down"}

\* CompilationPayload: "fits" is EXECUTABLE with a deadline of 24 hours.
Payloads == [quote : Quotes, fits : BOOLEAN]

NoOutput == [quote |-> NoQuote, fits |-> FALSE]

\* Output that is no schema-valid payload.
Malformed == [quote |-> NoQuote, fits |-> TRUE]

Outputs == Payloads \cup {NoOutput, Malformed}

Silence == [saw |-> FALSE, raw |-> NoOutput, text |-> NoOutput]

NoPage == [text |-> {}, deletion |-> NoQuote, other |-> NoQuote]

NoClaim == [quote |-> NoQuote, fits |-> FALSE, page |-> NoPage, control |-> FALSE]

Claims == [quote : Quotes, fits : BOOLEAN, page : Pages, control : BOOLEAN] \cup {NoClaim}

Failures == {"FAILED_RETRYABLE", "FAILED_SAFE"}

Records == [status : {"RECEIVED", "CAPTURING", "COMPILING", "BINDING", "ROUTING_ACTION"}
                      \cup Failures,
            claim : Claims, attempted : BOOLEAN, invoked : BOOLEAN]

TypeOK ==
    /\ compiler \in Compilers
    /\ page \in Pages /\ capture \in Pages \cup {NoPage}
    /\ stream \in [saw : BOOLEAN, raw : Outputs, text : Outputs]
    /\ run \in Records /\ store \in Records
    /\ pc \in Points
    /\ attempts \in 0 .. MaxAttempts /\ faults \in 0 .. MaxFaults
    /\ used \in BOOLEAN
    /\ tested \in [claim : Claims, capture : Pages \cup {NoPage}]

new_run == [status |-> "RECEIVED", claim |-> NoClaim, attempted |-> FALSE, invoked |-> FALSE]

Init ==
    /\ compiler \in Compilers
    /\ page \in Pages /\ capture = NoPage
    /\ stream = Silence
    /\ run = new_run /\ store = new_run
    /\ pc = "idle"
    /\ attempts = 0 /\ faults = 0
    /\ used = FALSE
    /\ tested = [claim |-> NoClaim, capture |-> NoPage]

-----------------------------------------------------------------------------
Fault == faults < MaxFaults /\ faults' = faults + 1

\* store.save: the copy becomes the durable run.
Save(r) == run' = r /\ store' = r

\* The except clauses of _execute and the save that follows them.
Fail(r, status) ==
    /\ Save([r EXCEPT !.status = status])
    /\ pc' = "idle"

\* create_run resumes a run that is interrupted or retryable: _reset_interrupted_run keeps
\* the claim and the runtime of the attempt before.
StartAttempt ==
    /\ pc \in {"idle", "down"} /\ store.status \notin {"FAILED_SAFE", "ROUTING_ACTION"}
    /\ attempts < MaxAttempts /\ attempts' = attempts + 1
    /\ Save([store EXCEPT !.status = "CAPTURING"])
    /\ pc' = "capture"
    /\ capture' = NoPage /\ stream' = Silence
    /\ UNCHANGED <<compiler, page, faults, used, tested>>

\* capture_privacy and parse_capture.  A timeout is retryable, an error status is not.
Capture ==
    /\ pc = "capture"
    /\ \/ /\ capture' = page
          /\ pc' = "start_compile"
          /\ UNCHANGED <<run, store, faults>>
       \/ /\ Fault
          /\ \E status \in Failures : Fail(run, status)
          /\ UNCHANGED capture
    /\ UNCHANGED <<compiler, page, stream, attempts, used, tested>>

\* The stage is saved before the attempt to invoke the model is recorded.
StartCompile ==
    /\ pc = "start_compile"
    /\ store' = [run EXCEPT !.status = "COMPILING"]
    /\ run' = [run EXCEPT !.status = "COMPILING",
                          !.attempted = (@ \/ compiler = "adk")]
    /\ stream' = Silence
    /\ pc' = "compile"
    /\ UNCHANGED <<compiler, page, capture, attempts, faults, used, tested>>

\* collect_output: an event of the compiler agent or of another node of the graph, with an
\* output, text, both or neither.  An output of another type than a payload's replaces an
\* earlier one and is ignored later.
Event ==
    /\ pc = "compile" /\ compiler = "adk"
    /\ \E agent, typed \in BOOLEAN, output, content \in Outputs :
          /\ stream' = [saw  |-> stream.saw \/ agent,
                        raw  |-> IF ~typed THEN NoOutput
                                 ELSE IF output # NoOutput THEN output ELSE stream.raw,
                        text |-> IF content # NoOutput THEN content ELSE stream.text]
          /\ used' = (used \/ agent)
    /\ UNCHANGED <<compiler, page, capture, run, store, pc, attempts, faults, tested>>

\* _coerce_payload: a structured output hides the text.
Coerced == IF stream.raw # NoOutput THEN stream.raw ELSE stream.text

\* What the compilers return.
Payload ==
    IF compiler = "adk" THEN Coerced
    ELSE IF capture.deletion # NoQuote THEN [quote |-> capture.deletion, fits |-> TRUE]
    ELSE NoOutput

\* The marked claims, where there are any, else the visible text.
exact_quote_is_grounded(quote, source) ==
    LET marked == {source.deletion, source.other} \ {NoQuote}
    IN quote \in (IF marked # {} THEN marked ELSE source.text)

\* A claim's metadata is the capture's.
NewClaim ==
    [quote |-> Payload.quote, fits |-> Payload.fits, page |-> capture, control |-> FALSE]

\* CompilationOutcome.model_invoked, and the error's.
Provenance == stream.saw

\* Mutant: the output is not validated against the schema.
Compile_unvalidated ==
    /\ pc = "compile"
    /\ Payload # NoOutput
    /\ LET r == [run EXCEPT !.claim = NewClaim, !.invoked = Provenance]
       IN IF exact_quote_is_grounded(Payload.quote, capture)
          THEN Save(r) /\ pc' = "bind"
          ELSE Fail([r EXCEPT !.invoked = FALSE], "FAILED_SAFE")
    /\ UNCHANGED <<compiler, page, capture, stream, attempts, faults, used, tested>>

\* The compiler returns a payload: the claim is recorded, then its quote is grounded.  An
\* ungrounded quote raises a ClaimCompilationError of its own.
Compile ==
    /\ pc = "compile"
    /\ Payload \in Payloads
    /\ LET r == [run EXCEPT !.claim = NewClaim, !.invoked = Provenance]
       IN IF exact_quote_is_grounded(Payload.quote, capture)
          THEN Save(r) /\ pc' = "bind"
          ELSE Fail([r EXCEPT !.invoked = FALSE], "FAILED_SAFE")
    /\ UNCHANGED <<compiler, page, capture, stream, attempts, faults, used, tested>>

\* No schema-valid claim, no marker.
CompileRejects ==
    /\ pc = "compile"
    /\ Payload \notin Payloads
    /\ Fail([run EXCEPT !.invoked = Provenance], "FAILED_SAFE")
    /\ UNCHANGED <<compiler, page, capture, stream, attempts, faults, used, tested>>

\* Mutant: a failing stream forgets what it has shown.
CompileFails_forgets ==
    /\ pc = "compile" /\ compiler = "adk"
    /\ Fault
    /\ \E status \in Failures : Fail(run, status)
    /\ UNCHANGED <<compiler, page, capture, stream, attempts, used, tested>>

\* The deadline of the model is retryable, a failing stream is not.  Before the stream there
\* is no ClaimCompilationError: the provenance of the attempt before stays.
CompileFails ==
    /\ pc = "compile" /\ compiler = "adk"
    /\ Fault
    /\ \/ \E status \in Failures : Fail([run EXCEPT !.invoked = Provenance], status)
       \/ stream = Silence /\ Fail(run, "FAILED_SAFE")
    /\ UNCHANGED <<compiler, page, capture, stream, attempts, used, tested>>

\* Mutant: the fragments of the promise are not required.
can_bind_account_deletion_loosely(claim) == claim.fits

\* Every fragment that the control tests is in the quote, and the payload fits it.
can_bind_account_deletion(claim) == claim.fits /\ claim.quote \in Promises

\* An unbound claim is NOT_TESTED and goes to the action planner.
Bind ==
    /\ pc = "bind"
    /\ IF can_bind_account_deletion(run.claim)
       THEN /\ Save([run EXCEPT !.status = "BINDING", !.claim.control = TRUE])
            /\ pc' = "probe"
       ELSE /\ Save([run EXCEPT !.status = "ROUTING_ACTION"])
            /\ pc' = "idle"
    /\ UNCHANGED <<compiler, page, capture, stream, attempts, faults, used, tested>>

\* The deletion control runs: it leaves evidence, or the reference service is unavailable.
Probe ==
    /\ pc = "probe"
    /\ tested' = [claim |-> run.claim, capture |-> capture]
    /\ \/ Save([run EXCEPT !.status = "ROUTING_ACTION"]) /\ pc' = "idle" /\ UNCHANGED faults
       \/ Fault /\ \E status \in Failures : Fail(run, status)
    /\ UNCHANGED <<compiler, page, capture, stream, attempts, used>>

\* The worker stops; what it had not saved is lost.
Crash ==
    /\ pc \notin {"idle", "down"}
    /\ Fault
    /\ pc' = "down" /\ run' = store
    /\ UNCHANGED <<compiler, page, capture, stream, store, attempts, used, tested>>

\* The source is edited.
ChangePage ==
    /\ page' \in Pages \ {page}
    /\ UNCHANGED <<compiler, capture, stream, run, store, pc, attempts, faults, used, tested>>

Next ==
    \/ StartAttempt \/ Capture \/ StartCompile \/ Event \/ Compile \/ CompileRejects
    \/ CompileFails \/ Bind \/ Probe \/ Crash \/ ChangePage

Spec == Init /\ [][Next]_vars

-----------------------------------------------------------------------------
\* Where a page says a quote: in a marked claim, or anywhere if nothing is marked.
Says(source, quote) ==
    \/ quote \in {source.deletion, source.other} \ {NoQuote}
    \/ source.deletion = NoQuote /\ source.other = NoQuote /\ quote \in source.text

\* evaluation.md: "Exact promise missing from captured artifact: Reject claim; no probe".
\* The control only ever runs for a deletion promise that the page captured in the same
\* attempt says, whatever the model returned and whatever an earlier attempt left behind;
\* and no run, ended or resumable, shows a control on a claim that its source does not say.
TestedIsGrounded ==
    /\ tested.claim # NoClaim =>
          /\ tested.claim.page = tested.capture
          /\ Says(tested.capture, tested.claim.quote)
          /\ tested.claim.fits /\ tested.claim.quote \in Promises
    /\ \A r \in {run, store} : r.claim.control => Says(r.claim.page, r.claim.quote)

\* test_workflow.py: "failed model output preserves attempt and invocation provenance".  No
\* run says that a model was invoked unless one answered in this or an earlier attempt, and
\* a run that failed after the model had answered says so, unless the failure is a quote
\* that the page does not say, whose error carries no provenance.
ProvenanceKept ==
    /\ \A r \in {run, store} : r.invoked => used /\ r.attempted
    /\ /\ store.status \in Failures /\ stream.saw
       /\ Payload \in Payloads => Says(capture, Payload.quote)
       => store.invoked
=============================================================================
