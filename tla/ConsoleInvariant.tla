-------------------------- MODULE ConsoleInvariant --------------------------
(***************************************************************************)
(* The inductive invariant behind the safety properties of                 *)
(* ConsoleDashboard.  AuditServiceProofs proves it: the console is the     *)
(* caller that repeats a key to the audit service.                         *)
(***************************************************************************)
EXTENDS ConsoleDashboard

\* What the handlers may rely on: a request is open only in the state that waits for it,
\* and the poll while a POST is open returns the run of its key.
TabInv ==
    /\ loaded # Nothing => loading
    /\ \A h \in Handlers :
          /\ pc[h] # "idle" => key[h] \in AllKeys
          /\ post[h] # Nothing <=> pc[h] = "posting"
          /\ reply[h] # Nothing => pc[h] # "idle"
          /\ pc[h] = "posting" /\ reply[h] # Nothing =>
                reply[h] \in Snapshots /\ reply[h].key = key[h]

\* The run that a POST returned.
Answered(h) == post[h] \notin {Nothing, Sent, Arrived, Failed}

\* The run that started last, and every run that a request returned, has been created.
CreatedInv ==
    /\ latest # None => runs[latest] # "absent"
    /\ loaded.key # None => loaded.status # "absent"
    /\ \A h \in Handlers :
          /\ reply[h].key # None => reply[h].status # "absent"
          /\ post[h] = Arrived => runs[key[h]] # "absent"
          /\ Answered(h) => post[h].key = key[h] /\ post[h].status # "absent"

\* What a request says to be over is over as long as no finished run is written again.
StaysOver(r) == r.status = "over" => runs[r.key] = "over"

OverInv ==
    ~reopened => StaysOver(loaded) /\ \A h \in Handlers : StaysOver(reply[h]) /\ StaysOver(post[h])

\* The run of k is unfinished, or a POST may still create it.
Live(k) ==
    /\ runs[k] # "over"
    /\ \/ runs[k] # "absent" \/ k \in strays
       \/ \E h \in Handlers : post[h] = Sent /\ key[h] = k

\* The premise of OneUnfinishedRun.
Quiet == Alone /\ ~reopened /\ ~crossed

Unsettled(r) == r.status \in {"working", "retryable"}

\* Every live run is the pending one.  The open clicks have one key, no other key is pending
\* while one of them is open, and no other unfinished run is on its way to a handler that
\* would make it the pending one.
PendingInv ==
    Quiet =>
      /\ \A k \in AllKeys : Live(k) => pending = k
      /\ Unsettled(loaded) => pending \in {None, loaded.key}
      /\ \A h \in Handlers : pc[h] # "idle" =>
            /\ pending \in {None, key[h]}
            /\ \A g \in Handlers : pc[g] # "idle" => key[g] = key[h]
            /\ Unsettled(loaded) => loaded.key = key[h]
            /\ Unsettled(reply[h]) => reply[h].key = key[h]

\* As long as no click came while another one was open: the open click has its key pending
\* and no load next to it.
RetryInv ==
    ~doubled =>
      /\ loading => shown = NoRun
      /\ shown.status = "retryable" => pending = shown.key
      /\ \A h \in Handlers : pc[h] # "idle" =>
            /\ ~loading /\ ~error /\ pending = key[h]
            /\ \A g \in Handlers : pc[g] # "idle" => g = h

ConsoleInv == TypeOK /\ TabInv /\ CreatedInv /\ OverInv /\ PendingInv /\ RetryInv
=============================================================================
