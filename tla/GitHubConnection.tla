-------------------------- MODULE GitHubConnection --------------------------
(***************************************************************************)
(* The GitHub connection of the agent (github.py): one-time states of the  *)
(* install and OAuth handoff, the callback that verifies an installation   *)
(* and saves the one active connection, the repository selection, and the  *)
(* two places that rely on it: a run is bound to the selected repository   *)
(* when it is created and publishes there if the connection still lists it.*)
(*                                                                         *)
(* Callbacks await GitHub between consuming their state and saving the     *)
(* connection, so selections, disconnects and other callbacks interleave.  *)
(***************************************************************************)
EXTENDS Naturals, FiniteSets

CONSTANTS
    Flows,          \* handoffs started by install_url; a state is random and never reused
    Callbacks,      \* requests that present an OAuth state, the same one more than once too
    Installations,
    Repositories,
    Runs,
    None,
    MaxChanges      \* bound on what owners change on GitHub

ASSUME NoneAssumption == None \notin Installations \cup Repositories \cup Flows
ASSUME BoundAssumption == MaxChanges \in Nat

VARIABLES
    states,      \* unconsumed one-time states: <<flow, kind>>
    expired,     \* the states older than CONNECTION_TTL_SECONDS
    asked,       \* the installation each flow's OAuth state is for
    connection,  \* the active connection
    access,      \* GitHub: the repositories of each installation the user may administer
    archived,    \* GitHub: archived repositories
    pc,          \* the await at which each callback stands
    pending,     \* the flow and the installation each callback consumed
    bound,       \* run.repository
    gate,        \* the installation through which each run publishes
    changes,
    accepted,    \* history: callbacks that were let in for each flow
    verified     \* history: the repositories GitHub listed for each installation

github == <<access, archived, changes>>
vars == <<states, expired, asked, connection, github, pc, pending, bound, gate,
          accepted, verified>>

Kinds == {"install", "oauth"}

NoConnection ==
    [installation |-> None, repositories |-> {}, archived |-> {}, selected |-> None]

Connections ==
    [installation : Installations, repositories : SUBSET Repositories,
     archived : SUBSET Repositories, selected : Repositories \cup {None}] \cup {NoConnection}

TypeOK ==
    /\ states \subseteq Flows \X Kinds /\ expired \subseteq Flows \X Kinds
    /\ asked \in [Flows -> Installations \cup {None}]
    /\ connection \in Connections
    /\ connection.archived \subseteq connection.repositories
    /\ access \in [Installations -> SUBSET Repositories]
    /\ archived \subseteq Repositories
    /\ pc \in [Callbacks -> {"idle", "verify", "list"}]
    /\ pending \in [Callbacks -> Installations \cup {None}]
    /\ \A c \in Callbacks : pc[c] # "idle" => pending[c] # None
    /\ bound \in [Runs -> Repositories \cup {None}]
    /\ gate \in [Runs -> Installations \cup {None}]
    /\ changes \in 0 .. MaxChanges
    /\ accepted \in [Flows -> Nat]
    /\ verified \in [Installations -> SUBSET Repositories]

Init ==
    /\ states = {} /\ expired = {}
    /\ asked = [f \in Flows |-> None]
    /\ connection = NoConnection
    /\ access \in [Installations -> SUBSET Repositories]
    /\ archived \in SUBSET Repositories
    /\ pc = [c \in Callbacks |-> "idle"]
    /\ pending = [c \in Callbacks |-> None]
    /\ bound = [x \in Runs |-> None]
    /\ gate = [x \in Runs |-> None]
    /\ changes = 0
    /\ accepted = [f \in Flows |-> 0]
    /\ verified = [i \in Installations |-> {}]

-----------------------------------------------------------------------------
(* One-time states *)

Valid(state) == state \in states /\ state \notin expired

\* Mutant: a state is looked up and stays.
Consume_peek(state) == states' = states

\* consume_install_state and consume_oauth_state delete the state whether or not it is
\* still valid.
Consume(state) == states' = states \ {state}

\* install_url starts a handoff.
InstallUrl(f) ==
    /\ asked[f] = None /\ <<f, "install">> \notin states
    /\ states' = states \cup {<<f, "install">>}
    /\ UNCHANGED <<expired, asked, connection, github, pc, pending, bound, gate, accepted,
                   verified>>

\* oauth_url: the browser brings back the install state and an installation.
OAuthUrl(f, i) ==
    /\ <<f, "install">> \in states
    /\ IF Valid(<<f, "install">>)
       THEN /\ states' = (states \ {<<f, "install">>}) \cup {<<f, "oauth">>}
            /\ asked' = [asked EXCEPT ![f] = i]
       ELSE Consume(<<f, "install">>) /\ UNCHANGED asked
    /\ UNCHANGED <<expired, connection, github, pc, pending, bound, gate, accepted, verified>>

\* A state presented to the wrong endpoint is deleted by the Firestore store, which keeps
\* both kinds in one collection, and ignored by the in-memory one.
WrongEndpoint(f, kind) ==
    /\ <<f, kind>> \in states
    /\ states' \in {states, states \ {<<f, kind>>}}
    /\ UNCHANGED <<expired, asked, connection, github, pc, pending, bound, gate, accepted,
                   verified>>

Expire(state) ==
    /\ state \in states \ expired
    /\ expired' = expired \cup {state}
    /\ UNCHANGED <<states, asked, connection, github, pc, pending, bound, gate, accepted,
                   verified>>

-----------------------------------------------------------------------------
(* complete_oauth *)

BeginCallback(c, f) ==
    /\ pc[c] = "idle"
    /\ <<f, "oauth">> \in states
    /\ Consume(<<f, "oauth">>)
    /\ IF Valid(<<f, "oauth">>)
       THEN /\ pc' = [pc EXCEPT ![c] = "verify"]
            /\ pending' = [pending EXCEPT ![c] = asked[f]]
            /\ accepted' = [accepted EXCEPT ![f] = @ + 1]
       ELSE UNCHANGED <<pc, pending, accepted>>
    /\ UNCHANGED <<expired, asked, connection, github, bound, gate, verified>>

\* The exchange fails, or the user does not administer the installation.
CallbackFails(c) ==
    /\ pc[c] # "idle"
    /\ pc' = [pc EXCEPT ![c] = "idle"]
    /\ UNCHANGED <<states, expired, asked, connection, github, pending, bound, gate,
                   accepted, verified>>

\* The code is exchanged and the user's installations include the one asked for.
VerifyInstallation(c) ==
    /\ pc[c] = "verify"
    /\ access[pending[c]] # {}
    /\ pc' = [pc EXCEPT ![c] = "list"]
    /\ UNCHANGED <<states, expired, asked, connection, github, pending, bound, gate,
                   accepted, verified>>

\* GET /user/installations/{id}/repositories.
ListedFor(i) == access[i]

\* A repository is selected if it is the only one that can be.
Selection(repositories) ==
    IF Cardinality(repositories \ archived) = 1
    THEN CHOOSE r \in repositories \ archived : TRUE ELSE None

\* The repositories are listed and the connection is saved over whatever is there.
SaveConnection(c) ==
    LET listed == ListedFor(pending[c])
    IN /\ pc[c] = "list"
       /\ listed # {}
       /\ connection' = [installation |-> pending[c], repositories |-> listed,
                         archived |-> listed \cap archived, selected |-> Selection(listed)]
       /\ verified' = [verified EXCEPT ![pending[c]] = @ \cup access[pending[c]]]
       /\ pc' = [pc EXCEPT ![c] = "idle"]
       /\ UNCHANGED <<states, expired, asked, github, pending, bound, gate, accepted>>

-----------------------------------------------------------------------------
(* Selection, disconnect and their users *)

Selectable == connection.repositories \ connection.archived

\* select, one transaction on the active connection.
Select(r) ==
    /\ connection # NoConnection
    /\ r \in Selectable
    /\ connection' = [connection EXCEPT !.selected = r]
    /\ UNCHANGED <<states, expired, asked, github, pc, pending, bound, gate, accepted,
                   verified>>

Disconnect ==
    /\ connection' = NoConnection
    /\ UNCHANGED <<states, expired, asked, github, pc, pending, bound, gate, accepted,
                   verified>>

\* create_run binds a new run to the selected repository.
BindRun(x) ==
    /\ bound[x] = None
    /\ connection.selected # None
    /\ bound' = [bound EXCEPT ![x] = connection.selected]
    /\ UNCHANGED <<states, expired, asked, connection, github, pc, pending, gate, accepted,
                   verified>>

\* Mutant: the run's repository is not looked up in the connection.
MayPublish_bound(x) == connection # NoConnection /\ bound[x] # None

\* publish_issue and _bound_repository: the connection of now must list the repository of
\* the run, not archived.
MayPublish(x) == bound[x] # None /\ bound[x] \in Selectable

Publish(x) ==
    /\ MayPublish(x)
    /\ gate' = [gate EXCEPT ![x] = connection.installation]
    /\ UNCHANGED <<states, expired, asked, connection, github, pc, pending, bound, accepted,
                   verified>>

\* Owners add, remove and archive repositories.
ChangeGitHub ==
    /\ changes < MaxChanges /\ changes' = changes + 1
    /\ \/ \E i \in Installations, repositories \in SUBSET Repositories :
             access' = [access EXCEPT ![i] = repositories] /\ UNCHANGED archived
       \/ archived' \in SUBSET Repositories /\ UNCHANGED access
    /\ UNCHANGED <<states, expired, asked, connection, pc, pending, bound, gate, accepted,
                   verified>>

Next ==
    \/ \E f \in Flows :
          \/ InstallUrl(f)
          \/ \E i \in Installations : OAuthUrl(f, i)
          \/ \E kind \in Kinds : WrongEndpoint(f, kind) \/ Expire(<<f, kind>>)
          \/ \E c \in Callbacks : BeginCallback(c, f)
    \/ \E c \in Callbacks : CallbackFails(c) \/ VerifyInstallation(c) \/ SaveConnection(c)
    \/ \E r \in Repositories : Select(r)
    \/ \E x \in Runs : BindRun(x) \/ Publish(x)
    \/ Disconnect \/ ChangeGitHub

Spec == Init /\ [][Next]_vars

-----------------------------------------------------------------------------
\* architecture.md: "single-use install/OAuth state".  However often an OAuth state is
\* presented, and by however many requests at once, one callback at most is let in.
StateUsedOnce == \A f \in Flows : accepted[f] <= 1

\* The selected repository is one that the same connection lists as not archived, however
\* selections, disconnects and callbacks of several handoffs interleave.
SelectionListed ==
    connection.selected # None =>
        connection.selected \in connection.repositories \ connection.archived

\* A connection only lists repositories that GitHub listed for its own installation.
ConnectionVerified ==
    connection # NoConnection =>
        connection.repositories \subseteq verified[connection.installation]

\* A run publishes through an installation that was verified for the run's own repository,
\* although the connection may have been replaced since the run was bound to it.
PublishesThroughVerified ==
    \A x \in Runs : gate[x] # None => bound[x] \in verified[gate[x]]
=============================================================================
