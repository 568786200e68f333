----------------------- MODULE GitHubConnectionProofs -----------------------
(* Theorems about the GitHub connection, for any number of handoffs, requests and runs. *)
EXTENDS GitHubConnection, FiniteSetTheorems, TLAPS

\* What is known of a handoff: its OAuth state exists only between the exchange of its
\* install state and the one callback that is let in.
FlowOK(f) ==
    /\ <<f, "install">> \in states => asked[f] = None
    /\ <<f, "oauth">> \in states => asked[f] # None /\ accepted[f] = 0
    /\ asked[f] = None => accepted[f] = 0

ConnInv ==
    /\ TypeOK
    /\ \A f \in Flows : FlowOK(f)
    /\ StateUsedOnce
    /\ SelectionListed
    /\ ConnectionVerified
    /\ PublishesThroughVerified

\* There is no handoff and no connection at the start.
LEMMA ConnInit == Init => ConnInv
<1> SUFFICES ASSUME Init PROVE ConnInv
  OBVIOUS
<1>1. TypeOK
  BY BoundAssumption DEF Init, TypeOK, Connections, NoConnection
<1>2. \A f \in Flows : FlowOK(f)
  BY DEF Init, FlowOK
<1>3. StateUsedOnce
  BY DEF Init, StateUsedOnce
<1>4. SelectionListed /\ ConnectionVerified /\ PublishesThroughVerified
  BY DEF Init, SelectionListed, ConnectionVerified, PublishesThroughVerified, NoConnection
<1> QED BY <1>1, <1>2, <1>3, <1>4 DEF ConnInv

-----------------------------------------------------------------------------
(* One conjunct of the invariant at a time. *)

\* Every step keeps the types.
LEMMA TypeStep ==
    ASSUME ConnInv, Next
    PROVE  TypeOK'
<1> USE BoundAssumption, NoneAssumption
<1>0. TypeOK /\ \A f \in Flows : FlowOK(f)
  BY DEF ConnInv
<1>1. ASSUME NEW f \in Flows, InstallUrl(f) PROVE TypeOK'
  BY <1>0, <1>1 DEF InstallUrl, TypeOK, github, Kinds
<1>2. ASSUME NEW f \in Flows, NEW i \in Installations, OAuthUrl(f, i) PROVE TypeOK'
  BY <1>0, <1>2 DEF OAuthUrl, Consume, TypeOK, github, Kinds
<1>3. ASSUME NEW f \in Flows, NEW kind \in Kinds, WrongEndpoint(f, kind) \/ Expire(<<f, kind>>)
      PROVE  TypeOK'
  BY <1>0, <1>3 DEF WrongEndpoint, Expire, TypeOK, github
<1>4. ASSUME NEW f \in Flows, NEW c \in Callbacks, BeginCallback(c, f) PROVE TypeOK'
  <2>1. asked[f] \in Installations
    BY <1>0, <1>4 DEF BeginCallback, FlowOK, TypeOK
  <2>2. /\ states' \subseteq Flows \X Kinds
        /\ pc' \in [Callbacks -> {"idle", "verify", "list"}]
        /\ pending' \in [Callbacks -> Installations \cup {None}]
        /\ \A d \in Callbacks : pc'[d] # "idle" => pending'[d] # None
    BY <1>0, <1>4, <2>1 DEF BeginCallback, Consume, TypeOK
  <2>3. accepted' \in [Flows -> Nat]
    BY <1>0, <1>4 DEF BeginCallback, TypeOK
  <2>4. UNCHANGED <<expired, asked, connection, access, archived, changes, bound, gate, verified>>
    BY <1>4 DEF BeginCallback, github
  <2> QED BY <1>0, <2>2, <2>3, <2>4 DEF TypeOK
<1>5. ASSUME NEW c \in Callbacks, CallbackFails(c) \/ VerifyInstallation(c) PROVE TypeOK'
  BY <1>0, <1>5 DEF CallbackFails, VerifyInstallation, TypeOK, github
<1>6. ASSUME NEW c \in Callbacks, SaveConnection(c) PROVE TypeOK'
  <2>1. pending[c] \in Installations /\ ListedFor(pending[c]) \subseteq Repositories
    BY <1>0, <1>6 DEF SaveConnection, TypeOK, ListedFor
  <2>2. Selection(ListedFor(pending[c])) \in Repositories \cup {None}
    <3> DEFINE open == ListedFor(pending[c]) \ archived
    <3>1. CASE Cardinality(open) = 1
      <4>1. open # {}
        BY <3>1, FS_EmptySet
      <4>2. (CHOOSE r \in open : TRUE) \in open
        BY <4>1
      <4> QED BY <2>1, <3>1, <4>2 DEF Selection
    <3>2. CASE Cardinality(open) # 1
      BY <3>2 DEF Selection
    <3> QED BY <3>1, <3>2
  <2>3. /\ connection' \in Connections /\ connection'.archived \subseteq connection'.repositories
        /\ verified' \in [Installations -> SUBSET Repositories]
        /\ pc' \in [Callbacks -> {"idle", "verify", "list"}]
        /\ \A d \in Callbacks : pc'[d] # "idle" => pending[d] # None
    BY <1>0, <1>6, <2>1, <2>2 DEF SaveConnection, TypeOK, Connections
  <2> QED BY <1>0, <1>6, <2>3 DEF SaveConnection, TypeOK, github
<1>7. ASSUME NEW r \in Repositories, Select(r) PROVE TypeOK'
  BY <1>0, <1>7 DEF Select, Selectable, TypeOK, Connections, github
<1>8. CASE Disconnect
  BY <1>0, <1>8 DEF Disconnect, NoConnection, TypeOK, Connections, github
<1>9. ASSUME NEW x \in Runs, BindRun(x) \/ Publish(x) PROVE TypeOK'
  <2>1. connection.selected \in Repositories \cup {None}
        /\ connection.installation \in Installations \cup {None}
    BY <1>0 DEF TypeOK, Connections, NoConnection
  <2> QED BY <1>0, <1>9, <2>1 DEF BindRun, Publish, TypeOK, github
<1>10. CASE ChangeGitHub
  BY <1>0, <1>10 DEF ChangeGitHub, TypeOK
<1> QED BY <1>1, <1>2, <1>3, <1>4, <1>5, <1>6, <1>7, <1>8, <1>9, <1>10 DEF Next

\* Every step keeps what is known of the handoffs, and lets in one callback at most.
LEMMA FlowStep ==
    ASSUME ConnInv, Next
    PROVE  (\A f \in Flows : FlowOK(f))' /\ StateUsedOnce'
<1>0. /\ TypeOK /\ StateUsedOnce /\ \A f \in Flows : FlowOK(f)
      /\ asked \in [Flows -> Installations \cup {None}] /\ accepted \in [Flows -> Nat]
      /\ None \notin Installations
  BY NoneAssumption DEF ConnInv, TypeOK
<1>q. ASSUME states' \subseteq states, UNCHANGED <<asked, accepted>>
      PROVE  (\A f \in Flows : FlowOK(f))' /\ StateUsedOnce'
  BY <1>0, <1>q DEF FlowOK, StateUsedOnce
<1>1. ASSUME NEW f \in Flows, InstallUrl(f)
      PROVE  (\A g \in Flows : FlowOK(g))' /\ StateUsedOnce'
  BY <1>0, <1>1 DEF InstallUrl, FlowOK, StateUsedOnce
<1>2. ASSUME NEW f \in Flows, NEW i \in Installations, OAuthUrl(f, i)
      PROVE  (\A g \in Flows : FlowOK(g))' /\ StateUsedOnce'
  <2>1. CASE ~Valid(<<f, "install">>)
    BY <1>q, <1>2, <2>1 DEF OAuthUrl, Consume
  <2>2. CASE Valid(<<f, "install">>)
    <3>1. /\ states' = (states \ {<<f, "install">>}) \cup {<<f, "oauth">>}
          /\ asked' = [asked EXCEPT ![f] = i] /\ accepted' = accepted
          /\ asked[f] = None /\ accepted[f] = 0
      BY <1>0, <1>2, <2>2 DEF OAuthUrl, FlowOK
    <3>2. ASSUME NEW g \in Flows PROVE FlowOK(g)'
      <4>1. CASE g = f
        <5>1. asked'[f] = i /\ i # None /\ accepted'[f] = 0
          BY <1>0, <3>1
        <5>2. <<f, "install">> \notin states'
          BY <3>1
        <5> QED BY <4>1, <5>1, <5>2 DEF FlowOK
      <4>2. CASE g # f
        <5>1. asked'[g] = asked[g] /\ accepted'[g] = accepted[g] /\ FlowOK(g)
          BY <1>0, <3>1, <4>2
        <5>2. \A kind \in Kinds : <<g, kind>> \in states' <=> <<g, kind>> \in states
          BY <3>1, <4>2
        <5> QED BY <5>1, <5>2 DEF FlowOK, Kinds
      <4> QED BY <4>1, <4>2
    <3> QED BY <1>0, <3>1, <3>2 DEF StateUsedOnce
  <2> QED BY <2>1, <2>2
<1>3. ASSUME NEW c \in Callbacks, NEW f \in Flows, BeginCallback(c, f)
      PROVE  (\A g \in Flows : FlowOK(g))' /\ StateUsedOnce'
  <2>1. CASE ~Valid(<<f, "oauth">>)
    BY <1>q, <1>3, <2>1 DEF BeginCallback, Consume
  <2>2. CASE Valid(<<f, "oauth">>)
    <3>1. /\ states' = states \ {<<f, "oauth">>} /\ asked' = asked
          /\ accepted' = [accepted EXCEPT ![f] = accepted[f] + 1]
          /\ asked[f] # None /\ accepted[f] = 0
      BY <1>0, <1>3, <2>2 DEF BeginCallback, Consume, FlowOK
    <3>2. \A g \in Flows : accepted'[g] = IF g = f THEN 1 ELSE accepted[g]
      BY <1>0, <3>1
    <3>3. ASSUME NEW g \in Flows PROVE FlowOK(g)'
      <4>1. CASE g = f
        BY <1>0, <3>1, <4>1 DEF FlowOK
      <4>2. CASE g # f
        BY <1>0, <3>1, <3>2, <4>2 DEF FlowOK
      <4> QED BY <4>1, <4>2
    <3> QED BY <1>0, <3>2, <3>3 DEF StateUsedOnce
  <2> QED BY <2>1, <2>2
<1>4. ASSUME NEW f \in Flows, NEW kind \in Kinds, WrongEndpoint(f, kind) \/ Expire(<<f, kind>>)
      PROVE  (\A g \in Flows : FlowOK(g))' /\ StateUsedOnce'
  BY <1>q, <1>4 DEF WrongEndpoint, Expire
<1>5. ASSUME NEW c \in Callbacks, CallbackFails(c) \/ VerifyInstallation(c) \/ SaveConnection(c)
      PROVE  (\A g \in Flows : FlowOK(g))' /\ StateUsedOnce'
  BY <1>q, <1>5 DEF CallbackFails, VerifyInstallation, SaveConnection
<1>6. CASE \/ \E r \in Repositories : Select(r)
           \/ \E x \in Runs : BindRun(x) \/ Publish(x)
           \/ Disconnect \/ ChangeGitHub
  BY <1>q, <1>6 DEF Select, BindRun, Publish, Disconnect, ChangeGitHub
<1> QED BY <1>1, <1>2, <1>3, <1>4, <1>5, <1>6 DEF Next

\* What GitHub listed is remembered by the history, and so are the runs' bindings.
LEMMA HistoryGrows ==
    ASSUME ConnInv, Next
    PROVE  \A i \in Installations : verified[i] \subseteq verified'[i]
<1>0. TypeOK
  BY DEF ConnInv
<1>1. ASSUME NEW c \in Callbacks, SaveConnection(c)
      PROVE  \A i \in Installations : verified[i] \subseteq verified'[i]
  BY <1>0, <1>1 DEF SaveConnection, TypeOK
<1>2. CASE UNCHANGED verified
  BY <1>2
<1> QED
  BY <1>1, <1>2 DEF Next, InstallUrl, OAuthUrl, WrongEndpoint, Expire, BeginCallback,
     CallbackFails, VerifyInstallation, Select, BindRun, Publish, Disconnect, ChangeGitHub

\* A new connection is listed by GitHub and selects what it lists.
LEMMA SavedIsVerified ==
    ASSUME ConnInv, NEW c \in Callbacks, SaveConnection(c)
    PROVE  SelectionListed' /\ ConnectionVerified'
<1> DEFINE listed == ListedFor(pending[c])
<1>0. /\ TypeOK /\ pending[c] \in Installations
      /\ connection' = [installation |-> pending[c], repositories |-> listed,
                        archived |-> listed \cap archived, selected |-> Selection(listed)]
      /\ verified' = [verified EXCEPT ![pending[c]] = @ \cup access[pending[c]]]
  BY DEF ConnInv, SaveConnection, TypeOK
<1>1. Selection(listed) # None => Selection(listed) \in listed \ (listed \cap archived)
  <2> DEFINE open == listed \ archived
  <2>1. CASE Cardinality(open) = 1
    <3>1. open # {}
      BY <2>1, FS_EmptySet
    <3>2. (CHOOSE r \in open : TRUE) \in open
      BY <3>1
    <3> QED BY <2>1, <3>2 DEF Selection
  <2>2. CASE Cardinality(open) # 1
    BY <2>2 DEF Selection
  <2> QED BY <2>1, <2>2
<1>2. SelectionListed'
  BY <1>0, <1>1 DEF SelectionListed
<1>3. listed \subseteq verified'[pending[c]]
  BY <1>0 DEF ListedFor, TypeOK
<1> QED BY <1>0, <1>2, <1>3 DEF ConnectionVerified

\* Every step keeps the connection verified and its selection listed.
LEMMA ConnectionStep ==
    ASSUME ConnInv, Next
    PROVE  SelectionListed' /\ ConnectionVerified'
<1>0. TypeOK /\ SelectionListed /\ ConnectionVerified /\ NoConnection.repositories = {}
      /\ NoConnection.selected = None
      /\ \A i \in Installations : verified[i] \subseteq verified'[i]
  BY HistoryGrows DEF ConnInv, NoConnection
<1>i. connection # NoConnection => connection.installation \in Installations
  BY <1>0 DEF TypeOK, Connections
<1>1. CASE UNCHANGED connection
  BY <1>0, <1>i, <1>1 DEF SelectionListed, ConnectionVerified
<1>2. ASSUME NEW r \in Repositories, Select(r)
      PROVE  SelectionListed' /\ ConnectionVerified'
  <2>1. /\ connection'.installation = connection.installation
        /\ connection'.repositories = connection.repositories
        /\ connection'.archived = connection.archived /\ connection'.selected = r
        /\ connection # NoConnection /\ r \in connection.repositories \ connection.archived
    BY <1>0, <1>2 DEF Select, Selectable, TypeOK, Connections
  <2> QED BY <1>0, <1>i, <2>1 DEF SelectionListed, ConnectionVerified
<1>3. CASE Disconnect
  BY <1>0, <1>3 DEF Disconnect, SelectionListed, ConnectionVerified
<1>4. ASSUME NEW c \in Callbacks, SaveConnection(c)
      PROVE  SelectionListed' /\ ConnectionVerified'
  BY <1>4, SavedIsVerified
<1> QED
  BY <1>1, <1>2, <1>3, <1>4 DEF Next, InstallUrl, OAuthUrl, WrongEndpoint, Expire,
     BeginCallback, CallbackFails, VerifyInstallation, BindRun, Publish, ChangeGitHub

\* Every step keeps the publications verified.
LEMMA PublishStep ==
    ASSUME ConnInv, Next
    PROVE  PublishesThroughVerified'
<1>0. /\ TypeOK /\ ConnectionVerified /\ PublishesThroughVerified
      /\ \A i \in Installations : verified[i] \subseteq verified'[i]
      /\ None \notin Repositories /\ None \notin Installations
      /\ bound \in [Runs -> Repositories \cup {None}]
      /\ gate \in [Runs -> Installations \cup {None}]
      /\ verified \in [Installations -> SUBSET Repositories]
  BY HistoryGrows, NoneAssumption DEF ConnInv, TypeOK
<1>1. CASE UNCHANGED <<bound, gate>>
  BY <1>0, <1>1 DEF PublishesThroughVerified
<1>2. ASSUME NEW x \in Runs, BindRun(x)
      PROVE  PublishesThroughVerified'
  <2>1. gate[x] = None
    BY <1>0, <1>2 DEF BindRun, PublishesThroughVerified
  <2> QED BY <1>0, <1>2, <2>1 DEF BindRun, PublishesThroughVerified
<1>3. ASSUME NEW x \in Runs, Publish(x)
      PROVE  PublishesThroughVerified'
  <2>1. bound[x] \in connection.repositories /\ connection # NoConnection
    BY <1>3 DEF Publish, MayPublish, Selectable, NoConnection
  <2>2. connection.installation \in Installations
        /\ bound[x] \in verified[connection.installation]
    BY <1>0, <2>1 DEF ConnectionVerified, TypeOK, Connections
  <2> QED BY <1>0, <1>3, <2>2 DEF Publish, PublishesThroughVerified
<1> QED
  BY <1>1, <1>2, <1>3 DEF Next, InstallUrl, OAuthUrl, WrongEndpoint, Expire, BeginCallback,
     CallbackFails, VerifyInstallation, SaveConnection, Select, Disconnect, ChangeGitHub

\* Every step keeps the invariant.
LEMMA ConnStep ==
    ASSUME ConnInv, [Next]_vars
    PROVE  ConnInv'
<1>1. CASE Next
  BY <1>1, TypeStep, FlowStep, ConnectionStep, PublishStep DEF ConnInv
<1>2. CASE UNCHANGED vars
  BY <1>2 DEF vars, github, ConnInv, TypeOK, FlowOK, StateUsedOnce, SelectionListed,
              ConnectionVerified, PublishesThroughVerified
<1> QED BY <1>1, <1>2

-----------------------------------------------------------------------------
\* However often an OAuth state is presented, one callback at most is let in.
THEOREM StatesAreUsedOnce == Spec => []StateUsedOnce
<1>1. ConnInv => StateUsedOnce
  BY DEF ConnInv
<1> QED BY <1>1, ConnInit, ConnStep, PTL DEF Spec

\* The selected repository is listed by the same connection and not archived there.
THEOREM SelectionsAreListed == Spec => []SelectionListed
<1>1. ConnInv => SelectionListed
  BY DEF ConnInv
<1> QED BY <1>1, ConnInit, ConnStep, PTL DEF Spec

\* A connection only lists what GitHub listed for its own installation.
THEOREM ConnectionsAreVerified == Spec => []ConnectionVerified
<1>1. ConnInv => ConnectionVerified
  BY DEF ConnInv
<1> QED BY <1>1, ConnInit, ConnStep, PTL DEF Spec

\* A run publishes through an installation that was verified for its own repository, although
\* connections are replaced, dropped and saved late.
THEOREM PublicationsAreVerified == Spec => []PublishesThroughVerified
<1>1. ConnInv => PublishesThroughVerified
  BY DEF ConnInv
<1> QED BY <1>1, ConnInit, ConnStep, PTL DEF Spec

\* Every reachable state is well typed: a callback that waits for GitHub has an installation.
THEOREM TypeCorrect == Spec => []TypeOK
<1>1. ConnInv => TypeOK
  BY DEF ConnInv
<1> QED BY <1>1, ConnInit, ConnStep, PTL DEF Spec
=============================================================================
