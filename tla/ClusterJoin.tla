----------------------------- MODULE ClusterJoin -----------------------------
(***************************************************************************)
(* How registries form a cluster: main (registry/main.go) loads the token  *)
(* (registry/state/state.go), has itself added to the cluster through the  *)
(* registry at JOIN_URL (registry/peer_api), asks that registry for the    *)
(* members, starts the embedded etcd with them (registry/etcd/etcd.go) and *)
(* serves.  Every start takes all of these steps, the first one and those  *)
(* after a crash; a step that fails ends the process, which its supervisor *)
(* starts again.                                                           *)
(*                                                                         *)
(* Of etcd the model keeps the members, who runs, and the one change of    *)
(* the members that its log may hold.  A cluster is named by its founder.  *)
(***************************************************************************)
EXTENDS Naturals, FiniteSets

CONSTANTS
    Registry,
    JoinUrl,     \* the registry each one joins, None for the founder
    None,        \* not set, no file, no data
    Torn,        \* a token file that was created and not written
    MaxTokens,   \* bound: tokens made up
    MaxFaults,   \* bound: crashes, failed writes, expiries, starts that take over a minute
    MaxGone      \* bound: registries that are given up

\* The one registry that joins no other.
Founder == CHOOSE r \in Registry : JoinUrl[r] = None

ASSUME JoinAssumption ==
    /\ JoinUrl \in [Registry -> Registry \cup {None}]
    /\ \E f \in Registry : \A r \in Registry : JoinUrl[r] = None <=> r = f
\* caller: the process that waits for the change still does.
Change == [type : {"add", "update"}, registry : Registry, cluster : Registry, caller : BOOLEAN]

ASSUME NoneAssumption ==
    None \notin Registry \cup Change \cup Nat /\ Torn \notin Nat \cup {None}

ASSUME BoundsAssumption == {MaxTokens, MaxFaults, MaxGone} \subseteq Nat

VARIABLES
    tokenFile,     \* the token file of each registry
    InitialToken,  \* its TOKEN or TOKEN_FILE
    token,         \* the token of its present or last process
    issued,        \* the tokens made up so far
    data,          \* the cluster its etcd directory belongs to
    pc,            \* the step of main it is at
    peers,         \* what GetPeers told it
    members,       \* the members of each cluster
    pending,       \* the change of the members in etcd's log
    expired,       \* the registries that have run longer than their certificate is valid
    unsaved,       \* the registries that failed to save a token
    gone,          \* the registries that are not started any more
    faults

files == <<tokenFile, InitialToken, token, issued, unsaved>>
etcd == <<data, members>>
vars == <<tokenFile, InitialToken, token, issued, data, pc, peers, members, pending,
          expired, unsaved, gone, faults>>

Token == 1 .. MaxTokens

Step == {"down", "joining", "adding", "added", "asking", "starting", "waiting",
         "updating", "updated", "up"}

\* The etcd of the registry runs.
Running(r) == pc[r] \in {"waiting", "updating", "updated", "up"}

TypeOK ==
    /\ tokenFile \in [Registry -> Token \cup {None, Torn}]
    /\ InitialToken \in [Registry -> Token \cup {None}]
    /\ token \in [Registry -> Token \cup {None}]
    /\ issued \in 0 .. MaxTokens
    /\ data \in [Registry -> Registry \cup {None}]
    /\ pc \in [Registry -> Step]
    /\ peers \in [Registry -> SUBSET Registry]
    /\ members \in [Registry -> SUBSET Registry]
    /\ pending \in Change \cup {None}
    /\ expired \subseteq {r \in Registry : pc[r] = "up"}
    /\ unsaved \subseteq Registry /\ gone \subseteq Registry
    /\ faults \in 0 .. MaxFaults
    /\ \A r \in Registry : data[r] # None => r \in members[data[r]]

Init ==
    /\ tokenFile = [r \in Registry |-> None]
    /\ InitialToken = [r \in Registry |-> None]
    /\ token = [r \in Registry |-> None]
    /\ issued = 0
    /\ data = [r \in Registry |-> None]
    /\ pc = [r \in Registry |-> "down"]
    /\ peers = [r \in Registry |-> {}]
    /\ members = [r \in Registry |-> {}]
    /\ pending = None
    /\ expired = {} /\ unsaved = {} /\ gone = {} /\ faults = 0

Fault == faults < MaxFaults /\ faults' = faults + 1

Goto(r, step) == pc' = [pc EXCEPT ![r] = step]

\* Fault: the peer API is only served once etcd is ready.
ServesPeersWhenReady(r) == pc[r] \in {"updating", "updated", "up"}

\* The peer API is served before etcd is ready.
ServesPeers(r) == Running(r)

\* createCA derives the CA from the token.
CA(r) == token[r]

\* createPeerCrt signs a certificate at every start, for 90 days.
PeerCrt(r) == [issuer |-> CA(r), valid |-> r \notin expired]

\* Both sides of a connection show their certificates.
Accepts(r, crt) == crt.issuer = CA(r) /\ crt.valid

Trusts(r, s) == Accepts(r, PeerCrt(s)) /\ Accepts(s, PeerCrt(r))

\* The registry at JOIN_URL answers.
Reachable(r) == ServesPeers(JoinUrl[r]) /\ Trusts(r, JoinUrl[r])

\* The members of its cluster that the etcd of a registry is connected to.
Connected(r) ==
    {s \in members[data[r]] : Running(s) /\ data[s] = data[r] /\ (s = r \/ Trusts(r, s))}

Majority(some, all) == 2 * Cardinality(some) > Cardinality(all)

HasQuorum(r) == Running(r) /\ Majority(Connected(r), members[data[r]])
-----------------------------------------------------------------------------
(* The token. *)

\* The operator gives a joining registry the token of the one it joins.
Configure(r) ==
    /\ JoinUrl[r] # None /\ InitialToken[r] = None
    /\ tokenFile[JoinUrl[r]] \in Token
    /\ InitialToken' = [InitialToken EXCEPT ![r] = tokenFile[JoinUrl[r]]]
    /\ UNCHANGED <<tokenFile, token, issued, unsaved, etcd, pc, peers, pending, expired, gone,
                   faults>>

\* Fault: the file does not matter.
FileIgnored(r) == InitialToken[r]

\* loadStateToken: the file counts, or else TOKEN; None if neither is there.
KnownToken(r) == IF tokenFile[r] # None THEN tokenFile[r] ELSE InitialToken[r]

\* Fault: a token from TOKEN or made up is only used, not saved.
SaveNothing(r, t) == UNCHANGED <<tokenFile, unsaved, faults>>

\* An error of WriteFile is ignored; it may leave an empty file.
SaveToken(r, t) ==
    \/ tokenFile' = [tokenFile EXCEPT ![r] = t] /\ UNCHANGED <<unsaved, faults>>
    \/ /\ Fault
       /\ \E left \in {None, Torn} : tokenFile' = [tokenFile EXCEPT ![r] = left]
       /\ unsaved' = unsaved \cup {r}

\* decodeToken panics on an empty file.
Decodable(file) == file # Torn

\* LoadConfig refuses to join without a token.
MayStart(r) ==
    /\ pc[r] = "down" /\ r \notin gone
    /\ JoinUrl[r] # None => InitialToken[r] # None
    /\ Decodable(tokenFile[r])

\* A token is made up by a registry that has none; it may die while it saves it.
LoadState(r) ==
    /\ MayStart(r)
    /\ IF KnownToken(r) # None
       THEN token' = [token EXCEPT ![r] = KnownToken(r)] /\ UNCHANGED issued
       ELSE /\ issued < MaxTokens /\ issued' = issued + 1
            /\ token' = [token EXCEPT ![r] = issued']
    /\ IF tokenFile[r] = None THEN SaveToken(r, token'[r])
       ELSE UNCHANGED <<tokenFile, unsaved, faults>>
    /\ \/ Goto(r, IF JoinUrl[r] = None THEN "starting" ELSE "joining")
       \/ tokenFile'[r] = Torn /\ UNCHANGED pc
    /\ UNCHANGED <<InitialToken, etcd, peers, pending, expired, gone>>
-----------------------------------------------------------------------------
(* Joining. *)

\* etcd adds no member while it is not connected to all it has.  AddMember is given
\* the name of the new member, which etcd takes for a sign that it has been started.
Healthy(s) == Connected(s) = members[data[s]]

AddSelfPeer(r) ==
    /\ pc[r] = "joining"
    /\ Reachable(r) /\ Healthy(JoinUrl[r])
    /\ Goto(r, "adding")
    /\ UNCHANGED <<files, etcd, peers, pending, expired, gone, faults>>

\* An error is logged, and the start goes on.
AddSelfPeerFails(r) ==
    /\ pc[r] = "joining"
    /\ ~(Reachable(r) /\ Healthy(JoinUrl[r]))
    /\ Goto(r, "asking")
    /\ UNCHANGED <<files, etcd, peers, pending, expired, gone, faults>>

\* A change of the members goes into the log through the leader, which drops it if the
\* log holds one that has not been applied.  etcd does not tell, and the caller waits.
Propose(type, r, server) ==
    /\ HasQuorum(server)
    /\ IF pending = None
       THEN pending' = [type |-> type, registry |-> r, cluster |-> data[server],
                        caller |-> TRUE]
       ELSE UNCHANGED pending
    /\ UNCHANGED <<files, etcd, peers, expired, gone, faults>>

ProposeMember(r) ==
    /\ pc[r] = "adding"
    /\ Propose("add", r, JoinUrl[r])
    /\ Goto(r, "added")

\* A member that is there already is not added, and AddMember returns an error; the
\* call ends in both cases.
ApplyChange ==
    /\ pending # None
    /\ \E s \in Registry : HasQuorum(s) /\ data[s] = pending.cluster
    /\ IF pending.type = "add"
       THEN members' = [members EXCEPT ![pending.cluster] = @ \cup {pending.registry}]
       ELSE UNCHANGED members
    /\ IF pending.caller
       THEN Goto(pending.registry, IF pending.type = "add" THEN "asking" ELSE "up")
       ELSE UNCHANGED pc
    /\ pending' = None
    /\ UNCHANGED <<files, data, peers, expired, gone, faults>>

\* Fault: the start goes on without the members.
AloneIfUnanswered(r) == Goto(r, "starting") /\ peers' = [peers EXCEPT ![r] = {}]

\* Without the members the registry ends.
Unanswered(r) == Goto(r, "down") /\ UNCHANGED peers

GetPeers(r) ==
    /\ pc[r] = "asking"
    /\ IF Reachable(r)
       THEN Goto(r, "starting") /\ peers' = [peers EXCEPT ![r] = members[data[JoinUrl[r]]]]
       ELSE Unanswered(r)
    /\ UNCHANGED <<files, etcd, pending, expired, gone, faults>>
-----------------------------------------------------------------------------
(* The start of etcd. *)

\* Fault: the registry itself is left out.
PeersOnly(r) == peers[r]

\* CreateEtcdConfig: the registry itself and the peers of other names.
InitialCluster(r) == {r} \cup peers[r]

\* etcd compares the initial cluster with the members that a peer tells it.
JoinsCluster(r, c) ==
    /\ \E s \in peers[r] : s # r /\ Running(s) /\ data[s] = c /\ Trusts(r, s)
    /\ InitialCluster(r) = members[c]

Found(r) ==
    /\ data' = [data EXCEPT ![r] = r]
    /\ members' = [members EXCEPT ![r] = InitialCluster(r)]
    /\ Goto(r, "waiting")

\* A directory with data says all.  Without, the cluster is new if there are no peers;
\* etcd refuses to join one that the initial cluster does not describe.
StartEtcd(r) ==
    /\ pc[r] = "starting"
    /\ IF data[r] # None THEN Goto(r, "waiting") /\ UNCHANGED etcd
       ELSE IF peers[r] = {} THEN Found(r)
       ELSE \/ \E c \in Registry : /\ JoinsCluster(r, c)
                                   /\ data' = [data EXCEPT ![r] = c]
                                   /\ Goto(r, "waiting") /\ UNCHANGED members
            \/ /\ \A c \in Registry : ~JoinsCluster(r, c)
               /\ Goto(r, "down") /\ UNCHANGED etcd
    /\ peers' = [peers EXCEPT ![r] = {}]
    /\ UNCHANGED <<files, pending, expired, gone, faults>>

\* etcd is ready once it has written its name through a quorum.
Ready(r) ==
    /\ pc[r] = "waiting" /\ HasQuorum(r)
    /\ Goto(r, "updating")
    /\ UNCHANGED <<files, etcd, peers, pending, expired, gone, faults>>

\* A minute without becoming ready: the registry stops.
TimeOut(r) ==
    /\ pc[r] = "waiting" /\ Fault
    /\ Goto(r, "down")
    /\ UNCHANGED <<files, etcd, peers, pending, expired, gone>>

\* EtcdPostStartUpdate: UpdateMember.  Then the agent API is served.
UpdateMember(r) ==
    /\ pc[r] = "updating"
    /\ Propose("update", r, r)
    /\ Goto(r, "updated")
-----------------------------------------------------------------------------
(* Faults. *)

\* The calls of r end with it, and so do those of the registries that wait for it.
\* The change in the log may be lost with its leader.
End(r) ==
    LET waiters == {s \in Registry : JoinUrl[s] = r /\ pc[s] \in {"adding", "added"}} IN
    /\ pc' = [s \in Registry |-> IF s = r THEN "down"
                                 ELSE IF s \in waiters THEN "asking" ELSE pc[s]]
    /\ peers' = [peers EXCEPT ![r] = {}]
    /\ expired' = expired \ {r}
    /\ IF pending = None THEN UNCHANGED pending
       ELSE LET left == IF pending.registry \in waiters \cup {r}
                        THEN [pending EXCEPT !.caller = FALSE] ELSE pending
            IN  pending' \in IF Running(r) THEN {left, None} ELSE {left}
    /\ UNCHANGED <<files, etcd>>

Crash(r) == pc[r] # "down" /\ Fault /\ End(r) /\ UNCHANGED gone

\* Nothing renews the certificate of a registry that runs.
Expire(r) ==
    /\ pc[r] = "up" /\ r \notin expired /\ Fault
    /\ expired' = expired \cup {r}
    /\ UNCHANGED <<files, etcd, pc, peers, pending, gone>>

\* A machine that is given up.
Leave(r) ==
    /\ Cardinality(gone) < MaxGone /\ r \notin gone
    /\ gone' = gone \cup {r}
    /\ End(r)
    /\ UNCHANGED faults

Start(r) ==
    \/ Configure(r) \/ LoadState(r)
    \/ AddSelfPeer(r) \/ AddSelfPeerFails(r) \/ ProposeMember(r) \/ GetPeers(r)
    \/ StartEtcd(r) \/ Ready(r) \/ UpdateMember(r)

Next ==
    \/ \E r \in Registry : Start(r) \/ TimeOut(r) \/ Crash(r) \/ Expire(r) \/ Leave(r)
    \/ ApplyChange

Spec == Init /\ [][Next]_vars

\* main goes on, the supervisor starts what has ended (restart: always), the operator
\* hands out the token, etcd applies what a quorum can.  Crashes and starts that take
\* too long come to an end.
Fairness == WF_vars(ApplyChange) /\ \A r \in Registry : WF_vars(Start(r))

FairSpec == Spec /\ Fairness
-----------------------------------------------------------------------------
(* Properties *)

\* GetPeers, CreateEtcdConfig: however registries die between being added and being
\* started, and whoever answers them, none founds a cluster beside the one it is to join.
OneCluster ==
    \A r, s \in Registry : data[r] # None /\ data[s] # None => data[r] = data[s]

\* loadStateToken: all registries of a cluster derive their CAs from one token, so what
\* one of them signs every other accepts, whatever files could not be written.
SameAuthority ==
    \A r, s \in Registry :
        Running(r) /\ Running(s) /\ data[r] = data[s] => CA(r) = CA(s)

\* loadStateToken: a registry that starts again has the token it had before, and the
\* certificates issued under it stay good, unless an ignored error lost the token.
TokenKept ==
    [][\A r \in Registry : token[r] \notin {None, token'[r]} => r \in unsaved]_vars

\* The file of the founder once it has a token: a registry that joins has this token or
\* none, and one that runs uses it.
Shared(t) == t = tokenFile[Founder] /\ t \in Token

TokenShared ==
    /\ \A r \in Registry \ {Founder} :
        /\ InitialToken[r] = None \/ Shared(InitialToken[r])
        /\ tokenFile[r] \in {None, Torn} \/ Shared(tokenFile[r])
        /\ pc[r] # "down" => Shared(token[r])
    /\ pc[Founder] # "down" /\ tokenFile[Founder] \in Token => Shared(token[Founder])

TokenSaved ==
    \A r \in Registry : token[r] # None => tokenFile[r] = token[r] \/ r \in unsaved

\* Only the founder may be without peers when it starts etcd.
PeersKnown ==
    \A r \in Registry :
        pc[r] = "starting" /\ r # Founder /\ data[r] = None => peers[r] # {}

\* A registry has data if it runs, and then the founder has.
DataOfFounder ==
    \A r \in Registry : /\ Running(r) => data[r] # None
                        /\ data[r] # None => data[r] = Founder /\ data[Founder] = Founder

\* The caller of a change waits for it.
CallerWaits ==
    pending # None /\ pending.caller
        => pc[pending.registry] = IF pending.type = "add" THEN "added" ELSE "updated"

FounderAlone == pc[Founder] \notin {"joining", "adding", "added", "asking"}

\* The inductive invariant of the proofs.
IInv ==
    /\ TypeOK /\ TokenShared /\ TokenSaved /\ PeersKnown /\ DataOfFounder /\ CallerWaits
    /\ FounderAlone

\* A change of the members that r waits for and etcd has dropped.
Dropped(r) ==
    /\ pc[r] \in {"added", "updated"}
    /\ pending = None \/ (pending # None /\ ~(pending.registry = r /\ pending.caller))

\* The registries r joins through, directly or not.
Upstream(r) ==
    LET up[n \in 0 .. Cardinality(Registry), s \in Registry] ==
            IF n = 0 \/ JoinUrl[s] = None THEN {}
            ELSE {JoinUrl[s]} \cup up[n - 1, JoinUrl[s]]
    IN  up[Cardinality(Registry), r]

Cluster == members[Founder]

\* Given up, left with an empty token file, or cut off by its certificate.
Dead(r) == r \in gone \cup expired \/ (tokenFile[r] = Torn /\ ~Running(r))

\* A registry that is added twice, because it died while it was added, waits for the
\* leave of a majority that the first time has made it a part of.
WaitsForItself(r) ==
    /\ pc[r] \in {"adding", "added"} /\ r \in Cluster
    /\ ~Majority({s \in Cluster : s # r /\ ~Dead(s)}, Cluster)

Stuck(r) == Dead(r) \/ WaitsForItself(r) \/ (pc[r] = "added" /\ Dropped(r))

CannotStart(r) == \E s \in {r} \cup Upstream(r) : Stuck(s)

\* What is known to keep r from coming up: it or the registry it joins through is stuck,
\* its change of the members has been dropped, there is no token to share, or too many
\* of the members are lost.
Lost(r) ==
    \/ CannotStart(r)
    \/ Dropped(r)
    \/ InitialToken[r] = None /\ \E s \in Upstream(r) : tokenFile[s] \notin Token
    \/ ~Majority({s \in Cluster \ expired : Running(s) \/ ~CannotStart(s)}, Cluster)

\* main: when faults end, every registry comes to serve, those that died half joined
\* and those that all started at once included, except for the reasons in Lost.
AllJoin == <>[](\A r \in Registry : pc[r] = "up" \/ Lost(r))
=============================================================================
