# A verification of the SSLE service registry

The repository implements a service registry. A cluster of *registries*, each
with an embedded etcd, keeps a directory of services. An *agent* on every node
watches Docker and registers the containers it finds; it also answers DNS
queries for `cluster.internal` from the directory. An *observer* in every
datacenter follows the directory and writes the targets file of Prometheus. An
operator enrols nodes with a command-line client.

This directory holds TLA+ models of these parts, the TLC configurations that
check them on small instances, and proofs, checked by TLAPS, about all of them. All
paths below are relative to `src/`.

## 1. The system

| Component | State | Operations | Code |
|---|---|---|---|
| Node lease and service directory | etcd keys `node_lease/<dc>/<node>`, `svc/...` (the index Discover reads), `dcsvc/...` (the index observers read); etcd leases of 30 s | `Register`, `Deregister`, `Reset`, `Heartbeat`; the first and the last through `GetNodeLease` | `registry/agent_api/{register,delete,node_api}.go`, `registry/utils/utils.go` |
| Discovery | none | `Discover`; `ServeDNS` in the agent | `registry/agent_api/discover.go`, `agent/dns.go` |
| Observer | the watch, the list that is being fetched, the targets | open the watch, fetch, apply an event, apply the list | `registry/agent_api/observer.go`, `prom-sd-observer/` |
| Agent | Docker's event stream, the startup job's list, what each goroutine has inspected | handle an event, list, inspect, check the signature, register or remove, `Reset` at start and on an interrupt | `agent/main.go` |
| Credentials | the `nodes` key; the files given to the node; the files of its state directory; the pair in memory; the pair of its connection | `AddNode`, `GetNodeCredentials`, start, `Config`, `UpdateCredentials` | `registry/peer_api/peer_api.go`, `cmd/cmd/`, `node-utils/`, `registry/agent_api/node_api.go` |
| Registry addresses | the `peer_agent_api` keys; a node's file `addrs` and the resolver of its connection | `LoadConfig`, `EtcdPostStartUpdate`, `Config`, `loadRegistryAddresses`, `UpdateAddrs` | `registry/config/`, `registry/etcd/`, `node-utils/lib.go` |
| Cluster membership | etcd's members and its log, each registry's etcd directory, token file and certificate | `LoadState`, `AddSelfPeer`, `GetPeers`, start of etcd, `UpdateMember` | `registry/main.go`, `registry/etcd/`, `registry/state/`, `registry/peer_api/` |
| Image signatures | none of its own; the containers and the image in Docker, the signatures in the image registry | `checkImage`, `VerifyImageSignature`, `removeUnsignedImage` | `agent/signature.go`, `agent/main.go` |

The parts interact as follows. An agent calls its registry for everything it
does to the directory, and any registry serves any call: the handlers have no
memory of their own and meet in etcd only. A node's services hang on one etcd
lease, which `Heartbeat` (and `Register`) renews, so that a node that falls
silent leaves the directory without help. The observer is told of changes by an
etcd watch through its registry. Nodes prove who they are by certificates that
a registry issues and that `Config`, called every minute, replaces.

What is hard about it:

* two calls of one node may both find its lease dead, and both replace it;
* a lease may end between any two etcd requests of a handler; etcd may report as
  failed what it has done, or does a little later;
* calls of an agent that has died go on, beside those of its successor;
* a `Reset` may revoke a lease that has been replaced in the meantime;
* agent and observer each take a list and follow a stream in two goroutines, and
  what they learn from one may be older than what they have from the other;
* containers change between the inspection and the registration;
* `Discover` reads several prefixes at different revisions;
* credentials are two files that are not written together;
* a registry dies between being added to the cluster and being started, is added
  again at every start, and counts for a quorum it is not there to give;
* the addresses a node has decide whom it can ask for addresses;
* an image's signature is looked for in two places, one after the other, by two
  goroutines that also remove the image.

PROJECT.json lists each such hazard at its line with the properties that watch
over it, or the reason why none does.

What makes each part correct:

* directory: the services of a node hang on the one lease its heartbeats renew;
  that lease is not replaced while it is alive; the two indexes agree; no node
  changes another's services; what hangs on a lease nobody renews goes; and all
  handlers together look to their clients like one atomic directory;
* discovery: nearest instances first, none omitted while fewer than three were
  found, and only instances within the name that was asked for;
* observer: when everything has been delivered the targets are the services;
* agent: when everything has been handled the registry lists the accepted
  containers that run and have the labels of a service, and no others;
* credentials: the node's files always hold the pair it uses, and the pair does
  not expire while the node is served;
* cluster: there is one, under one token; every registry comes to serve unless one
  of a list of named reasons keeps it from that;
* addresses: what a registry publishes leads to it, and a node always knows an
  address to try and ends up with those last published;
* signatures: a container that is accepted was signed, or stood under the old
  signature of another image; one that is rejected was not, or for a reason that is
  named; and a check that has begun ends.

## 2. Modules

| Module | Models | Part |
|---|---|---|
| `Rpc` | requests and answers of the agent's calls | directory |
| `Directory` | what the agent API promises: an atomic directory of services | directory, abstract |
| `AgentAPI` | the handlers, one step per etcd request | directory, detailed |
| `AgentDirectory` | `AgentAPI` with the refinement mapping to `Directory` | directory, refinement |
| `AgentAPIProofs` | theorems about `AgentAPI`, and the proof that it implements `Directory` | directory, proofs |
| `Discovery` | `Discover` and the DNS names that lead to it | discovery |
| `DiscoveryProofs` | theorems about `Discovery` | discovery, proofs |
| `ObserverSync` | the observer of a datacenter | observer |
| `ObserverSyncProofs` | theorems about `ObserverSync` | observer, proofs |
| `AgentSync` | the agent of a node and Docker | agent |
| `AgentSyncProofs` | theorems about `AgentSync` | agent, proofs |
| `Credentials` | enrolment, files and renewal of one node's certificate | credentials |
| `CredentialsProofs` | theorems about `Credentials` | credentials, proofs |
| `ClusterJoin` | how registries form a cluster and start again | cluster membership |
| `ClusterJoinProofs` | theorems about `ClusterJoin` | cluster membership, proofs |
| `RegistryConfig` | what a registry makes of its configuration: operators | addresses, pure part |
| `RegistryAddresses` | publication of addresses and a node that follows them, with `RegistryConfig` | addresses |
| `RegistryAddressesProofs` | theorems about both | addresses, proofs |
| `ImageSignature` | `checkImage` and the search for a signature | image signatures |
| `ImageSignatureProofs` | theorems about `ImageSignature` | image signatures, proofs |
| `MC...` | small instances | all |

The modules compose through promises rather than by being put into one state
space: `AgentSync` relies on the registry as `Directory` describes it (calls that
act at once, or fail with or without effect, or late), `ObserverSync` and
`Discovery` on etcd keys that change on their own, as `AgentAPI` changes them.
`RegistryAddresses` does compose two parts: what `LoadConfig` yields is what the
registry publishes and the node goes to. `AgentSync` takes from `ImageSignature`
that a check ends in one of two verdicts, or with the agent.

Operators whose comment begins with "Fault:" are not part of the model. They are plausible mistakes
in the definition that follows each; replaced by its fault, the definition must
make TLC find the property that PROJECT.json names violated.

### AgentAPI

`live` and `granted` are etcd's leases, `record` the `node_lease` keys with their
versions, `svcIndex` and `dcIndex` the two indexes. Every call has a program
counter, its request, and the local variables of its handler: the lease id and
the version it has read, the attempts it has left. The steps of `GetNodeLease`
are `RangeNodeLease` (read the key), `LeaseRenew`, `LeaseGrant`, and `RecordLease`
(the transaction that puts the new lease under the key if it has not moved; its
else branch is `LoseRace`). `RegisterPut`, `DeregisterDelete`, `ResetFind` and
`ResetRevoke` are the rest of the handlers. `Expire` and `DropLease` are etcd's;
both remove the keys attached to the lease in the same step. `Invoke` and
`Return` are the two ends of a call; `Fail` and `EtcdError` its errors.

About etcd the model assumes: a transaction is atomic, and one that puts a key
under a lease that is gone fails as a whole; a lease that is reported as not
found has taken its keys along; lease ids are not reused; reads are linearizable.
Each request may fail. A transaction that fails may have been applied, and may
even be applied later: the model then delays the end of the call, which nobody
can observe because calls do not depend on each other. `RenewMayFail` says whether
`LeaseRenew` can fail for a lease that is alive (it can: it is forwarded to etcd's
leader and has a timeout). The handlers take any error for the end of the lease,
and most of what they promise holds only if that is so; hence a parameter.

### Discovery

The key of an instance is a tuple of numbers, in etcd's order. `ServeDNS` starts a
call for any name of at most five labels, `GetServices` reads the caller's node,
`FillServices` the prefix that follows; registrations come and go in between.
`labels` are those before the service, widest first. The thresholds of `ServeDNS`
are kept: a node is only taken from a name of five labels.

### ObserverSync

`history` is the sequence of changes of the datacenter's `dcsvc` keys; the watch
delivers it from `next` on. The registry that serves the watch may lag behind
(`OpenWatch(i)`), the list is a linearizable read (`AnswerFetch`) whose answer may
be applied at any later time (`ApplyFetch`). `Crash` stands for every error, since
all of them are fatal, and for the restart that empties the targets.

### AgentSync

`ctr` and `starts` are Docker's containers; every start gives new host ports, and a
container is registered with what its inspection showed. `label` says whether its
labels are good for a registration: without `ssle.service`, or with something else
than a number in `ssle.metrics`, `Register` returns at once (`Registrable`), and
without the former the end of a container is not reported either
(`CallsDeregister`). `events` are the events the agent has not handled. Docker
reports the end of a container as `die` and, if it was asked for, also as `stop`,
which it logs when the request returns and so possibly after the container has been
started again (`LogStop`). `work` holds what the event goroutine and the startup job
have inspected and not yet registered or removed: `Finish` does that, by `Register`
or `Reject`, and may fail. `stray` are calls that failed for the agent and take
effect later; a `Reset` that does has the effect of `LoseLease`. `unsure` is a
history variable that names the containers that the agent has wronged and why;
`SettledRight` speaks of all others. Docker is external: the stream is complete from
the moment it is opened, in order, and the removal of a container is reported as
`destroy`.

### Credentials

A pair of certificate and key is a number and a file holds one half. The clock
counts halves of the validity. The operator's command writes two files, the node
reads two files, each from its state directory or else from those provided, and
writes two files. `Crash` and `WriteFails` may leave one of them torn. `Config`
decides by the certificate the connection was opened with. The OU list of a
certificate is a DER set and hence sorted by length and content: the datacenter
comes first only if its name sorts before the role (`OrganizationalUnit`).

### ClusterJoin

`pc` is the step of `main` that each registry is at: `joining` and `adding` are the
call of `AddSelfPeer`, `asking` that of `GetPeers`, `waiting` is the minute in which
etcd has to become ready, `updating` is `EtcdPostStartUpdate`, and at `up` the agent
API is served. `tokenFile`, `InitialToken` and `token` are the file, `TOKEN` and what
the process uses; `data` says which cluster the etcd directory belongs to, and a
cluster is named by its founder. Two registries are connected if both run and each
accepts the other's certificate (`Trusts`), that is if they have the same token and
neither has run for longer than its certificate is valid (`expired`).
Of etcd the model has `members`, the log's one change of the members that has not
been applied (`pending`), and the quorum both need. It assumes: a second change is
dropped while one is pending; a member of a cluster that exists only starts if the
members it was given are those a peer tells it; a change whose caller has gone is
applied or, if its leader goes, may be lost. A member added is one that has been
started: `AddMember` is given its name, and so etcd counts it among those that must
be connected. A write of the token fails as a whole or leaves an empty file.

### RegistryConfig and RegistryAddresses

An address has a family, a scope and a subnet; ports are numbers modulo 2^16.
`FindBestAddr` goes over the list of the machine's addresses in their order; the pass
that keeps the best one so far is a recursive function (`Search`). There are two
registries, the one that the operator gives to the node and a second one in all environments, which listens on all its addresses (the default of
`AGENT_LISTEN_ADDR`). `Publish` is the last step of a start and may fail;
`Move` changes the machine's addresses under a registry that runs. `known` are the
addresses of the resolver and `file` those on disk; the file is truncated before it
is filled (`loading`, `writing`). A write that fails ends a node that starts, and is
only logged by one that runs. A node that can reach none of the addresses it knows cannot
do anything: with an empty list that is for ever.

### ImageSignature

A referrer is one of six kinds (`Kind`), after what its manifest and its first layer
are. An old signature is the set of its flaws. The code meets those among `Defects`,
in a fixed order put together from the functions that take a signature apart, and the
first one decides between an error and a panic. One flaw it does not meet: the
signature was made of another image (`"foreign"`). What is verified on this path is the
layer, for its own digest, and its payload, which names the image, is not looked at.
`Change` is the publisher's.
Each container of the image is checked on its own, by the startup job or by the event
goroutine, and as often as it is created, started or listed (`Ready`). A check may also
never begin: the startup job lists only containers that run, and ends at the first it
cannot inspect. `signed` and `excuse` are history variables: whose valid signatures
there were at some time of the check, and what may make it fail. The removal of a
container may fail, which is logged; then it is kept, and the image is removed all the
same if Docker allows it. Whether Docker removes an image that another container uses
is left open.

## 3. Runs

| Run | Instance | Shows |
|---|---|---|
| `agent_api` | 1 node, 2 services with two specifications, 2 calls, 3 leases, 2 attempts; a failed renewal means a dead lease | `ServicesOnRecordedLease`, `LeaseReplacedOnlyWhenDead`, that `IInv`, which the proofs use, is an invariant, and `ImplementsDirectory`: the handlers implement `Directory` |
| `agent_api_nodes` | 2 nodes, 2 calls, 2 leases; renewals may fail | `NodesChangeApart`, `LeasesApart`, `IndexesAgree`, `SilentNodeForgotten`, `OrphanedServiceGoes` |
| `agent_api_renew_fails` | 1 node, 1 service, 2 calls, 2 leases; renewals may fail | a violation: see below |
| `discovery` | 5 instances in and around the caller's node, 2 changes, limit 3 | `NearestServed`, `AnswersWithinName` |
| `observer_sync` | 2 services, 2 ports, 3 changes, 1 crash | `SyncedUnlessRaced`, `QuietForGood` |
| `observer_sync_stale` | the same without a crash | a violation: see below |
| `agent_sync` | 2 labelled containers, one not accepted, 1 start each, 1 failure, 1 exit, no stop requests | `SettledRight`, `SettlesForGood`, `UntrustedStopped` |
| `agent_sync_restarts` | 1 container with any labels, stopped on request or not, 3 starts, 2 failures, 1 exit | `SettledRight`, for ports that change and stops that are logged late |
| `credentials` | 4 pairs, 4 halves of a validity, 2 faults | `NewestKept`, `StartsAgain`, `CredentialsLast` |
| `cluster_join` | a founder and 2 registries, 2 tokens, 3 faults, 1 machine given up | `OneCluster`, `SameAuthority`, `TokenKept`, `AllJoin`, and that `IInv`, which the proofs use, is an invariant |
| `registry_addresses` | 40 machines, 5 join hosts, host names and ports, 1 move, 2 faults | `BestAddress`, `PublishedLeadsHere`, `SomeAddressKnown`, `LearnsRegistries` |
| `image_signature` | 2 containers of 1 image, 6 lists of referrers, 5 old signatures, one of them of another image, 2 changes, 1 fault | `AcceptedSigned`, `RejectedForAReason`, `ChecksEnd` |

Why the bounds are enough. A race for the lease needs two calls and at most three
leases (the dead one and one from each call; two tell a lease from another's); two attempts make a call both lose
and give up. Two services tell "all services of the node" from "this one", two
nodes tell a node from another, and the second specification
tells an old registration from a new one. `Discovery` has fewer instances than
the limit on the caller's node, more than the limit in all, and keys that sort
before and after the caller's. A stale list needs one change before it and one after; the third makes
a service come back. The startup job needs a second container to give up before;
a third start is one more than either goroutine can have inspected, and a container that
is stopped once and starts again is enough for a stop that is logged too late. Two faults
allow a crash in the recovery from a crash. Three registries are the smallest cluster
that survives the loss of one, and two of them may start at once; with three faults a
registry may die while it joins, fail to save its token and be lost. The addresses of
a machine come in every order of two, so that each scope and family is first and
second once. A publisher that moves from an old signature to a new one makes two
changes. `PublishedLeadsHere` needs 2380 and 65533 as the first of the ports: the last
default is 65536 in the second case.

`SYMMETRY` is used in safety runs only, over sets of model values that nothing
orders. `CHECK_DEADLOCK FALSE` stands where the system may come to rest: an
observer that has nothing to apply, an agent whose containers have used up
`MaxStarts`, a clock at `MaxTime`, a cluster without a quorum, a node without an
address, containers that have been checked. `AgentAPI` and `Discovery` are checked for deadlock.

Fairness. `AgentAPI!FairSpec`: a handler that can take a step does, and a lease
that is not renewed ends; nothing forces a client to call. `ObserverSync`: the
goroutines of the observer and the two RPCs it has sent go on. `AgentSync`: the
agent's two goroutines go on, while Docker, restarts and late calls are free; its
liveness properties only speak of agents that stay up. `ClusterJoin`: `main` goes on,
its supervisor starts it again (the stacks say `restart: always`), the operator hands
out the token, etcd applies what a quorum can. `RegistryAddresses`: registries and
nodes are started again, and a node that can reach a registry asks it every minute.
`ImageSignature`: a check that has begun goes on, and the agent is started again; that a
check begins is not assumed. Faults are
bounded in all three, so that they end. Go schedules goroutines
fairly, etcd answers or fails every request, and its lessor revokes expired
leases.

### What the violations show

* `agent_api_renew_fails`. `GetNodeLease` takes every error of `LeaseRenew` for the
  end of the lease (`registry/utils/utils.go:160`). If the call times out while the
  lease is alive, a second lease is granted and recorded; the services stay on the
  first, no heartbeat renews it, and they leave the directory although the node is
  alive and its agent is told that all is well. The comment there says that the
  lease is renewed unless it "might have expired".
* `observer_sync_stale`. `prom-sd-observer/main.go:32` fetches "all existing
  services" in a goroutine of its own, ordered neither with the opening of the
  watch nor with the events. A service can be missed, or a deleted one come back,
  and stay wrong. `SyncedUnlessRaced` shows that these are the only ways.

Other behaviour that the models have and the properties exempt by name: the startup
job registers what it saw of a container before it changed, and gives up at the
first container it cannot inspect; a stop that Docker logs after the container has been
started again takes it from the registry; nothing is registered anew after a lost lease;
a container that was created and never started stays registered when it is
removed; a registration without a metrics port leaves the old target; a crash
between the two writes of the credentials makes every later start fail; a registry
whose change of the members was dropped waits for ever, one added twice may wait for
its own vote, none starts while the one it joins through is down, and one that has
run for 90 days is cut off (`Lost`); a node to which a registry has answered with an
empty list has no one left to ask; a loopback address may be advertised; one referrer
that is neither a bundle nor of another type hides those after it; the old signature of
another image is accepted; and a malformed one ends the agent whenever it comes to it.

## 4. Proofs

`AgentAPIProofs` proves, for any nodes, services, calls, leases and attempts:

| Theorem | States | Needs |
|---|---|---|
| `TypeCorrect` | `Spec => []TypeOK` | |
| `DirectoryIndexesAgree` | `Spec => []IndexesAgree` | |
| `LeasesStayApart` | `Spec => []LeasesApart` | |
| `NodesStayApart` | `Spec => NodesChangeApart`: no step changes the services of two nodes | |
| `InductiveInvariant` | `Spec => []IInv` | `RenewMayFail = FALSE` |
| `ServicesStayOnTheLease` | `Spec => []ServicesOnRecordedLease` | `RenewMayFail = FALSE` |
| `LiveLeaseKept` | no step replaces the lease of a node while it is alive | `RenewMayFail = FALSE` |
| `HandlersImplementDirectory` | `Spec => ImplementsDirectory` | `RenewMayFail = FALSE` |

The assumptions are those named in the modules: sentinels are distinct from
values, `MaxAttempts` is a positive number.

The inductive invariant. `ServicesOnRecordedLease` is not inductive: nothing in it
says that a call in the middle of `GetNodeLease` may not replace a live lease.
`IInv` adds what the handlers rely on without saying so:

* `LeasesGranted`: leases that are alive, recorded or held in a local variable have
  been granted, so a new one is none of them; and only an absent key has version 0;
* `ReadsNotAhead`: a handler has read no version of `node_lease` that the key has
  not had yet, so equal versions mean that the key has not moved since;
* `LeaseStepsSound`: what a handler knows at each step. Before the renewal, if the
  key has not moved it names the lease that was read; before the put, a lease that
  is alive is the recorded one; at the grant and at the transaction, if the key has
  not moved its lease is dead;
* `IndexesAgree` and `ServicesOnRecordedLease`.

The third is where `RenewMayFail = FALSE` is used: it makes a failed renewal mean a
dead lease. `LiveLeaseKept` follows from it and the comparison in `RecordLease`.
`NodesStayApart` needs an invariant of its own, `LeasesApart`, which holds even if
renewals fail and nodes have several leases: no lease serves two nodes.

The refinement. A call of `Directory` takes effect in one step; the mapping says when. It is the
transaction for a `Register` or `Deregister`, the last step of a `Heartbeat`, and for a
`Reset` the end of the lease it has read (which may come by expiry, before the handler
revokes anything: `ResetOvertaken`). `Expire` and `DropLease` are `Clear`, the step in
which services vanish, asked or unasked. `StepMaps` has one case per
action of `AgentAPI`; a case cites `TakesEffect` or `Vanishes` if the view changes and
`Unnoticed` if neither view nor progress does, and the two ends of a lease share
`LeaseEnds`. Beyond `IInv` and `LeasesApart` it needs `ResetsSound`: the lease that a
reset has read is the recorded one of its node as long as it lives. This is why a
reset that revokes a dead lease may answer ok: what hung on it is gone, and what
was registered later hangs on another.

`ClusterJoinProofs` proves, for any number of registries, whichever each of them
joins, and any bounds:

| Theorem | States |
|---|---|
| `InductiveInvariant` | `Spec => []IInv` |
| `TypeCorrect` | `Spec => []TypeOK` |
| `NoSecondCluster` | `Spec => []OneCluster` |
| `AuthorityShared` | `Spec => []SameAuthority` |
| `TokensKept` | `Spec => TokenKept` |

The one assumption about the cluster is that exactly one registry has no `JOIN_URL`
(`JoinAssumption`). The inductive invariant, `IInv` of `ClusterJoin`, consists of:

* `TokenShared`: a registry other than the founder has the token in the founder's
  file or none, and if it runs it uses that one. The file of the founder, once it
  holds a token, is never written again; that is what the order "file, then
  `TOKEN`, then a new one" in `loadStateToken` is for. `SameAuthority` follows;
* `TokenSaved`: the token a registry has used is in its file unless a write failed;
* `PeersKnown`: at the start of etcd only the founder has no peers. It rests on
  `DataOfFounder`: a registry that answers `GetPeers` runs, and so has data and is
  one of the members it names;
* `DataOfFounder`: only a member of the founder's cluster has data, and with this
  `OneCluster`;
* `CallerWaits` and `FounderAlone`: a change of the members that etcd applies moves a
  process that still waits for it, and the founder never asks to be added.

`CredentialsProofs` proves, for any role and datacenter, any number of pairs and any
bounds:

| Theorem | States |
|---|---|
| `TypeCorrect` | `Spec => []TypeOK` |
| `PairKept` | `Spec => []NewestKept` |
| `NodeStartsAgain` | `Spec => []StartsAgain` |
| `NeverExpires` | `Spec => CredentialsLast` |

The assumptions are that `None` and `Torn` are no numbers. The inductive invariant,
`IInv` of `Credentials`, consists of:

* `Issued`: pairs are numbered in the order of their issue, and no file, process or
  command holds one that was not issued;
* `Loaded`: a process past `loadNodeCrt` has a pair, and does not serve before it has
  written both files;
* `Stored`: what the files hold before, between and after the two writes. The two
  theorems about the files follow from it;
* `ReadStored`: the certificate read at a start is the stored one, if there is one;
* `Fresh`: the connection's pair is never newer than the pair in use, and after an
  answer of `Config` the pair in use is of the present half of the validity. This is
  why a decision by the older certificate of the connection comes soon enough.

`ObserverSyncProofs` proves, for any services and ports and histories of any length:

| Theorem | States |
|---|---|
| `TypeCorrect` | `Spec => []TypeOK` |
| `TargetsSynced` | `Spec => []SyncedUnlessRaced` |

`SyncedUnlessRaced` speaks of a quiet observer only. The inductive invariant says at
every moment where a target comes from (`FromListOrEvent`): from the list, unless an
event for the service came after the list or the list has no port for it; then from
the last event, if there was one. `Positions` orders the positions in the history it
needs: what the watch missed and what came before the list is not beyond what was
delivered. `LastChange` is a greatest element of a set of positions; that it exists
follows from the well-foundedness of `<` on the numbers (`Greatest`), and the lemmas
after it say how it moves when a change is appended or delivered.

`AgentSyncProofs` proves, for any containers, trusted or not, and any bounds:

| Theorem | States |
|---|---|
| `TypeCorrect` | `Spec => []TypeOK` |
| `SettledIsRight` | `Spec => []SettledRight` |

`SettledRight` speaks of an agent that has nothing left to handle. The inductive
invariant, `IInv` of `AgentSync`, says what is still to come for the others:

* `RightAhead`: of every container that is not unsure, what is registered is right, or
  it has an event that is not handled, or the handler is at it, or it runs and the
  startup job has yet to come to it or is at it with its present ports;
* `LastEventTells`: the last event of a container that is queued, stops aside, tells
  what the container is. So an older event does no lasting harm: a newer one follows;
* `HandlerFresh`: what the handler has inspected is still so, or there is another event.
  The startup job has no such protection, which is why `Register` makes a container
  unsure if the job registers what is outdated;
* `LabelsObeyed`: nothing is or will be registered for a container without the labels,
  so that an end which the agent does not report leaves nothing behind;
* `PortsPast`: nobody knows ports of a start to come. With it, a container that has
  never started can only be registered without ports, which `Right` allows;
* `NotWatching` and `Coherent`: an agent that does not watch has nothing to handle and,
  once it has reset, nothing registered; a container that runs has been started.

A stop tells nothing of its container. `StopQueued` says that adding one changes nothing
the invariant speaks of; taking one either leaves another event behind, finds the
container at rest, or makes it unsure (`Overtaken`).

`QueueGrows` and `QueueShrinks` say what adding and taking an event change; every action
then has a lemma of its own, and the steps of Docker share `DockerMoves`.

`DiscoveryProofs` proves, for any finite set of instances, any limit and any caller:

| Theorem | States |
|---|---|
| `TypeCorrect` | `Spec => []TypeOK`; the answer never exceeds the limit |
| `NearestFirst` | `Spec => []NearestServed` |
| `WithinName` | `Spec => []AnswersWithinName` |

`NearestServed` speaks of a call that is done. `IInv` of `Discovery` says at every
step that the prefixes the call has read so far (`Passed`) have been served
(`Served`: as many instances as stayed registered throughout, or as many as the limit
allows), that it has only collected instances below the prefix it reads next
(`Widening`), and that the request is the one the name asks for. The argument of a step:

* a range that is limited to n keys returns the first n or all (`FirstKeys`). The
  position of a key in etcd's order is the number of keys before it; that this maps
  the keys one to one onto 0 .. n - 1 (`RankIsBijection`) follows from the order being
  total and the keys finite;
* the prefixes of a request are nested (`PrefixesNest`), so what is stable under a
  narrow one is still counted under the wider one, and an overlap of two reads costs
  nothing that is below the narrow one (`ReadServes`);
* a step leaves behind only prefixes it has served (`PassedGrows`): the one it has
  read, and those it skips because the limit is reached.

`RegistryAddressesProofs` proves, for any environments and any lists of interfaces:

| Theorem | States |
|---|---|
| `TypeCorrect` | `Spec => []TypeOK`; every port has 16 bits |
| `BestAddressChosen` | `Spec => []BestAddress` |
| `PublishedLeads` | `Spec => []PublishedLeadsHere` |
| `AlwaysAnAddress` | `Spec => []SomeAddressKnown` |

The assumptions (`AddressesAssumption`) say that interfaces have addresses and that
configured ports are of 16 bits. `Search` is a recursion over the interfaces; instead
of an induction over an operator the proof gives it a closed form, "the first eligible
IPv4 address among the first n, or else the first eligible one", shows that the closed
form satisfies the equations of the search (`ClosedFormSearches`), and that two
functions which do are equal, since there would be a least n at which they differ
(`SearchesUnique`). `PublishedLeadsHere` then needs what the defaults of the ports come
to modulo 2^16 (`NextPort`). The inductive invariant relates what a registry loaded
to its machine as long as that has not changed, and what is under its key to what it
loaded.

`ImageSignatureProofs` proves, for any containers, lists of referrers and signatures:

| Theorem | States |
|---|---|
| `TypeCorrect` | `Spec => []TypeOK` |
| `OnlySignedAccepted` | `Spec => []AcceptedSigned` |
| `NoneRejectedWithoutReason` | `Spec => []RejectedForAReason` |

The inductive invariant has one conjunct per container, `SoundCheck`. `signed` and
`excuse` follow the signatures as they are published; the conjunct ties them to the
list the check has in hand: as long as there is no excuse, the referrers still to be
read are among those published, none of them hides a good one, and one of them or the
old signature is good. Of an accepted container it says no more than the theorem: that it
had a signature of its own, or stood under one of another image. `ChangePreserves` is the interesting case: a publisher who
takes away what a check in hand still needs gives it an excuse.

Only model-checked, because the proof system has no liveness: `OrphanedServiceGoes`,
`SilentNodeForgotten`, `QuietForGood`, `SettlesForGood`, `UntrustedStopped`, `AllJoin`,
`LearnsRegistries` and `ChecksEnd`. Every other property of the passing runs is stated
by a theorem. `IInv` of the modules whose runs do not name it was checked by TLC on the
instances of these runs before it was proved.

## 5. Not modelled

* The verification of a bundle by sigstore, and timestamps, which the code can read
  and never asks for.
* Raft: elections, the log and snapshots. `ClusterJoin` has a quorum and one pending
  change. The quorum of data is not coupled with the directory: `AgentAPI` treats an
  etcd without one as requests that fail.
* A cluster in which several registries have no `JOIN_URL`: these are several
  clusters. `AllJoin` says nothing of a cluster that has lost its majority.
* Tokens and CAs that expire (after ten years).
* Contents: the addresses and port lists of services (a registration is one value), DNS records,
  the forwarding of other names, JSON, PEM. The targets file is one step, so a
  reader or a crash between truncating and writing it is not seen.
* Rates: the heartbeat and configuration loops have no clock.
* Generated gRPC code, images, stacks and dashboards.

## 6. Plan

What is left:

* `AgentSync` with its registry as an instance of `Directory`.

Runs stay few: one per question, and instances shared where the bounds allow it.
