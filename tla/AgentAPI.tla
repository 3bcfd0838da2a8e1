------------------------------ MODULE AgentAPI ------------------------------
(***************************************************************************)
(* The handlers of the registry that keep the service directory in etcd    *)
(* (registry/agent_api, registry/utils/utils.go): Register, Deregister and *)
(* Reset of the AgentAPI, Heartbeat of the NodeAPI, and GetNodeLease,      *)
(* which the first and the last share.                                     *)
(*                                                                         *)
(* Every registry of the cluster runs these handlers, each RPC in its own  *)
(* goroutine, and they meet only in etcd.  A step is one etcd request, so  *)
(* calls of one node, old and new incarnations of its agent included,      *)
(* interleave freely.  etcd may fail any request, with or without having   *)
(* carried it out.                                                         *)
(*                                                                         *)
(* A write that etcd reported as failed can still be applied a little      *)
(* later.  The model delays the end of such a call until its write has     *)
(* landed or is lost: calls are independent of each other, so nobody can   *)
(* tell the difference.                                                    *)
(***************************************************************************)
EXTENDS Naturals, FiniteSets, Rpc

CONSTANTS
    Lease,         \* lease ids; etcd never grants an id twice
    NoLease,
    NoEntry,       \* no value under a key of the directory
    MaxAttempts,   \* attempts of GetNodeLease
    RenewMayFail   \* LeaseRenew may time out on a lease that is alive

ASSUME MaxAttemptsAssumption == MaxAttempts \in Nat \ {0}
ASSUME RenewMayFailAssumption == RenewMayFail \in BOOLEAN
ASSUME NoLeaseAssumption == NoLease \notin Lease

VARIABLES
    live,      \* leases granted and neither expired nor revoked
    granted,   \* leases ever granted
    record,    \* node_lease/<dc>/<node>: the lease id and the key's version
    svcIndex,  \* svc/<service>/<location>/<dc>/<node>/<instance>
    dcIndex,   \* dcsvc/<dc>/<node>/<service>/<instance>
    pc,        \* where each call is
    req,       \* its request
    lease,     \* the lease id it holds in a local variable
    version,   \* the version of node_lease it has read
    tries,     \* attempts it has left
    reply,     \* what its handler is about to return
    answer     \* what its client was last told

etcd == <<live, granted, record, svcIndex, dcIndex>>
locals == <<lease, version, tries>>
client == <<req, answer>>
vars == <<live, granted, record, svcIndex, dcIndex,
          pc, req, lease, version, tries, reply, answer>>

Entry == [spec : ServiceSpec, lease : Lease]

ASSUME NoEntryAssumption == NoEntry \notin Entry

\* The version of a key is 0 until it is created: comparing versions stands for
\* both comparisons of the code (VERSION, or CREATE = 0 for an absent key).
LeaseRecord == [lease : Lease \cup {NoLease}, version : Nat]

Index == [Node -> [Svc -> Entry \cup {NoEntry}]]

Control == {"idle", "range", "renew", "grant", "cas", "put",
            "delete", "find", "revoke", "done"}

\* "unknown": etcd carried the request out but reported an error
Reply == {"none", "ok", "error", "unknown"}

\* The steps of one attempt of GetNodeLease.
GetNodeLease == {"range", "renew", "grant", "cas"}

\* The requests whose handler passes through location p.
RequestAt(p) ==
    CASE p = "idle" -> {NoRequest}
      [] p \in GetNodeLease ->
             HeartbeatRequest \cup RegisterServiceRequest
      [] p = "put" -> RegisterServiceRequest
      [] p = "delete" -> DeregisterServiceRequest
      [] p \in {"find", "revoke"} -> ResetRequest
      [] p = "done" -> Request

TypeOK ==
    /\ live \in SUBSET Lease
    /\ granted \in SUBSET Lease
    /\ record \in [Node -> LeaseRecord]
    /\ svcIndex \in Index
    /\ dcIndex \in Index
    /\ pc \in [Call -> Control]
    /\ req \in [Call -> Request \cup {NoRequest}]
    /\ lease \in [Call -> Lease \cup {NoLease}]
    /\ version \in [Call -> Nat]
    /\ tries \in [Call -> 0 .. MaxAttempts]
    /\ reply \in [Call -> Reply]
    /\ answer \in [Call -> {"none", "ok", "error"}]
    /\ \A c \in Call : req[c] \in RequestAt(pc[c])
    /\ \A c \in Call : pc[c] \in GetNodeLease => tries[c] > 0
-----------------------------------------------------------------------------
Init ==
    /\ live = {}
    /\ granted = {}
    /\ record = [n \in Node |-> [lease |-> NoLease, version |-> 0]]
    /\ svcIndex = [n \in Node |-> [k \in Svc |-> NoEntry]]
    /\ dcIndex = [n \in Node |-> [k \in Svc |-> NoEntry]]
    /\ pc = [c \in Call |-> "idle"]
    /\ req = [c \in Call |-> NoRequest]
    /\ lease = [c \in Call |-> NoLease]
    /\ version = [c \in Call |-> 0]
    /\ tries = [c \in Call |-> 0]
    /\ reply = [c \in Call |-> "none"]
    /\ answer = [c \in Call |-> "none"]
-----------------------------------------------------------------------------
\* Fault: the key of a lease leaves out the node's name.
SharedLeaseKey(c) == CHOOSE n \in Node : TRUE

\* The node whose node_lease key the call reads and writes.
LeaseKey(c) == req[c].node

At(c, p) == pc[c] = p

Goto(c, p) ==
    /\ pc' = [pc EXCEPT ![c] = p]
    /\ UNCHANGED reply

Finish(c, r) ==
    /\ pc' = [pc EXCEPT ![c] = "done"]
    /\ reply' = [reply EXCEPT ![c] = r]

\* An etcd error ends the handler; Heartbeat drops the error of GetNodeLease.
Fail(c) == Finish(c, IF req[c].op = "heartbeat" THEN "ok" ELSE "error")

\* The calling node is the one its certificate names; its location is fixed
\* when it is enrolled, so authentication only selects the request's node.
Invoke(c, r) ==
    /\ At(c, "idle")
    /\ req' = [req EXCEPT ![c] = r]
    /\ answer' = [answer EXCEPT ![c] = "none"]
    /\ tries' = [tries EXCEPT ![c] = MaxAttempts]
    /\ Goto(c, CASE r.op \in {"register", "heartbeat"} -> "range"
                 [] r.op = "deregister" -> "delete"
                 [] r.op = "reset" -> "find")
    /\ UNCHANGED <<etcd, lease, version>>

\* The end of a call that is not told ok also stands for the death of the
\* registry serving it and for the loss of its answer.
Return(c) ==
    /\ ~At(c, "idle")
    /\ \/ /\ At(c, "done") /\ reply[c] = "ok"
          /\ answer' = [answer EXCEPT ![c] = "ok"]
       \/ answer' = [answer EXCEPT ![c] = "error"]
    /\ pc' = [pc EXCEPT ![c] = "idle"]
    /\ req' = [req EXCEPT ![c] = NoRequest]
    /\ lease' = [lease EXCEPT ![c] = NoLease]
    /\ version' = [version EXCEPT ![c] = 0]
    /\ tries' = [tries EXCEPT ![c] = 0]
    /\ reply' = [reply EXCEPT ![c] = "none"]
    /\ UNCHANGED etcd

\* A request fails before it has had an effect.  LeaseRenew and LeaseRevoke have
\* error handling of their own.
EtcdError(c) ==
    /\ pc[c] \in {"range", "grant", "cas", "put", "delete", "find"}
    /\ Fail(c)
    /\ UNCHANGED <<etcd, client, locals>>
-----------------------------------------------------------------------------
(* GetNodeLease *)

\* The caller has its lease: Register goes on to write, Heartbeat is finished.
Leased(c) ==
    IF req[c].op = "register" THEN Goto(c, "put") ELSE Finish(c, "ok")

RangeNodeLease(c) ==
    /\ At(c, "range")
    /\ LET r == record[LeaseKey(c)] IN
       /\ lease' = [lease EXCEPT ![c] = r.lease]
       /\ version' = [version EXCEPT ![c] = r.version]
       /\ Goto(c, IF r.version = 0 THEN "grant" ELSE "renew")
    /\ UNCHANGED <<etcd, client, tries>>

\* "If we could renew the lease, stop processing, otherwise the lease might have
\* expired so a new one needs to be created": every error is taken for expiry.
LeaseRenew(c) ==
    /\ At(c, "renew")
    /\ \/ /\ lease[c] \in live
          /\ Leased(c)
       \/ /\ lease[c] \notin live \/ RenewMayFail
          /\ Goto(c, "grant")
    /\ UNCHANGED <<etcd, client, locals>>

LeaseGrant(c) ==
    /\ At(c, "grant")
    /\ \E l \in Lease \ granted :
          /\ granted' = granted \cup {l}
          /\ live' = live \cup {l}
          /\ lease' = [lease EXCEPT ![c] = l]
    /\ Goto(c, "cas")
    /\ UNCHANGED <<record, svcIndex, dcIndex, client, version, tries>>

\* Fault: the comparison of a key that was absent (CREATE = 0) is left out.
RecordUnmovedUnlessAbsent(c) ==
    version[c] = 0 \/ record[LeaseKey(c)].version = version[c]

\* Fault: the transaction has no comparison.
RecordTaken(c) == TRUE

\* The comparison that guards the write of node_lease.
RecordUnmoved(c) == record[LeaseKey(c)].version = version[c]

RecordLease(c) ==
    /\ At(c, "cas")
    /\ RecordUnmoved(c)
    /\ record' = [record EXCEPT ![LeaseKey(c)] =
                     [lease |-> lease[c], version |-> @.version + 1]]
    /\ Leased(c) \/ Fail(c)
    /\ UNCHANGED <<live, granted, svcIndex, dcIndex, client, locals>>

\* Fault: an attempt is not counted.
AttemptsUncounted(c) == tries[c] + 1

AttemptsLeft(c) == tries[c] - 1

\* Another call wrote node_lease first: start over, but not forever.
LoseRace(c) ==
    /\ At(c, "cas")
    /\ ~RecordUnmoved(c)
    /\ tries' = [tries EXCEPT ![c] = AttemptsLeft(c)]
    /\ IF AttemptsLeft(c) = 0 THEN Fail(c) ELSE Goto(c, "range")
    /\ UNCHANGED <<etcd, client, lease, version>>
-----------------------------------------------------------------------------
(* Register and Deregister *)

\* Fault: the entry is put without a lease.
EntryWithoutLease(c) == [spec |-> req[c].spec, lease |-> NoLease]

NewEntry(c) == [spec |-> req[c].spec, lease |-> lease[c]]

\* One transaction; etcd refuses a put under a lease that is gone.
RegisterPut(c) ==
    /\ At(c, "put")
    /\ lease[c] \in live
    /\ svcIndex' = [svcIndex EXCEPT ![req[c].node][req[c].svc] = NewEntry(c)]
    /\ dcIndex' = [dcIndex EXCEPT ![req[c].node][req[c].svc] = NewEntry(c)]
    /\ Finish(c, "ok") \/ Finish(c, "unknown")
    /\ UNCHANGED <<live, granted, record, client, locals>>

\* Fault: Deregister deletes the svc key only.
DcIndexKept(c) == dcIndex

DcIndexWithout(c) == [dcIndex EXCEPT ![req[c].node][req[c].svc] = NoEntry]

DeregisterDelete(c) ==
    /\ At(c, "delete")
    /\ svcIndex' = [svcIndex EXCEPT ![req[c].node][req[c].svc] = NoEntry]
    /\ dcIndex' = DcIndexWithout(c)
    /\ Finish(c, "ok") \/ Finish(c, "unknown")
    /\ UNCHANGED <<live, granted, record, client, locals>>
-----------------------------------------------------------------------------
(* Reset *)

ResetFind(c) ==
    /\ At(c, "find")
    /\ LET r == record[LeaseKey(c)] IN
       IF r.version = 0
       THEN Finish(c, "ok") /\ UNCHANGED lease
       ELSE Goto(c, "revoke") /\ lease' = [lease EXCEPT ![c] = r.lease]
    /\ UNCHANGED <<etcd, client, version, tries>>

Without(index, l) ==
    [n \in Node |-> [k \in Svc |->
        IF index[n][k] # NoEntry /\ index[n][k].lease = l
        THEN NoEntry ELSE index[n][k]]]

\* What etcd does when a lease ends: its keys go with it.
DropLease(l) ==
    /\ live' = live \ {l}
    /\ svcIndex' = Without(svcIndex, l)
    /\ dcIndex' = Without(dcIndex, l)
    /\ UNCHANGED <<granted, record>>

\* Fault: Reset answers ok whatever LeaseRevoke said.
RevokeErrorIgnored(c) == Finish(c, "ok")

RevokeError(c) == Finish(c, "error")

\* ErrLeaseNotFound is no error: the lease's services are gone already.
ResetRevoke(c) ==
    /\ At(c, "revoke")
    /\ \/ /\ lease[c] \in live
          /\ DropLease(lease[c])
          /\ Finish(c, "ok") \/ Finish(c, "unknown")
       \/ /\ lease[c] \notin live
          /\ Finish(c, "ok")
          /\ UNCHANGED etcd
       \/ /\ RevokeError(c)
          /\ UNCHANGED etcd
    /\ UNCHANGED <<client, locals>>
-----------------------------------------------------------------------------
\* A lease not renewed for NodeKeepaliveTTL ends.  Time is left out: a lease may
\* end at any moment, whether its node is alive, cut off or gone.
Expire(l) ==
    /\ l \in live
    /\ DropLease(l)
    /\ UNCHANGED <<pc, reply, client, locals>>

Handler(c) ==
    \/ EtcdError(c)
    \/ RangeNodeLease(c) \/ LeaseRenew(c) \/ LeaseGrant(c)
    \/ RecordLease(c) \/ LoseRace(c)
    \/ RegisterPut(c) \/ DeregisterDelete(c)
    \/ ResetFind(c) \/ ResetRevoke(c)

Next ==
    \/ \E c \in Call :
          \/ \E r \in Request : Invoke(c, r)
          \/ Handler(c)
          \/ Return(c)
    \/ \E l \in Lease : Expire(l)

Spec == Init /\ [][Next]_vars
-----------------------------------------------------------------------------
(* Properties *)

\* Every service of a node hangs on the lease its node_lease key names, and that
\* lease is alive: the next heartbeat keeps all of them, a reset takes all of
\* them (GetNodeLease against itself, Register and Reset).
ServicesOnRecordedLease ==
    \A n \in Node, k \in Svc : svcIndex[n][k] # NoEntry =>
        /\ svcIndex[n][k].lease = record[n].lease
        /\ record[n].lease \in live

\* Discover (svc keys) and the observers (dcsvc keys) read the same directory:
\* Register, Deregister, Reset and expiry leave the two indexes equal.
IndexesAgree == svcIndex = dcIndex

\* GetNodeLease replaces the lease of a node only when that lease has ended.
LeaseReplacedOnlyWhenDead ==
    [][\A n \in Node :
          record'[n] # record[n] => record[n].lease \notin live]_vars

\* A step changes the services of at most one node: no lease, reset or expiry
\* reaches the services of another node.
NodesChangeApart ==
    [][\A m, n \in Node :
          svcIndex'[m] # svcIndex[m] /\ svcIndex'[n] # svcIndex[n] => m = n]_vars

\* The lease will not be renewed: no call is about to, and none can find it.
Renewing(l) == \E c \in Call : At(c, "renew") /\ lease[c] = l

\* A handler never stops halfway, and a lease that is not renewed again ends.
Fairness ==
    /\ \A c \in Call : WF_vars(Handler(c)) /\ WF_vars(At(c, "done") /\ Return(c))
    /\ \A l \in Lease : WF_vars(~Renewing(l) /\ Expire(l))

FairSpec == Spec /\ Fairness

Orphaned(n, k) == /\ svcIndex[n][k] # NoEntry
                  /\ svcIndex[n][k].lease # record[n].lease

\* A service left behind on a lease its node no longer uses disappears, however
\* many heartbeats the node sends (GetNodeLease gave the node a second lease).
OrphanedServiceGoes ==
    \A n \in Node, k \in Svc : Orphaned(n, k) ~> ~Orphaned(n, k)

Serving(n) == \E c \in Call : req[c] \in Request /\ req[c].node = n

\* The services of a node that goes silent are forgotten without a Reset.
SilentNodeForgotten ==
    \A n \in Node :
        <>[](~Serving(n)) => <>[](\A k \in Svc : svcIndex[n][k] = NoEntry)
-----------------------------------------------------------------------------
(* The inductive invariant of the proofs.  It holds of the system in which   *)
(* LeaseRenew fails for dead leases only.                                     *)

\* Nothing names a lease etcd has not granted, so a lease just granted is new.
LeasesGranted ==
    /\ live \subseteq granted
    /\ \A n \in Node : record[n].lease \in granted \cup {NoLease}
    /\ \A n \in Node : record[n].version = 0 => record[n].lease = NoLease
    /\ \A c \in Call : lease[c] \in granted \cup {NoLease}

\* What a call has read is at most as new as the record.
ReadsNotAhead ==
    \A c \in Call : pc[c] \in {"renew", "grant", "cas"} =>
        version[c] <= record[req[c].node].version

\* What each step of GetNodeLease has established about the record, which holds
\* until the record moves on.
LeaseStepsSound ==
    \A c \in Call :
        /\ pc[c] = "renew" /\ version[c] = record[req[c].node].version =>
               record[req[c].node].lease = lease[c]
        /\ pc[c] \in {"renew", "put"} /\ lease[c] \in live =>
               record[req[c].node].lease = lease[c]
        /\ pc[c] \in {"grant", "cas"} /\ version[c] = record[req[c].node].version =>
               record[req[c].node].lease \notin live

IInv ==
    /\ LeasesGranted
    /\ ReadsNotAhead
    /\ LeaseStepsSound
    /\ IndexesAgree
    /\ ServicesOnRecordedLease

\* What node n refers to, in etcd or in a running call.
Refers(n, l) ==
    \/ record[n].lease = l
    \/ \E c \in Call : pc[c] # "idle" /\ req[c].node = n /\ lease[c] = l
    \/ \E k \in Svc : svcIndex[n][k] # NoEntry /\ svcIndex[n][k].lease = l

\* No two nodes refer to the same lease, whether or not renewals fail.
LeasesApart ==
    /\ \A l \in Lease, m \in Node : Refers(m, l) =>
           /\ l \in granted
           /\ \A n \in Node : Refers(n, l) => m = n
    /\ \A c \in Call : pc[c] = "idle" => lease[c] = NoLease
=============================================================================
