----------------------------- MODULE Discovery -----------------------------
(***************************************************************************)
(* Finding the instances of one service: the agent's DNS handler turns a   *)
(* name under cluster.internal into a Discover call (agent/dns.go), and    *)
(* the registry looks for three instances near the caller                  *)
(* (registry/agent_api/discover.go), reading wider and wider prefixes of   *)
(* the svc keys while services come and go.                                *)
(*                                                                         *)
(* The key of an instance is <<location, datacenter, node, instance>>; its *)
(* parts are numbers, in the order of etcd's keys.                         *)
(***************************************************************************)
EXTENDS Naturals, Sequences, FiniteSets

CONSTANTS
    Key,         \* the instances that may be registered
    Self,        \* <<location, datacenter, node>> of the caller
    None,        \* an optional field that is not set
    Limit,       \* MaxGetServiceLimit
    MaxChanges   \* bound: registrations that come or go during the calls

ASSUME KeyAssumption == Key \subseteq Nat \X Nat \X Nat \X Nat /\ IsFiniteSet(Key)
ASSUME SelfAssumption == Self \in Nat \X Nat \X Nat
ASSUME NoneAssumption == None \notin Nat
ASSUME LimitAssumption == Limit \in Nat \ {0} /\ MaxChanges \in Nat

VARIABLES
    registered,  \* the instances in the svc keys
    labels,      \* the labels of the name before the service, widest first
    req,         \* the Discover request
    pc,          \* where the call is: the prefix it reads next
    found,       \* svcs: the instances collected so far
    stable,      \* the instances registered throughout the call
    failed,      \* a read of the call has failed
    changes

vars == <<registered, labels, req, pc, found, stable, failed, changes>>

\* At most five labels, the service's own among them.
Name == {<<>>} \cup {SubSeq(k, 1, n) : k \in Key, n \in 1 .. 4}

OptionalLabel == Nat \cup {None}

DiscoverRequest == [location : OptionalLabel, datacenter : OptionalLabel,
                    node : OptionalLabel, instance : OptionalLabel]

TypeOK ==
    /\ registered \in SUBSET Key
    /\ labels \in Name
    /\ req \in DiscoverRequest
    /\ pc \in {"idle", "name", "dc", "loc", "all", "done", "error"}
    /\ found \in SUBSET Key /\ Cardinality(found) <= Limit
    /\ stable \in SUBSET registered
    /\ failed \in BOOLEAN
    /\ changes \in 0 .. MaxChanges

NoRequest == [location |-> None, datacenter |-> None, node |-> None, instance |-> None]

Init ==
    /\ registered \in SUBSET Key
    /\ labels = <<>> /\ req = NoRequest
    /\ pc = "idle"
    /\ found = {} /\ stable = {} /\ failed = FALSE
    /\ changes = 0
-----------------------------------------------------------------------------
Less(a, b) ==
    \E i \in 1 .. 4 : a[i] < b[i] /\ \A j \in 1 .. i - 1 : a[j] = b[j]

Under(keys, prefix) ==
    {k \in keys : \A i \in 1 .. Len(prefix) : k[i] = prefix[i]}

\* Fault: only as many keys are asked for as are still missing.
RangeMissing(prefix, n) ==
    LET all == Under(registered, prefix) IN
    {k \in all : Cardinality({j \in all : Less(j, k)}) < n - Cardinality(found)}

\* An etcd range with a limit: the first n keys under the prefix.
GetRange(prefix, n) ==
    LET all == Under(registered, prefix) IN
    {k \in all : Cardinality({j \in all : Less(j, k)}) < n}

Or(field, default) == IF field = None THEN default ELSE field

LocPrefix == <<Or(req.location, Self[1])>>
DcPrefix == Append(LocPrefix, Or(req.datacenter, Self[2]))
NamePrefix == Append(DcPrefix, Or(req.node, Self[3]))

Prefix(level) ==
    CASE level = "name" -> NamePrefix
      [] level = "dc" -> DcPrefix
      [] level = "loc" -> LocPrefix
      [] level = "all" -> <<>>

\* Fault: only a request for a node keeps the search from widening.
MayWidenAnyway(level) == level = "dc" => req.node = None

\* Discover widens the search only beyond what the request leaves open.
MayWiden(level) ==
    CASE level = "dc" -> req.node = None
      [] level = "loc" -> req.datacenter = None
      [] level = "all" -> req.location = None

Level == <<"dc", "loc", "all">>

\* The next prefix to read with the instances f, from the i-th level on.
NextLevel(i, f) ==
    LET open == {j \in i .. 3 : MayWiden(Level[j])} IN
    IF Cardinality(f) >= Limit \/ open = {} THEN "done"
    ELSE Level[CHOOSE j \in open : \A h \in open : j <= h]

After(level) == CASE level = "name" -> 1 [] level = "dc" -> 2
                  [] level = "loc" -> 3 [] level = "all" -> 4

\* The thresholds of the code: the node is taken from a name of five labels only,
\* and the instance would need a sixth.
DnsRequest(ls) ==
    [location |-> IF Len(ls) > 0 THEN ls[1] ELSE None,
     datacenter |-> IF Len(ls) > 1 THEN ls[2] ELSE None,
     node |-> IF Len(ls) > 3 THEN ls[3] ELSE None,
     instance |-> IF Len(ls) > 4 THEN ls[4] ELSE None]

\* ServeDNS receives a question.  A name outside cluster.internal is looked up too,
\* and its answer dropped.
ServeDNS(ls) ==
    /\ pc \in {"idle", "done", "error"}
    /\ labels' = ls
    /\ req' = DnsRequest(ls)
    /\ pc' = "name"
    /\ found' = {} /\ stable' = registered /\ failed' = FALSE
    /\ UNCHANGED <<registered, changes>>

Collect(level, f) ==
    /\ found' = f
    /\ pc' = NextLevel(After(level), f)
    /\ UNCHANGED <<registered, labels, req, stable, changes>>

\* The first read.  The key of an instance is built from a pointer, so it is found
\* under no key; its failure ends the call.
GetServices ==
    /\ pc = "name"
    /\ \/ /\ Collect("name", IF req.instance = None THEN GetRange(NamePrefix, Limit) ELSE {})
          /\ UNCHANGED failed
       \/ /\ pc' = "error" /\ failed' = TRUE
          /\ UNCHANGED <<registered, labels, req, found, stable, changes>>

\* Fault: the limit is not looked at while instances are added.
FilledUp(extra) == {found \cup extra}

\* Instances are added in no particular order until there are Limit.
Filled(extra) ==
    {f \in SUBSET (found \cup extra) :
        /\ found \subseteq f
        /\ Cardinality(f) <= Limit
        /\ Cardinality(f) = Limit \/ f = found \cup extra}

\* The failure of fillServices is ignored: the instances found so far are kept.
FillServices ==
    /\ pc \in {"dc", "loc", "all"}
    /\ \/ /\ \E f \in Filled(GetRange(Prefix(pc), Limit)) : Collect(pc, f)
          /\ UNCHANGED failed
       \/ Collect(pc, found) /\ failed' = TRUE

ChangeServices(k) ==
    /\ changes < MaxChanges
    /\ changes' = changes + 1
    /\ registered' = IF k \in registered THEN registered \ {k} ELSE registered \cup {k}
    /\ stable' = stable \ {k}
    /\ UNCHANGED <<labels, req, pc, found, failed>>

Next ==
    \/ \E ls \in Name : ServeDNS(ls)
    \/ GetServices \/ FillServices
    \/ \E k \in Key : ChangeServices(k)

Spec == Init /\ [][Next]_vars
-----------------------------------------------------------------------------
(* Properties *)

\* The prefixes the request lets Discover read.
Allowed ==
    {NamePrefix} \cup (IF req.node = None THEN {DcPrefix} ELSE {})
        \cup (IF req.datacenter = None THEN {LocPrefix} ELSE {})
        \cup (IF req.location = None THEN {<<>>} ELSE {})

\* There are as many instances under the prefix as there could be.
Served(p) ==
    \/ Cardinality(Under(found, p)) >= Limit
    \/ Cardinality(Under(found, p)) >= Cardinality(Under(stable, p))

\* However services come and go between the reads of one Discover, and although a
\* read may return instances it has already: of every prefix it may read, the answer
\* holds as many instances as stayed registered throughout, up to the limit.  So the
\* nearest instances come first, and no answer is short while others exist.
NearestServed ==
    pc = "done" /\ ~failed => \A p \in Allowed : Served(p)

\* What a name pins down: the location, the datacenter and, in a name of five
\* labels, the node.
Pinned(ls) == SubSeq(ls, 1, IF Len(ls) = 3 THEN 2 ELSE IF Len(ls) = 4 THEN 3 ELSE Len(ls))

\* ServeDNS and Discover together: every instance returned is where its name says.
AnswersWithinName == Under(found, Pinned(labels)) = found
-----------------------------------------------------------------------------
(* The inductive invariant of the proofs *)

\* How long the prefix of a level is.
Depth == [name |-> 3, dc |-> 2, loc |-> 1, all |-> 0]

\* The prefixes that a call which is there has read, of those it may read: it goes from
\* the longest to the shortest.
Passed(at) ==
    {p \in Allowed : at = "done" \/ (at \in DOMAIN Depth /\ Len(p) > Depth[at])}

\* What was found so far is also under the prefix that is read next.
Widening ==
    /\ pc \in {"idle", "name"} => found = {}
    /\ \A level \in {"dc", "loc", "all"} : pc = level =>
           MayWiden(level) /\ Under(found, Prefix(level)) = found

IInv ==
    /\ TypeOK
    /\ req = DnsRequest(labels)
    /\ Widening
    /\ ~failed => \A p \in Passed(pc) : Served(p)
    /\ AnswersWithinName
=============================================================================
