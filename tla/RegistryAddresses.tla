-------------------------- MODULE RegistryAddresses --------------------------
(***************************************************************************)
(* How a node knows where its registries are.  A registry that has started *)
(* puts the address of its agent API, which LoadConfig determines, under   *)
(* the peer_agent_api prefix (registry/etcd/etcd.go).  A node starts with  *)
(* the addresses that the operator provides, asks for those under the      *)
(* prefix every minute (Config), uses them from then on and keeps them in  *)
(* the file addrs for its next start (node-utils/lib.go).                  *)
(*                                                                         *)
(* There are two registries: the one that the operator provides, whose     *)
(* address is configured, and a second one, in all environments that       *)
(* LoadConfig distinguishes.                                               *)
(***************************************************************************)
EXTENDS RegistryConfig, FiniteSets

CONSTANTS
    Env,          \* the environment variables of the second registry
    Interfaces,   \* the addresses its machine may have at first, as lists
    Later,        \* those it may get later
    Provided,     \* the address of the first registry
    MaxMoves,     \* bound: changes of the machine's addresses
    MaxFaults     \* bound: crashes and errors

ASSUME AddressesAssumption ==
    /\ Interfaces \cup Later \subseteq Seq(MachineAddress)
    /\ None \notin MachineAddress
    /\ \A e \in Env : {e.etcdPort, e.clientPort, e.peerPort, e.agentPort} \subseteq Port
    /\ Provided.port \in Port
    /\ {MaxMoves, MaxFaults} \subseteq Nat

Registry == {"first", "second"}

VARIABLES
    env,        \* the environment of the second registry
    addrs,      \* the addresses of its machine
    config,     \* what its present or last process has loaded
    moved,      \* the addresses have changed since
    pc,         \* the registries: "down", "publishing", "up"
    key,        \* the peer_agent_api keys
    failed,     \* the registries that have ever failed to publish their address
    node,       \* the node: "down", "loading", "writing", "up"
    file,       \* the addresses in its file addrs
    known,      \* the addresses of its resolver
    moves,
    faults

machine == <<env, addrs, moved, moves>>
registries == <<config, pc, key, failed>>
client == <<node, file, known>>
vars == <<env, addrs, config, moved, pc, key, failed, node, file, known, moves, faults>>

Address(r) == IF r = "first" THEN Provided ELSE config.agentAPIHost

\* A list as a set; the set is empty for a file that has just been truncated.
AddressList(s) == \A a \in s : a.port \in Port

TypeOK ==
    /\ env \in Env /\ addrs \in Interfaces \cup Later
    /\ pc \in [Registry -> {"down", "publishing", "up"}]
    /\ config.agentAPIHost.port \in Port
    /\ DOMAIN key \subseteq Registry /\ AddressList({key[r] : r \in DOMAIN key})
    /\ failed \subseteq Registry
    /\ node \in {"down", "loading", "writing", "up"}
    /\ file = None \/ AddressList(file)
    /\ AddressList(known)
    /\ node = "down" => known = {}
    /\ moves \in 0 .. MaxMoves /\ faults \in 0 .. MaxFaults

Init ==
    /\ env \in Env /\ addrs \in Interfaces
    /\ config = LoadConfig(env, addrs)
    /\ moved = FALSE
    /\ pc = [r \in Registry |-> "down"]
    /\ key = <<>> /\ failed = {}
    /\ node = "down" /\ file = None /\ known = {}
    /\ moves = 0 /\ faults = 0

Fault == faults < MaxFaults /\ faults' = faults + 1
-----------------------------------------------------------------------------
(* The registries. *)

StartRegistry(r) ==
    /\ pc[r] = "down"
    /\ pc' = [pc EXCEPT ![r] = "publishing"]
    /\ IF r = "second" THEN config' = LoadConfig(env, addrs) /\ moved' = FALSE
       ELSE UNCHANGED <<config, moved>>
    /\ UNCHANGED <<env, addrs, key, failed, client, moves, faults>>

\* EtcdPostStartUpdate only logs that the address could not be put.  Then the agent
\* API is served.
Publish(r) ==
    /\ pc[r] = "publishing"
    /\ pc' = [pc EXCEPT ![r] = "up"]
    /\ \/ /\ key' = [s \in DOMAIN key \cup {r} |-> IF s = r THEN Address(r) ELSE key[s]]
          /\ UNCHANGED <<failed, faults>>
       \/ Fault /\ failed' = failed \cup {r} /\ UNCHANGED key
    /\ UNCHANGED <<machine, config, client>>

StopRegistry(r) ==
    /\ pc[r] # "down" /\ Fault
    /\ pc' = [pc EXCEPT ![r] = "down"]
    /\ UNCHANGED <<machine, config, key, failed, client>>

\* The machine of the second registry gets other addresses.
Move(list) ==
    /\ moves < MaxMoves /\ moves' = moves + 1
    /\ list # addrs
    /\ addrs' = list
    /\ moved' = TRUE
    /\ UNCHANGED <<env, registries, client, faults>>

Has(list, addr) == \E i \in DOMAIN list : list[i] = addr

\* Somebody on another machine reaches the second registry there.  Names lead to
\* the machine; a port of 0 lets the system choose one.  The registry listens on all
\* its addresses, the default of AGENT_LISTEN_ADDR.
Leads(addr) ==
    /\ addr.port = config.agentAPIHost.port /\ addr.port # 0
    /\ \/ addr.host \in {env.peerHost, env.agentHost} \ {None}
       \/ Has(addrs, addr.host) /\ addr.host.scope = "global"

Serves(r, addr) ==
    /\ pc[r] = "up"
    /\ IF r = "first" THEN addr = Provided ELSE Leads(addr)

Connected == \E r \in Registry, a \in known : Serves(r, a)
-----------------------------------------------------------------------------
(* The node. *)

\* Fault: an empty file is a file.
FileOr(list, default) == IF list = None THEN default ELSE list

\* loadRegistryAddresses: a file without a line counts for nothing.
LinesOr(list, default) == IF list \in {None, {}} THEN default ELSE list

\* The provided addresses are written to the file if it has none, before the node runs.
LoadNodeState ==
    /\ node = "down"
    /\ known' = LinesOr(file, {Provided})
    /\ IF file = known' THEN node' = "up" /\ UNCHANGED file
       ELSE node' = "loading" /\ file' = {}
    /\ UNCHANGED <<machine, registries, faults>>

\* Fault: the resolver keeps its addresses.
ReloadNothing(list) == UNCHANGED known

\* registryResolver.reload
Reload(list) == known' = list

\* GetRegistryConfig, UpdateAddrs: any registry answers with all keys.  The resolver
\* takes them before the file does.
UpdateAddrs ==
    /\ node = "up" /\ Connected
    /\ Reload({key[r] : r \in DOMAIN key})
    /\ file' = {} /\ node' = "writing"
    /\ UNCHANGED <<machine, registries, faults>>

\* writeRegistryAddresses: the file has been truncated, and is filled at last.
Flush ==
    /\ node \in {"loading", "writing"}
    /\ node' = "up"
    /\ file' = known
    /\ UNCHANGED <<machine, registries, known, faults>>

\* loadRegistryAddresses ends the process (log.Fatalf).
LoadFails ==
    /\ node = "loading" /\ Fault
    /\ node' = "down" /\ known' = {}
    /\ UNCHANGED <<machine, registries, file>>

\* UpdateAddrs logs the error.
FlushFails ==
    /\ node = "writing" /\ Fault
    /\ node' = "up"
    /\ UNCHANGED <<machine, registries, file, known>>

Crash ==
    /\ node # "down" /\ Fault
    /\ node' = "down" /\ known' = {}
    /\ UNCHANGED <<machine, registries, file>>

Next ==
    \/ \E r \in Registry : StartRegistry(r) \/ Publish(r) \/ StopRegistry(r)
    \/ \E list \in Later : Move(list)
    \/ LoadNodeState \/ LoadFails \/ UpdateAddrs \/ Flush \/ FlushFails \/ Crash

Spec == Init /\ [][Next]_vars

\* The supervisors start registries and nodes again (restart: always); a node that
\* runs asks for its configuration every minute.
Fairness ==
    /\ \A r \in Registry : WF_vars(StartRegistry(r)) /\ WF_vars(Publish(r))
    /\ WF_vars(LoadNodeState) /\ WF_vars(UpdateAddrs) /\ WF_vars(Flush)

FairSpec == Spec /\ Fairness
-----------------------------------------------------------------------------
(* Properties *)

\* The interfaces in a subnet with the join host, those that findBestAddr may take
\* otherwise, and those that other machines can use.
Near == {i \in DOMAIN addrs : \E j \in env.join : j.subnet = addrs[i].subnet}
Eligible == {i \in DOMAIN addrs : /\ addrs[i].scope # "linklocal"
                                  /\ Supported(addrs[i].family, env.join)}
Global == {i \in DOMAIN addrs : addrs[i].scope = "global"}

\* findBestAddr returns the first address in a subnet with the join host, or else the
\* first of those that are not link-local and of a family the join host has, the IPv4
\* ones before the others.
BestAddress ==
    LET v4 == {i \in Eligible : addrs[i].family = "v4"}
        rank == IF Near # {} THEN Near ELSE IF v4 # {} THEN v4 ELSE Eligible
    IN  FindBestAddr(env.join, addrs) = IF rank = {} THEN None ELSE addrs[First(rank)]

\* LoadConfig and EtcdPostStartUpdate: what a registry publishes leads to it if a host
\* name is configured, or if the addresses near the join host, or those that could be
\* taken when none is near, are global (a loopback address may be taken otherwise); and
\* if the default of its last port does not wrap around to 0.
PublishedLeadsHere ==
    /\ pc["second"] = "up" /\ "second" \notin failed /\ ~moved
    /\ env.agentPort # 0 \/ PeerAPIListenPort(env) # Width - 1
    /\ \/ env.peerHost # None \/ env.agentHost # None
       \/ LET usable == IF Near # {} THEN Near ELSE Eligible
          IN  usable # {} /\ usable \subseteq Global
    => Leads(key["second"])

\* LoadNodeState and UpdateAddrs: a node always has an address to try, whatever writes
\* were interrupted or failed, unless a registry has not published its own.
SomeAddressKnown == node # "down" /\ known = {} => failed # {}

\* The inductive invariant of the proofs: what a registry has loaded is what its machine
\* gives until that changes, and a registry that is up has its address under its key.
IInv ==
    /\ TypeOK
    /\ ~moved => config = LoadConfig(env, addrs)
    /\ \A r \in Registry :
           pc[r] = "up" /\ r \notin failed => r \in DOMAIN key /\ key[r] = Address(r)
    /\ SomeAddressKnown

\* EtcdPostStartUpdate, Config and UpdateAddrs: a node that the operator has pointed at
\* a registry that stays is connected for good and knows what all registries last
\* published, wherever the others move, if none has failed to publish its address.
LearnsRegistries ==
    <>[](pc["first"] = "up") /\ [](failed = {})
        => <>[](Connected /\ known = {key[r] : r \in DOMAIN key})
=============================================================================
