--------------------------- MODULE RegistryConfig ---------------------------
(***************************************************************************)
(* What a registry makes of its configuration (registry/config/config.go): *)
(* the address that it advertises, chosen among those of its interfaces if *)
(* none is configured, and its four ports, of which three follow from the  *)
(* others.                                                                 *)
(*                                                                         *)
(* An address has a family, a scope and the subnet it is in.               *)
(***************************************************************************)
EXTENDS Naturals, Sequences

CONSTANT None    \* not configured; no address

Family == {"v4", "v6"}

Scope == {"global", "linklocal", "loopback"}

MachineAddress == [family : Family, scope : Scope, subnet : Nat]

\* The ports are of type uint16.
Width == 65536

Port == 0 .. Width - 1

First(is) == CHOOSE i \in is : \A j \in is : i <= j

\* Fault: the addresses of the join host do not matter.
NoSubnet(join, addrs) == {}

\* The interfaces in a subnet with an address of the join host.
SameSubnet(join, addrs) ==
    {i \in DOMAIN addrs : \E j \in join : j.subnet = addrs[i].subnet}

\* Without a join host both families will do.
Supported(family, join) == join = {} \/ \E j \in join : j.family = family

\* Fault: the first address wins.
PreferFirst(best, addr) == best = None

\* The first address wins, except that IPv4 is preferred.
Prefer(best, addr) == best = None \/ (best.family = "v6" /\ addr.family = "v4")

\* The best of the first n addresses.
Search(join, addrs) ==
    LET eligible(a) == a.scope # "linklocal" /\ Supported(a.family, join)
        best[n \in 0 .. Len(addrs)] ==
            IF n = 0 THEN None
            ELSE IF eligible(addrs[n]) /\ Prefer(best[n - 1], addrs[n]) THEN addrs[n]
            ELSE best[n - 1]
    IN  best

FindBestAddr(join, addrs) ==
    LET same == SameSubnet(join, addrs)
    IN  IF same # {} THEN addrs[First(same)] ELSE Search(join, addrs)[Len(addrs)]

\* Hostname.IsValid, as the defaults use it.
Or(hostname, default) == IF hostname # None THEN hostname ELSE default

PeerAdvertiseHostname(env, addrs) == Or(env.peerHost, FindBestAddr(env.join, addrs))

AgentAPIAdvertiseHostname(env, addrs) ==
    Or(env.agentHost, PeerAdvertiseHostname(env, addrs))

\* Fault: the sum is not cut to 16 bits.
PortOrWide(port, before) == IF port # 0 THEN port ELSE before + 1

\* A port that is 0 was not set: it is the one before it plus 1, in 16 bits.
PortOr(port, before) == IF port # 0 THEN port ELSE (before + 1) % Width

EtcdClientListenPort(env) == PortOr(env.clientPort, env.etcdPort)
PeerAPIListenPort(env) == PortOr(env.peerPort, EtcdClientListenPort(env))
AgentAPIListenPort(env) == PortOr(env.agentPort, PeerAPIListenPort(env))

HostWithPort(hostname, port) == [host |-> hostname, port |-> port]

\* LoadConfig: what the rest of the registry uses of it.
LoadConfig(env, addrs) ==
    [peerAPIHost |-> HostWithPort(PeerAdvertiseHostname(env, addrs), PeerAPIListenPort(env)),
     agentAPIHost |-> HostWithPort(AgentAPIAdvertiseHostname(env, addrs),
                                   AgentAPIListenPort(env))]
=============================================================================
