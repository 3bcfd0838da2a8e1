------------------------ MODULE MCRegistryAddresses ------------------------
(* Machines with up to two addresses, of both families and all scopes; join  *)
(* hosts of one family or of both, near some of the addresses; ports with    *)
(* and without room above them.                                              *)
EXTENDS RegistryAddresses

CONSTANTS peer, agent, first    \* host names

MCAddr(family, scope, subnet) == [family |-> family, scope |-> scope, subnet |-> subnet]

Lan4 == MCAddr("v4", "global", 4)
Wan4 == MCAddr("v4", "global", 5)
Lan6 == MCAddr("v6", "global", 6)
Local4 == MCAddr("v4", "linklocal", 7)
Local6 == MCAddr("v6", "linklocal", 8)
Loop4 == MCAddr("v4", "loopback", 9)

MCAddrs == {Lan4, Wan4, Lan6, Local4, Local6, Loop4}
MCInterfaces ==
    {<<>>} \cup {<<a>> : a \in MCAddrs}
        \cup {l \in MCAddrs \X MCAddrs : l[1] # l[2]}
        \cup {<<Loop4, Lan6, Lan4>>, <<Lan6, Wan4, Lan4>>, <<Local6, Lan6, Loop4>>}

MCLater == {<<Wan4>>}

MCJoin == {{}, {Lan4}, {Lan6}, {Local6}, {Lan4, Lan6}}

\* Host names matter to all of LoadConfig alike: they are varied without a join host.
MCEnv ==
    {e \in [peerHost : {None, peer}, agentHost : {None, agent}, join : MCJoin,
            etcdPort : {2380, 65533}, clientPort : {0}, peerPort : {0, 9000}, agentPort : {0}] :
        \/ e.join = {} /\ e.peerPort = 0
        \/ e.join = {} /\ e.peerHost = None /\ e.agentHost = None
        \/ e.peerHost = None /\ e.agentHost = None /\ e.etcdPort = 2380 /\ e.peerPort = 0}

MCProvided == HostWithPort(first, 2383)
=============================================================================
