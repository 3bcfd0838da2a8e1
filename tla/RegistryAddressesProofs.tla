----------------------- MODULE RegistryAddressesProofs ----------------------
(***************************************************************************)
(* Proofs about RegistryConfig and RegistryAddresses: which address a      *)
(* registry chooses, that what it publishes leads to it, and that a node   *)
(* always has an address to try.                                           *)
(*                                                                         *)
(* The search of findBestAddr goes through a list of any length.  What it  *)
(* has found after n addresses has a closed form, which satisfies the      *)
(* recursion; and a function that satisfies it has no other value, for its *)
(* least difference from the closed form would be none.                    *)
(***************************************************************************)
EXTENDS RegistryAddresses, WellFoundedInduction, SequenceTheorems, TLAPS
-----------------------------------------------------------------------------
(* The least of some numbers *)

LessNat == {p \in Nat \X Nat : p[1] < p[2]}

LEMMA LessNatWellFounded == IsWellFoundedOn(LessNat, Nat)
BY NatLessThanWellFounded DEF OpToRel, LessNat

LEMMA Least ==
    ASSUME NEW S \in SUBSET Nat, S # {}
    PROVE  First(S) \in S /\ \A j \in S : First(S) <= j
<1>1. PICK m \in S : \A i \in S : <<i, m>> \notin LessNat
    BY LessNatWellFounded, WFMin, Zenon
<1>2. \A i \in S : m <= i
    <2>1. \A i, k \in Nat : i < k => <<i, k>> \in LessNat
        BY DEF LessNat
    <2>2. \A i \in S : ~(i < m)
        BY <1>1, <2>1
    <2> QED BY <2>2
<1> QED BY <1>2 DEF First

LEMMA LeastIs ==
    ASSUME NEW S \in SUBSET Nat, NEW m \in S, \A j \in S : m <= j
    PROVE  First(S) = m
<1>1. First(S) \in S /\ First(S) <= m
    BY Least
<1>2. m <= First(S) /\ m \in Nat /\ First(S) \in Nat
    BY <1>1
<1> QED BY <1>1, <1>2

\* What comes later is not the first.
LEMMA FirstStays ==
    ASSUME NEW S \in SUBSET Nat, NEW T \in SUBSET Nat, S # {}, S \subseteq T,
           \A i \in S, j \in T \ S : i <= j
    PROVE  First(T) = First(S)
<1>1. First(S) \in S /\ \A j \in S : First(S) <= j
    BY Least
<1>2. \A j \in T : First(S) <= j
    BY <1>1
<1> QED BY <1>1, <1>2, LeastIs
-----------------------------------------------------------------------------
(* The search *)

Takes(join, list) ==
    {i \in DOMAIN list : list[i].scope # "linklocal" /\ Supported(list[i].family, join)}

IPv4(list, is) == {i \in is : list[i].family = "v4"}

UpTo(is, n) == {i \in is : i <= n}

\* The address that the search prefers among those with the indices is.
Preferred(list, is) ==
    IF IPv4(list, is) # {} THEN list[First(IPv4(list, is))]
    ELSE IF is # {} THEN list[First(is)]
    ELSE None

LEMMA ListFacts ==
    ASSUME NEW list \in Seq(MachineAddress)
    PROVE  /\ Len(list) \in Nat /\ DOMAIN list = 1 .. Len(list)
           /\ \A i \in DOMAIN list : list[i] \in MachineAddress /\ list[i] # None
           /\ \A i \in DOMAIN list : list[i].family = "v4" \/ list[i].family = "v6"
<1>1. Len(list) \in Nat /\ DOMAIN list = 1 .. Len(list)
    BY LenProperties
<1>2. \A i \in DOMAIN list : list[i] \in MachineAddress
    BY <1>1, ElementOfSeq
<1>3. \A i \in DOMAIN list : list[i] # None
    BY <1>2, AddressesAssumption
<1>4. \A i \in DOMAIN list : list[i].family = "v4" \/ list[i].family = "v6"
    BY <1>2 DEF MachineAddress, Family
<1> QED BY <1>1, <1>2, <1>3, <1>4

\* Among nothing the search prefers nothing.
LEMMA PreferredOfNone ==
    ASSUME NEW list
    PROVE  Preferred(list, {}) = None
BY DEF Preferred, IPv4

\* One more address: it is the preferred one if Prefer says so.
LEMMA PreferredOfMore ==
    ASSUME NEW list \in Seq(MachineAddress), NEW is \in SUBSET DOMAIN list,
           NEW n \in DOMAIN list, \A i \in is : i < n
    PROVE  Preferred(list, is \cup {n}) =
               IF Prefer(Preferred(list, is), list[n]) THEN list[n]
               ELSE Preferred(list, is)
<1> DEFINE more == is \cup {n}
<1>1. /\ is \in SUBSET Nat /\ more \in SUBSET Nat /\ n \in Nat /\ n \notin is
      /\ IPv4(list, is) \in SUBSET is /\ IPv4(list, more) \in SUBSET more
    BY ListFacts DEF IPv4
<1>2. CASE is = {}
    <2>1. First(more) = n
        BY <1>1, <1>2, LeastIs
    <2>2. IPv4(list, more) # {} => First(IPv4(list, more)) = n
        <3>1. ASSUME IPv4(list, more) # {} PROVE IPv4(list, more) = {n}
            BY <1>2, <3>1 DEF IPv4
        <3>2. First({n}) = n
            BY <1>1, LeastIs
        <3> QED BY <3>1, <3>2
    <2>3. Preferred(list, more) = list[n]
        BY <2>1, <2>2 DEF Preferred
    <2>4. Preferred(list, is) = None
        BY <1>2, PreferredOfNone
    <2> QED BY <2>3, <2>4 DEF Prefer
<1>3. CASE IPv4(list, is) # {}
    <2> DEFINE f == First(IPv4(list, is))
    <2>1. IPv4(list, is) \in SUBSET Nat
        BY <1>1
    <2>2. f \in is /\ list[f].family = "v4"
        BY <1>3, <2>1, Least DEF IPv4
    <2>3. First(IPv4(list, more)) = f
        <3>1. /\ IPv4(list, is) \subseteq IPv4(list, more)
              /\ \A j \in IPv4(list, more) \ IPv4(list, is) : j = n
            BY DEF IPv4
        <3>2. \A i \in IPv4(list, is) : i <= n
            BY <1>1 DEF IPv4
        <3>4. \A i \in IPv4(list, is), j \in IPv4(list, more) \ IPv4(list, is) : i <= j
            BY <3>1, <3>2
        <3>3. IPv4(list, more) \in SUBSET Nat
            BY <1>1
        <3> QED BY <1>3, <2>1, <3>1, <3>3, <3>4, FirstStays
    <2>4. IPv4(list, more) # {}
        BY <1>3 DEF IPv4
    <2>5. Preferred(list, is) = list[f] /\ Preferred(list, more) = list[f]
        BY <1>3, <2>3, <2>4 DEF Preferred
    <2>6. list[f] # None /\ list[f].family # "v6"
        BY <2>2, ListFacts
    <2> HIDE DEF f
    <2> QED BY <2>5, <2>6 DEF Prefer
<1>4. CASE is # {} /\ IPv4(list, is) = {}
    <2> DEFINE f == First(is)
    <2>1. f \in is
        BY <1>1, <1>4, Least
    <2>2. list[f] # None /\ list[f].family = "v6"
        BY <1>4, <2>1, ListFacts DEF IPv4
    <2>3. Preferred(list, is) = list[f]
        BY <1>4 DEF Preferred
    <2>4. CASE list[n].family = "v4"
        <3>1. IPv4(list, more) = {n}
            BY <1>4, <2>4 DEF IPv4
        <3>2. First({n}) = n
            BY <1>1, LeastIs
        <3>3. Preferred(list, more) = list[n]
            BY <3>1, <3>2 DEF Preferred
        <3> HIDE DEF f
        <3> QED BY <2>2, <2>3, <2>4, <3>3 DEF Prefer
    <2>5. CASE list[n].family # "v4"
        <3>1. IPv4(list, more) = {}
            BY <1>4, <2>5 DEF IPv4
        <3>2. First(more) = f
            <4>1. \A i \in is, j \in more \ is : i <= j
                BY <1>1
            <4> QED BY <1>1, <1>4, <4>1, FirstStays
        <3>3. Preferred(list, more) = list[f]
            BY <3>1, <3>2 DEF Preferred
        <3> HIDE DEF f
        <3> QED BY <2>2, <2>3, <2>5, <3>3 DEF Prefer
    <2> QED BY <2>4, <2>5
<1> QED BY <1>2, <1>3, <1>4

\* Whether a function is the one that findBestAddr computes.
Searches(best, join, list) ==
    best = [n \in 0 .. Len(list) |->
                IF n = 0 THEN None
                ELSE IF /\ list[n].scope # "linklocal" /\ Supported(list[n].family, join)
                        /\ Prefer(best[n - 1], list[n]) THEN list[n]
                ELSE best[n - 1]]

LEMMA SearchIs ==
    ASSUME NEW join, NEW list
    PROVE  Search(join, list) = CHOOSE best : Searches(best, join, list)
BY DEF Search, Searches

\* The closed form satisfies the recursion.
LEMMA ClosedFormSearches ==
    ASSUME NEW join, NEW list \in Seq(MachineAddress)
    PROVE  Searches([n \in 0 .. Len(list) |-> Preferred(list, UpTo(Takes(join, list), n))],
                    join, list)
<1> DEFINE is == Takes(join, list)
           form == [n \in 0 .. Len(list) |-> Preferred(list, UpTo(is, n))]
<1>1. Len(list) \in Nat /\ is \in SUBSET (1 .. Len(list)) /\ DOMAIN list = 1 .. Len(list)
    BY ListFacts DEF Takes
<1>2. SUFFICES ASSUME NEW n \in 0 .. Len(list)
               PROVE  form[n] =
                          IF n = 0 THEN None
                          ELSE IF /\ list[n].scope # "linklocal"
                                  /\ Supported(list[n].family, join)
                                  /\ Prefer(form[n - 1], list[n]) THEN list[n]
                          ELSE form[n - 1]
    BY DEF Searches
<1>3. CASE n = 0
    <2>1. UpTo(is, 0) = {}
        BY <1>1 DEF UpTo
    <2> QED BY <1>3, <2>1, PreferredOfNone
<1>4. CASE n # 0
    <2>1. n \in 1 .. Len(list) /\ n - 1 \in 0 .. Len(list)
        BY <1>1, <1>4
    <2>2. /\ form[n] = Preferred(list, UpTo(is, n))
          /\ form[n - 1] = Preferred(list, UpTo(is, n - 1))
        BY <2>1
    <2>3. CASE n \in is
        <3>1. UpTo(is, n) = UpTo(is, n - 1) \cup {n}
            BY <1>1, <2>1, <2>3 DEF UpTo
        <3>2. UpTo(is, n - 1) \in SUBSET DOMAIN list /\ \A i \in UpTo(is, n - 1) : i < n
            BY <1>1, <2>1 DEF UpTo
        <3>3. form[n] = IF Prefer(form[n - 1], list[n]) THEN list[n] ELSE form[n - 1]
            BY <1>1, <2>1, <2>2, <3>1, <3>2, PreferredOfMore
        <3>4. list[n].scope # "linklocal" /\ Supported(list[n].family, join)
            BY <2>3 DEF Takes
        <3> HIDE DEF form
        <3> QED BY <1>4, <3>3, <3>4
    <2>4. CASE n \notin is
        <3>1. UpTo(is, n) = UpTo(is, n - 1)
            BY <1>1, <2>1, <2>4 DEF UpTo
        <3>2. ~(list[n].scope # "linklocal" /\ Supported(list[n].family, join))
            BY <1>1, <2>1, <2>4 DEF Takes
        <3>3. form[n] = form[n - 1]
            BY <2>2, <3>1
        <3> HIDE DEF form
        <3> QED BY <1>4, <3>2, <3>3
    <2> QED BY <2>3, <2>4
<1> QED BY <1>3, <1>4

\* Two functions that satisfy the recursion are the same: there is no least place where
\* they differ.
LEMMA SearchesUnique ==
    ASSUME NEW join, NEW list \in Seq(MachineAddress),
           NEW f, Searches(f, join, list), NEW g, Searches(g, join, list)
    PROVE  f = g
<1> DEFINE N == 0 .. Len(list)
           differ == {n \in N : f[n] # g[n]}
           value(h, n) == IF n = 0 THEN None
                          ELSE IF /\ list[n].scope # "linklocal"
                                  /\ Supported(list[n].family, join)
                                  /\ Prefer(h[n - 1], list[n]) THEN list[n]
                          ELSE h[n - 1]
<1>1. f = [n \in N |-> value(f, n)] /\ g = [n \in N |-> value(g, n)]
    BY Zenon DEF Searches
<1>2. CASE differ = {}
    <2>1. \A n \in N : f[n] = g[n]
        BY <1>2
    <2>2. DOMAIN f = N /\ DOMAIN g = N /\ f = [n \in N |-> f[n]] /\ g = [n \in N |-> g[n]]
        <3> HIDE DEF value
        <3> QED BY <1>1
    <2> QED BY <2>1, <2>2
<1>3. CASE differ # {}
    <2> DEFINE m == First(differ)
    <2>1. m \in N /\ f[m] # g[m] /\ \A j \in differ : m <= j
        <3>1. differ \in SUBSET Nat
            BY ListFacts
        <3> QED BY <1>3, <3>1, Least
    <2>2. m # 0
        <3>1. CASE m = 0
            <4>1. f[0] = None /\ g[0] = None
                BY <1>1, <2>1, <3>1
            <4> QED BY <2>1, <3>1, <4>1
        <3> QED BY <3>1
    <2> HIDE DEF m
    <2>3. m - 1 \in N /\ m - 1 \notin differ
        BY <2>1, <2>2, ListFacts
    <2>4. f[m - 1] = g[m - 1]
        BY <2>3
    <2>5. f[m] = value(f, m) /\ g[m] = value(g, m)
        <3> HIDE DEF value
        <3> QED BY <1>1, <2>1
    <2>6. value(f, m) = value(g, m)
        BY <2>4
    <2> QED BY <2>1, <2>5, <2>6
<1> QED BY <1>2, <1>3

LEMMA SearchFinds ==
    ASSUME NEW join, NEW list \in Seq(MachineAddress)
    PROVE  Search(join, list)[Len(list)] = Preferred(list, Takes(join, list))
<1> DEFINE is == Takes(join, list)
           form == [n \in 0 .. Len(list) |-> Preferred(list, UpTo(is, n))]
<1>1. Searches(form, join, list)
    BY ClosedFormSearches
<1> HIDE DEF form
<1>2. Searches(Search(join, list), join, list)
    BY <1>1, SearchIs
<1>3. Search(join, list) = form
    BY <1>1, <1>2, SearchesUnique
<1>4. Len(list) \in 0 .. Len(list) /\ UpTo(is, Len(list)) = is
    BY ListFacts DEF UpTo, Takes
<1> QED BY <1>3, <1>4 DEF form
-----------------------------------------------------------------------------
(* The address a registry chooses *)

LEMMA AddressFacts ==
    ASSUME TypeOK
    PROVE  addrs \in Seq(MachineAddress) /\ env \in Env
BY AddressesAssumption DEF TypeOK

LEMMA Chosen ==
    ASSUME TypeOK
    PROVE  BestAddress
<1>1. addrs \in Seq(MachineAddress)
    BY AddressFacts
<1>2. Near = SameSubnet(env.join, addrs) /\ Eligible = Takes(env.join, addrs)
    BY DEF Near, SameSubnet, Eligible, Takes
<1>3. CASE Near # {}
    BY <1>2, <1>3 DEF BestAddress, FindBestAddr
<1>4. CASE Near = {}
    <2>1. FindBestAddr(env.join, addrs) = Preferred(addrs, Eligible)
        BY <1>1, <1>2, <1>4, SearchFinds DEF FindBestAddr
    <2>2. IPv4(addrs, Eligible) \subseteq Eligible
        BY DEF IPv4
    <2> QED BY <1>4, <2>1, <2>2 DEF BestAddress, Preferred, IPv4
<1> QED BY <1>3, <1>4

LEMMA ModBound ==
    ASSUME NEW x \in Nat, NEW w \in Nat, w > 0
    PROVE  x % w \in 0 .. w - 1
OBVIOUS

LEMMA ModSmall ==
    ASSUME NEW x \in Nat, NEW w \in Nat, x < w
    PROVE  x % w = x
OBVIOUS

\* The next port, in 16 bits.
LEMMA NextPort ==
    ASSUME NEW p \in Port
    PROVE  (p + 1) % Width \in Port /\ (p # Width - 1 => (p + 1) % Width # 0)
<1>1. Width \in Nat /\ Width > 0
    BY DEF Width
<1>2. p \in Nat /\ p + 1 \in Nat /\ (p # Width - 1 => p + 1 < Width) /\ p + 1 # 0
    BY <1>1 DEF Port
<1>3. (p + 1) % Width \in 0 .. Width - 1
    BY ONLY <1>1, <1>2, ModBound, Zenon
<1>4. p + 1 < Width => (p + 1) % Width = p + 1
    BY ONLY <1>1, <1>2, ModSmall, Zenon
<1>5. p # Width - 1 => (p + 1) % Width # 0
    BY ONLY <1>2, <1>4, Zenon
<1> QED BY <1>3, <1>5, Zenon DEF Port

\* The ports that LoadConfig determines are ports.
LEMMA PortsAre ==
    ASSUME NEW e \in Env
    PROVE  PeerAPIListenPort(e) \in Port /\ AgentAPIListenPort(e) \in Port
<1>1. {e.etcdPort, e.clientPort, e.peerPort, e.agentPort} \subseteq Port
    BY AddressesAssumption
<1>2. ASSUME NEW p \in Port, NEW q \in Port PROVE PortOr(p, q) \in Port
    BY <1>2, NextPort DEF PortOr
<1>3. EtcdClientListenPort(e) \in Port
    BY <1>1, <1>2 DEF EtcdClientListenPort
<1>4. PeerAPIListenPort(e) \in Port
    BY <1>1, <1>2, <1>3 DEF PeerAPIListenPort
<1> QED BY <1>1, <1>2, <1>4 DEF AgentAPIListenPort

\* The hosts that LoadConfig may advertise, in a machine whose usable addresses are
\* global if no name is configured, lead to it.
LEMMA AdvertisedLeadsHere ==
    ASSUME TypeOK, config = LoadConfig(env, addrs),
           env.agentPort # 0 \/ PeerAPIListenPort(env) # Width - 1,
           \/ env.peerHost # None \/ env.agentHost # None
           \/ LET usable == IF Near # {} THEN Near ELSE Eligible
              IN  usable # {} /\ usable \subseteq Global
    PROVE  Leads(config.agentAPIHost)
<1>1. /\ config.agentAPIHost.port = AgentAPIListenPort(env)
      /\ config.agentAPIHost.host = AgentAPIAdvertiseHostname(env, addrs)
    BY DEF LoadConfig, HostWithPort
<1>2. config.agentAPIHost.port # 0
    <2>1. PeerAPIListenPort(env) \in Port
        BY AddressFacts, PortsAre
    <2> DEFINE p == PeerAPIListenPort(env)
    <2> HIDE DEF p
    <2>2. p \in Port /\ (env.agentPort # 0 \/ p # Width - 1)
        BY <2>1 DEF p
    <2>3. AgentAPIListenPort(env) = IF env.agentPort # 0 THEN env.agentPort
                                    ELSE (p + 1) % Width
        BY DEF AgentAPIListenPort, PortOr, p
    <2> QED BY <1>1, <2>2, <2>3, NextPort
<1>3. CASE env.agentHost # None
    BY <1>1, <1>2, <1>3 DEF Leads, AgentAPIAdvertiseHostname, Or
<1>4. CASE env.agentHost = None /\ env.peerHost # None
    BY <1>1, <1>2, <1>4 DEF Leads, AgentAPIAdvertiseHostname, PeerAdvertiseHostname, Or
<1>5. CASE env.agentHost = None /\ env.peerHost = None
    <2> DEFINE usable == IF Near # {} THEN Near ELSE Eligible
               v4 == {i \in Eligible : addrs[i].family = "v4"}
               rank == IF Near # {} THEN Near ELSE IF v4 # {} THEN v4 ELSE Eligible
    <2>1. usable # {} /\ usable \subseteq Global
        BY <1>5
    <2>2. rank # {} /\ rank \subseteq Global
        BY <2>1
    <2>3. FindBestAddr(env.join, addrs) = addrs[First(rank)]
        BY <2>2, Chosen DEF BestAddress
    <2>4. First(rank) \in Global
        <3>1. rank \in SUBSET Nat
            BY <2>2, AddressFacts, ListFacts DEF Global
        <3> HIDE DEF rank
        <3> QED BY <2>2, <3>1, Least
    <2> HIDE DEF rank, usable
    <2>5. config.agentAPIHost.host = addrs[First(rank)]
        BY <1>1, <1>5, <2>3 DEF AgentAPIAdvertiseHostname, PeerAdvertiseHostname, Or
    <2> QED BY <1>1, <1>2, <2>4, <2>5 DEF Leads, Has, Global
<1> QED BY <1>3, <1>4, <1>5
-----------------------------------------------------------------------------
(* The steps *)

LEMMA LoadedPort ==
    ASSUME env \in Env
    PROVE  LoadConfig(env, addrs).agentAPIHost.port \in Port
BY PortsAre DEF LoadConfig, HostWithPort

LEMMA InitIInv ==
    ASSUME Init
    PROVE  IInv
<1>1. env \in Env /\ config = LoadConfig(env, addrs) /\ config.agentAPIHost.port \in Port
    BY LoadedPort DEF Init
<1>2. TypeOK
    BY <1>1, AddressesAssumption DEF Init, TypeOK, Registry, AddressList
<1> QED BY <1>1, <1>2 DEF Init, IInv, Registry, SomeAddressKnown

LEMMA StartRegistryPreserves ==
    ASSUME IInv, NEW r \in Registry, StartRegistry(r)
    PROVE  IInv'
<1>1. /\ pc' = [pc EXCEPT ![r] = "publishing"] /\ env' = env /\ addrs' = addrs
      /\ key' = key /\ failed' = failed /\ node' = node /\ file' = file /\ known' = known
      /\ moves' = moves /\ faults' = faults
    BY DEF StartRegistry, client
<1>2. \/ r = "second" /\ config' = LoadConfig(env, addrs) /\ moved' = FALSE
      \/ r # "second" /\ config' = config /\ moved' = moved
    BY DEF StartRegistry
<1>3. config'.agentAPIHost.port \in Port
    BY <1>2, LoadedPort DEF IInv, TypeOK
<1>4. TypeOK'
    BY <1>1, <1>3 DEF IInv, TypeOK, AddressList
<1>5. ~moved' => config' = LoadConfig(env', addrs')
    BY <1>1, <1>2 DEF IInv
<1>6. ASSUME NEW s \in Registry, pc'[s] = "up", s \notin failed'
      PROVE  s \in DOMAIN key' /\ key'[s] = Address(s)'
    <2>1. s # r /\ pc[s] = "up"
        BY <1>1, <1>6 DEF IInv, TypeOK
    <2>2. s \in DOMAIN key /\ key[s] = Address(s)
        BY <1>1, <1>6, <2>1 DEF IInv
    <2>3. Address(s)' = Address(s)
        BY <1>2, <2>1 DEF Address, Registry
    <2> QED BY <1>1, <2>2, <2>3
<1>7. SomeAddressKnown'
    BY <1>1 DEF IInv, SomeAddressKnown
<1> QED BY <1>4, <1>5, <1>6, <1>7 DEF IInv

LEMMA PublishPreserves ==
    ASSUME IInv, NEW r \in Registry, Publish(r)
    PROVE  IInv'
<1>1. /\ pc' = [pc EXCEPT ![r] = "up"] /\ env' = env /\ addrs' = addrs /\ moved' = moved
      /\ config' = config /\ node' = node /\ file' = file /\ known' = known
      /\ moves' = moves
    BY DEF Publish, machine, client
<1>2. \A s \in Registry : Address(s)' = Address(s) /\ Address(s).port \in Port
    BY <1>1, AddressesAssumption DEF Address, IInv, TypeOK
<1>3. ~moved' => config' = LoadConfig(env', addrs')
    BY <1>1 DEF IInv
<1>4. faults' \in 0 .. MaxFaults
    BY AddressesAssumption DEF IInv, TypeOK, Publish, Fault
<1>5. pc' \in [Registry -> {"down", "publishing", "up"}]
    BY <1>1 DEF IInv, TypeOK
<1>6. CASE key' = [s \in DOMAIN key \cup {r} |-> IF s = r THEN Address(r) ELSE key[s]]
           /\ failed' = failed
    <2>1. DOMAIN key' = DOMAIN key \cup {r} /\ key'[r] = Address(r)
          /\ \A s \in DOMAIN key : s # r => key'[s] = key[s]
        BY <1>6
    <2>2. \A s \in DOMAIN key : key[s].port \in Port
        BY DEF IInv, TypeOK, AddressList
    <2>3. \A s \in DOMAIN key' : key'[s].port \in Port
        BY <1>2, <2>1, <2>2
    <2>4. TypeOK'
        BY <1>1, <1>4, <1>5, <1>6, <2>1, <2>3 DEF IInv, TypeOK, AddressList
    <2>5. ASSUME NEW s \in Registry, pc'[s] = "up", s \notin failed'
          PROVE  s \in DOMAIN key' /\ key'[s] = Address(s)'
        <3>1. CASE s = r
            BY <1>2, <2>1, <3>1
        <3>2. CASE s # r
            <4>1. pc[s] = "up"
                BY <1>1, <2>5, <3>2 DEF IInv, TypeOK
            <4> QED BY <1>2, <1>6, <2>1, <2>5, <3>2, <4>1 DEF IInv
        <3> QED BY <3>1, <3>2
    <2>6. SomeAddressKnown'
        BY <1>1, <1>6 DEF IInv, SomeAddressKnown
    <2> QED BY <1>3, <2>4, <2>5, <2>6 DEF IInv
<1>7. CASE failed' = failed \cup {r} /\ key' = key
    <2>1. TypeOK'
        BY <1>1, <1>4, <1>5, <1>7 DEF IInv, TypeOK, AddressList
    <2>2. ASSUME NEW s \in Registry, pc'[s] = "up", s \notin failed'
          PROVE  s \in DOMAIN key' /\ key'[s] = Address(s)'
        <3>1. s # r /\ s \notin failed /\ pc[s] = "up"
            BY <1>1, <1>7, <2>2 DEF IInv, TypeOK
        <3> QED BY <1>2, <1>7, <3>1 DEF IInv
    <2>3. SomeAddressKnown'
        BY <1>1, <1>7 DEF IInv, SomeAddressKnown
    <2> QED BY <1>3, <2>1, <2>2, <2>3 DEF IInv
<1> QED BY <1>6, <1>7 DEF Publish

LEMMA StopRegistryPreserves ==
    ASSUME IInv, NEW r \in Registry, StopRegistry(r)
    PROVE  IInv'
<1>1. /\ pc' = [pc EXCEPT ![r] = "down"] /\ env' = env /\ addrs' = addrs /\ moved' = moved
      /\ config' = config /\ key' = key /\ failed' = failed
      /\ node' = node /\ file' = file /\ known' = known /\ moves' = moves
    BY DEF StopRegistry, machine, client
<1>2. faults' \in 0 .. MaxFaults
    BY AddressesAssumption DEF IInv, TypeOK, StopRegistry, Fault
<1>3. TypeOK'
    BY <1>1, <1>2 DEF IInv, TypeOK, AddressList
<1>4. ASSUME NEW s \in Registry, pc'[s] = "up"
      PROVE  pc[s] = "up" /\ Address(s)' = Address(s)
    BY <1>1, <1>4 DEF IInv, TypeOK, Address
<1> QED BY <1>1, <1>3, <1>4 DEF IInv, SomeAddressKnown

LEMMA MovePreserves ==
    ASSUME IInv, NEW list \in Later, Move(list)
    PROVE  IInv'
<1>1. /\ env' = env /\ addrs' = list /\ moved' = TRUE
      /\ config' = config /\ pc' = pc /\ key' = key /\ failed' = failed
      /\ node' = node /\ file' = file /\ known' = known /\ faults' = faults
    BY DEF Move, registries, client
<1>2. moves' \in 0 .. MaxMoves
    BY AddressesAssumption DEF IInv, TypeOK, Move
<1>3. TypeOK'
    BY <1>1, <1>2 DEF IInv, TypeOK, AddressList
<1>4. \A s \in Registry : Address(s)' = Address(s)
    BY <1>1 DEF Address
<1> QED BY <1>1, <1>3, <1>4 DEF IInv, SomeAddressKnown

\* The steps of the node leave the registries alone.
LEMMA NodePreserves ==
    ASSUME IInv, UNCHANGED <<machine, registries>>, faults' \in 0 .. MaxFaults,
           node' \in {"down", "loading", "writing", "up"},
           file' = None \/ AddressList(file'), AddressList(known'),
           node' = "down" => known' = {},
           node' # "down" /\ known' = {} => failed # {}
    PROVE  IInv'
<1>1. /\ env' = env /\ addrs' = addrs /\ moved' = moved /\ moves' = moves
      /\ config' = config /\ pc' = pc /\ key' = key /\ failed' = failed
    BY DEF machine, registries
<1>2. TypeOK'
    BY <1>1 DEF IInv, TypeOK, AddressList
<1>3. \A s \in Registry : Address(s)' = Address(s)
    BY <1>1 DEF Address
<1> QED BY <1>1, <1>2, <1>3 DEF IInv, SomeAddressKnown

LEMMA LoadNodeStatePreserves ==
    ASSUME IInv, LoadNodeState
    PROVE  IInv'
<1>1. /\ known' = LinesOr(file, {Provided}) /\ UNCHANGED <<machine, registries>>
      /\ faults' \in 0 .. MaxFaults
      /\ \/ node' = "up" /\ file' = file
         \/ node' = "loading" /\ file' = {}
    BY DEF LoadNodeState, IInv, TypeOK
<1>2. known' # {} /\ AddressList(known')
    BY <1>1, AddressesAssumption DEF LinesOr, AddressList, IInv, TypeOK
<1>3. file' = None \/ AddressList(file')
    BY <1>1 DEF AddressList, IInv, TypeOK
<1> QED BY <1>1, <1>2, <1>3, NodePreserves

\* Where a registry has answered there is a key, unless one has failed to publish its own.
LEMMA UpdateAddrsPreserves ==
    ASSUME IInv, UpdateAddrs
    PROVE  IInv'
<1>1. /\ known' = {key[r] : r \in DOMAIN key} /\ file' = {} /\ node' = "writing"
      /\ UNCHANGED <<machine, registries>> /\ faults' \in 0 .. MaxFaults
    BY DEF UpdateAddrs, Reload, IInv, TypeOK
<1>2. AddressList(known') /\ AddressList(file')
    BY <1>1 DEF AddressList, IInv, TypeOK
<1>3. ASSUME failed = {} PROVE known' # {}
    <2>1. PICK r \in Registry : pc[r] = "up"
        BY DEF UpdateAddrs, Connected, Serves
    <2>2. r \in DOMAIN key
        BY <1>3, <2>1 DEF IInv
    <2> QED BY <1>1, <2>2
<1> QED BY <1>1, <1>2, <1>3, NodePreserves

LEMMA FlushPreserves ==
    ASSUME IInv, Flush \/ FlushFails
    PROVE  IInv'
<1>1. /\ node # "down" /\ node' = "up" /\ known' = known
      /\ file' = known \/ file' = file
      /\ UNCHANGED <<machine, registries>>
    BY DEF Flush, FlushFails
<1>2. faults' \in 0 .. MaxFaults
    BY AddressesAssumption DEF Flush, FlushFails, Fault, IInv, TypeOK
<1>3. AddressList(known') /\ (file' = None \/ AddressList(file'))
    BY <1>1 DEF AddressList, IInv, TypeOK
<1>4. known' = {} => failed # {}
    BY <1>1 DEF IInv, SomeAddressKnown
<1> QED BY <1>1, <1>2, <1>3, <1>4, NodePreserves

LEMMA CrashPreserves ==
    ASSUME IInv, Crash \/ LoadFails
    PROVE  IInv'
<1>1. /\ node' = "down" /\ known' = {} /\ file' = file
      /\ UNCHANGED <<machine, registries>>
    BY DEF Crash, LoadFails
<1>2. faults' \in 0 .. MaxFaults
    BY AddressesAssumption DEF Crash, LoadFails, Fault, IInv, TypeOK
<1>3. AddressList(known') /\ (file' = None \/ AddressList(file'))
    BY <1>1 DEF AddressList, IInv, TypeOK
<1> QED BY <1>1, <1>2, <1>3, NodePreserves

LEMMA NextIInv ==
    ASSUME IInv, [Next]_vars
    PROVE  IInv'
<1>1. CASE Next
    BY <1>1, StartRegistryPreserves, PublishPreserves, StopRegistryPreserves,
       MovePreserves, LoadNodeStatePreserves, UpdateAddrsPreserves, FlushPreserves,
       CrashPreserves DEF Next
<1>2. CASE UNCHANGED vars
    <2>1. UNCHANGED <<machine, registries>> /\ UNCHANGED <<node, file, known, faults>>
        BY <1>2 DEF vars, machine, registries
    <2>2. /\ faults' \in 0 .. MaxFaults /\ node' \in {"down", "loading", "writing", "up"}
          /\ file' = None \/ AddressList(file')
          /\ AddressList(known')
        BY <2>1 DEF IInv, TypeOK, AddressList
    <2>3. /\ node' = "down" => known' = {}
          /\ node' # "down" /\ known' = {} => failed # {}
        BY <2>1 DEF IInv, TypeOK, SomeAddressKnown
    <2> QED BY <2>1, <2>2, <2>3, NodePreserves
<1> QED BY <1>1, <1>2
-----------------------------------------------------------------------------
(* The theorems *)

\* Every reachable state satisfies the inductive invariant: a registry has loaded what its
\* machine gives, and one that is up has its address under its key.
THEOREM InductiveInvariant == Spec => []IInv
BY InitIInv, NextIInv, PTL DEF Spec

\* Type correctness: among the rest, every port that is advertised, known or in the file
\* is a number of 16 bits, although three of them may follow from the others (LoadConfig).
THEOREM TypeCorrect == Spec => []TypeOK
<1>1. IInv => TypeOK
    BY DEF IInv
<1> QED BY <1>1, InductiveInvariant, PTL

\* findBestAddr, for a machine with any number of addresses and a join host with any: its
\* one pass chooses the first address near the join host, or else the first IPv4 address
\* of those that may be taken, or else the first of these.
THEOREM BestAddressChosen == Spec => []BestAddress
BY TypeCorrect, Chosen, PTL

\* LoadConfig and EtcdPostStartUpdate: the address that a registry has published leads to
\* it until its machine's addresses change, under the conditions PublishedLeadsHere names.
THEOREM PublishedLeads == Spec => []PublishedLeadsHere
<1>1. ASSUME IInv PROVE PublishedLeadsHere
    <2> SUFFICES ASSUME /\ pc["second"] = "up" /\ "second" \notin failed /\ ~moved
                        /\ env.agentPort # 0 \/ PeerAPIListenPort(env) # Width - 1
                        /\ \/ env.peerHost # None \/ env.agentHost # None
                           \/ LET usable == IF Near # {} THEN Near ELSE Eligible
                              IN  usable # {} /\ usable \subseteq Global
                 PROVE  Leads(key["second"])
        BY DEF PublishedLeadsHere
    <2>1. key["second"] = config.agentAPIHost /\ config = LoadConfig(env, addrs) /\ TypeOK
        BY <1>1 DEF IInv, Registry, Address
    <2>2. Leads(config.agentAPIHost)
        BY <2>1, AdvertisedLeadsHere
    <2> QED BY <2>1, <2>2
<1> QED BY <1>1, InductiveInvariant, PTL

\* LoadNodeState, writeRegistryAddresses and UpdateAddrs: whatever writes of the file are
\* interrupted or fail, a node that runs has an address to try, unless a registry could
\* not publish its own.
THEOREM AlwaysAnAddress == Spec => []SomeAddressKnown
<1>1. IInv => SomeAddressKnown
    BY DEF IInv
<1> QED BY <1>1, InductiveInvariant, PTL
=============================================================================
