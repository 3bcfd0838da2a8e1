--------------------------- MODULE DiscoveryProofs --------------------------
(***************************************************************************)
(* Proofs about Discovery: whatever comes and goes between the reads of a  *)
(* call, the answer holds the nearest instances first and stays within the *)
(* name that was asked for.                                                *)
(*                                                                         *)
(* First what a range of etcd returns, then how the prefixes nest, then    *)
(* the steps of the call.                                                  *)
(***************************************************************************)
EXTENDS Discovery, FiniteSetTheorems, SequenceTheorems, TLAPS
-----------------------------------------------------------------------------
(* The order of the keys *)

LEMMA KeyParts ==
    ASSUME NEW k \in Key
    PROVE  k[1] \in Nat /\ k[2] \in Nat /\ k[3] \in Nat /\ k[4] \in Nat
BY KeyAssumption

LEMMA KeyEqual ==
    ASSUME NEW a \in Key, NEW b \in Key,
           a[1] = b[1], a[2] = b[2], a[3] = b[3], a[4] = b[4]
    PROVE  a = b
<1>1. a \in Nat \X Nat \X Nat \X Nat /\ b \in Nat \X Nat \X Nat \X Nat
    BY KeyAssumption
<1>2. a = <<a[1], a[2], a[3], a[4]>> /\ b = <<b[1], b[2], b[3], b[4]>>
    BY <1>1
<1> QED BY <1>2

\* Less is the lexicographic order.
LEMMA LessIs ==
    ASSUME NEW a, NEW b
    PROVE  Less(a, b) <=>
               \/ a[1] < b[1]
               \/ a[1] = b[1] /\ a[2] < b[2]
               \/ a[1] = b[1] /\ a[2] = b[2] /\ a[3] < b[3]
               \/ a[1] = b[1] /\ a[2] = b[2] /\ a[3] = b[3] /\ a[4] < b[4]
<1>1. ASSUME NEW i \in 1 .. 4, a[i] < b[i], \A j \in 1 .. i - 1 : a[j] = b[j]
      PROVE  \/ a[1] < b[1]
             \/ a[1] = b[1] /\ a[2] < b[2]
             \/ a[1] = b[1] /\ a[2] = b[2] /\ a[3] < b[3]
             \/ a[1] = b[1] /\ a[2] = b[2] /\ a[3] = b[3] /\ a[4] < b[4]
    <2>1. CASE i = 1
        BY <1>1, <2>1
    <2>2. CASE i = 2
        BY <1>1, <2>2
    <2>3. CASE i = 3
        BY <1>1, <2>3
    <2>4. CASE i = 4
        BY <1>1, <2>4
    <2> QED BY <2>1, <2>2, <2>3, <2>4
<1>2. ASSUME a[1] < b[1] PROVE Less(a, b)
    BY <1>2 DEF Less
<1>3. ASSUME a[1] = b[1], a[2] < b[2] PROVE Less(a, b)
    <2>1. \A j \in 1 .. 2 - 1 : a[j] = b[j]
        BY <1>3
    <2> QED BY <1>3, <2>1 DEF Less
<1>4. ASSUME a[1] = b[1], a[2] = b[2], a[3] < b[3] PROVE Less(a, b)
    <2>1. \A j \in 1 .. 3 - 1 : a[j] = b[j]
        BY <1>4
    <2> QED BY <1>4, <2>1 DEF Less
<1>5. ASSUME a[1] = b[1], a[2] = b[2], a[3] = b[3], a[4] < b[4] PROVE Less(a, b)
    <2>1. \A j \in 1 .. 4 - 1 : a[j] = b[j]
        BY <1>5
    <2> QED BY <1>5, <2>1 DEF Less
<1>6. Less(a, b) => \E i \in 1 .. 4 : a[i] < b[i] /\ \A j \in 1 .. i - 1 : a[j] = b[j]
    BY DEF Less
<1> QED BY <1>1, <1>2, <1>3, <1>4, <1>5, <1>6

LEMMA LessOrders ==
    ASSUME NEW a \in Key, NEW b \in Key
    PROVE  /\ ~Less(a, a)
           /\ a # b => Less(a, b) \/ Less(b, a)
           /\ \A c \in Key : Less(a, b) /\ Less(b, c) => Less(a, c)
<1>1. ~Less(a, a)
    BY LessIs, KeyParts
<1>2. a # b => Less(a, b) \/ Less(b, a)
    BY LessIs, KeyParts, KeyEqual
<1>3. ASSUME NEW c \in Key, Less(a, b), Less(b, c) PROVE Less(a, c)
    BY <1>3, LessIs, KeyParts
<1> QED BY <1>1, <1>2, <1>3
-----------------------------------------------------------------------------
(* What a range with a limit returns *)

Rank(S, k) == Cardinality({j \in S : Less(j, k)})

First(S, n) == {k \in S : Rank(S, k) < n}

LEMMA FiniteKeys ==
    ASSUME NEW S \in SUBSET Key
    PROVE  IsFiniteSet(S) /\ Cardinality(S) \in Nat
BY KeyAssumption, FS_Subset, FS_CardinalityType

LEMMA SmallerSet ==
    ASSUME NEW S \in SUBSET Key, NEW T \in SUBSET S
    PROVE  /\ Cardinality(T) <= Cardinality(S)
           /\ Cardinality(S) = Cardinality(T) => S = T
BY FiniteKeys, FS_Subset

\* The ranks of n keys are 0 .. n - 1, each the rank of one key.
LEMMA RankIsBijection ==
    ASSUME NEW S \in SUBSET Key
    PROVE  [k \in S |-> Rank(S, k)] \in Bijection(S, 0 .. Cardinality(S) - 1)
<1> DEFINE below(k) == {j \in S : Less(j, k)}
           c == Cardinality(S)
           rank == [k \in S |-> Rank(S, k)]
<1>1. c \in Nat /\ IsFiniteSet(0 .. c - 1) /\ Cardinality(0 .. c - 1) = c
    <2>1. c \in Nat
        BY FiniteKeys
    <2>2. 0 \in Int /\ c - 1 \in Int
        BY <2>1
    <2>3. /\ IsFiniteSet(0 .. c - 1)
          /\ Cardinality(0 .. c - 1) = IF 0 > c - 1 THEN 0 ELSE (c - 1) - 0 + 1
        BY ONLY <2>2, FS_Interval
    <2> QED BY <2>1, <2>3
<1>2. ASSUME NEW k \in S PROVE Rank(S, k) \in 0 .. c - 1
    <2>1. below(k) \in SUBSET S /\ k \notin below(k)
        BY LessOrders
    <2>2. below(k) \in SUBSET Key /\ S # below(k)
        BY <2>1
    <2>3. Cardinality(below(k)) \in Nat
        BY <2>2, FiniteKeys
    <2>4. Cardinality(below(k)) <= c /\ c # Cardinality(below(k))
        BY <2>1, <2>2, SmallerSet
    <2> QED BY <1>1, <2>3, <2>4 DEF Rank
<1>3. ASSUME NEW a \in S, NEW b \in S, Less(a, b)
      PROVE  Rank(S, a) # Rank(S, b)
    <2>1. below(a) \subseteq below(b)
        BY <1>3, LessOrders
    <2>2. a \in below(b) /\ a \notin below(a)
        BY <1>3, LessOrders
    <2>3. below(b) \in SUBSET Key
        OBVIOUS
    <2> QED BY <2>1, <2>2, <2>3, SmallerSet DEF Rank
<1>4. rank \in [S -> 0 .. c - 1]
    BY <1>2
<1>5. IsInjective(rank)
    <2> SUFFICES ASSUME NEW a \in S, NEW b \in S, rank[a] = rank[b] PROVE a = b
        BY DEF IsInjective
    <2>1. Rank(S, a) = Rank(S, b)
        OBVIOUS
    <2> QED BY <2>1, <1>3, LessOrders
<1>6. rank \in Injection(S, 0 .. c - 1)
    BY <1>4, <1>5 DEF Injection
<1>7. rank \in Surjection(S, 0 .. c - 1)
    BY <1>1, <1>6, FS_Injection
<1> QED BY <1>6, <1>7 DEF Bijection

\* The first n keys of a set are n keys, or all of them.
LEMMA FirstKeys ==
    ASSUME NEW S \in SUBSET Key, NEW n \in Nat
    PROVE  /\ Cardinality(First(S, n)) <= n
           /\ Cardinality(First(S, n)) = n \/ First(S, n) = S
<1> DEFINE R == First(S, n)
           c == Cardinality(S)
           rank == [k \in S |-> Rank(S, k)]
           first == [k \in R |-> Rank(S, k)]
<1>1. c \in Nat /\ rank \in Bijection(S, 0 .. c - 1)
    BY FiniteKeys, RankIsBijection
<1>2. CASE n > c
    <2>1. R = S
        BY <1>1, <1>2 DEF Bijection, Injection, First
    <2> QED BY <1>1, <1>2, <2>1
<1>3. CASE n <= c
    <2>1. IsFiniteSet(0 .. n - 1) /\ Cardinality(0 .. n - 1) = n
        <3>1. 0 \in Int /\ n - 1 \in Int
            OBVIOUS
        <3>2. /\ IsFiniteSet(0 .. n - 1)
              /\ Cardinality(0 .. n - 1) = IF 0 > n - 1 THEN 0 ELSE (n - 1) - 0 + 1
            BY ONLY <3>1, FS_Interval
        <3> QED BY <3>2
    <2>2. first \in [R -> 0 .. n - 1]
        BY <1>1 DEF Bijection, Injection, First
    <2>3. first \in Injection(R, 0 .. n - 1)
        BY <1>1, <2>2 DEF Bijection, Injection, IsInjective, First
    <2>4. ASSUME NEW t \in 0 .. n - 1 PROVE \E k \in R : first[k] = t
        <3>1. PICK k \in S : rank[k] = t
            BY <1>1, <1>3 DEF Bijection, Surjection
        <3> QED BY <3>1 DEF First
    <2>5. first \in Surjection(R, 0 .. n - 1)
        BY <2>2, <2>4 DEF Surjection
    <2>6. Cardinality(R) = n
        BY <2>1, <2>3, <2>5, FS_Injection
    <2> QED BY <2>6
<1> QED BY <1>1, <1>2, <1>3
-----------------------------------------------------------------------------
(* The prefixes of a request *)

Location == Or(req.location, Self[1])
Datacenter == Or(req.datacenter, Self[2])
Node == Or(req.node, Self[3])

Prefixes == {NamePrefix, DcPrefix, LocPrefix, <<>>}

Wider == {"dc", "loc", "all"}
Levels == {"name"} \cup Wider

LEMMA AppendTuples ==
    ASSUME NEW x, NEW y, NEW z
    PROVE  Append(<<x>>, y) = <<x, y>> /\ Append(<<x, y>>, z) = <<x, y, z>>
<1> DEFINE S == {x, y, z}
<1>1. <<x>> \in Seq(S) /\ <<x, y>> \in Seq(S) /\ y \in S /\ z \in S
    OBVIOUS
<1>2. /\ Append(<<x>>, y) \in Seq(S) /\ Append(<<x, y>>, z) \in Seq(S)
      /\ <<x, y, z>> \in Seq(S)
    BY <1>1, AppendProperties
<1>3. Append(<<x>>, y) = <<x, y>>
    <2>1. /\ Len(Append(<<x>>, y)) = 2
          /\ \A i \in 1 .. 2 : Append(<<x>>, y)[i] = <<x, y>>[i]
        BY <1>1, AppendProperties
    <2> QED BY <1>1, <1>2, <2>1, SeqEqual
<1>4. Append(<<x, y>>, z) = <<x, y, z>>
    <2>1. /\ Len(Append(<<x, y>>, z)) = 3
          /\ \A i \in 1 .. 3 : Append(<<x, y>>, z)[i] = <<x, y, z>>[i]
        BY <1>1, AppendProperties
    <2> QED BY <1>1, <1>2, <2>1, SeqEqual
<1> QED BY <1>3, <1>4

LEMMA PrefixTuples ==
    /\ LocPrefix = <<Location>>
    /\ DcPrefix = <<Location, Datacenter>>
    /\ NamePrefix = <<Location, Datacenter, Node>>
<1>1. LocPrefix = <<Location>>
    BY DEF LocPrefix, Location
<1>2. DcPrefix = <<Location, Datacenter>>
    BY <1>1, AppendTuples DEF DcPrefix, Datacenter
<1>3. NamePrefix = <<Location, Datacenter, Node>>
    BY <1>2, AppendTuples DEF NamePrefix, Node
<1> QED BY <1>1, <1>2, <1>3

LEMMA PrefixLengths ==
    Len(LocPrefix) = 1 /\ Len(DcPrefix) = 2 /\ Len(NamePrefix) = 3 /\ Len(<<>>) = 0
BY PrefixTuples

LEMMA PrefixesByLength ==
    ASSUME NEW p \in Prefixes
    PROVE  \/ p = NamePrefix /\ Len(p) = 3
           \/ p = DcPrefix /\ Len(p) = 2
           \/ p = LocPrefix /\ Len(p) = 1
           \/ p = <<>> /\ Len(p) = 0
<1>1. p = NamePrefix \/ p = DcPrefix \/ p = LocPrefix \/ p = <<>>
    BY DEF Prefixes
<1> QED BY <1>1, PrefixLengths, Zenon

LEMMA SameLengthSamePrefix ==
    ASSUME NEW p \in Prefixes, NEW q \in Prefixes, Len(p) = Len(q)
    PROVE  p = q
<1> DEFINE l == Len(p)
           m == Len(q)
<1>1. \/ p = NamePrefix /\ l = 3
      \/ p = DcPrefix /\ l = 2
      \/ p = LocPrefix /\ l = 1
      \/ p = <<>> /\ l = 0
    BY Zenon, PrefixesByLength
<1>2. \/ q = NamePrefix /\ m = 3
      \/ q = DcPrefix /\ m = 2
      \/ q = LocPrefix /\ m = 1
      \/ q = <<>> /\ m = 0
    BY Zenon, PrefixesByLength
<1>3. l = m
    OBVIOUS
<1> HIDE DEF l, m
<1> QED BY <1>1, <1>2, <1>3

LEMMA DepthIs ==
    /\ DOMAIN Depth = Levels
    /\ Depth["name"] = 3 /\ Depth["dc"] = 2 /\ Depth["loc"] = 1 /\ Depth["all"] = 0
BY DEF Depth, Levels, Wider

LEMMA PrefixIs ==
    /\ Prefix("name") = NamePrefix /\ Prefix("dc") = DcPrefix
    /\ Prefix("loc") = LocPrefix /\ Prefix("all") = <<>>
<1>1. Prefix("name") = NamePrefix
    BY Zenon DEF Prefix
<1>2. Prefix("dc") = DcPrefix
    BY Zenon DEF Prefix
<1>3. Prefix("loc") = LocPrefix
    BY Zenon DEF Prefix
<1>4. Prefix("all") = <<>>
    BY Zenon DEF Prefix
<1> QED BY <1>1, <1>2, <1>3, <1>4

LEMMA MayWidenIs ==
    /\ MayWiden("dc") <=> req.node = None
    /\ MayWiden("loc") <=> req.datacenter = None
    /\ MayWiden("all") <=> req.location = None
<1>1. MayWiden("dc") <=> req.node = None
    BY Zenon DEF MayWiden
<1>2. MayWiden("loc") <=> req.datacenter = None
    BY Zenon DEF MayWiden
<1>3. MayWiden("all") <=> req.location = None
    BY Zenon DEF MayWiden
<1> QED BY <1>1, <1>2, <1>3

LEMMA AfterIs ==
    After("name") = 1 /\ After("dc") = 2 /\ After("loc") = 3 /\ After("all") = 4
<1>1. After("name") = 1
    BY Zenon DEF After
<1>2. After("dc") = 2
    BY Zenon DEF After
<1>3. After("loc") = 3
    BY Zenon DEF After
<1>4. After("all") = 4
    BY Zenon DEF After
<1> QED BY <1>1, <1>2, <1>3, <1>4

\* The prefix of every level has the length Depth gives it.
LEMMA PrefixOfLevel ==
    ASSUME NEW level \in Levels
    PROVE  Prefix(level) \in Prefixes /\ Len(Prefix(level)) = Depth[level]
BY PrefixIs, PrefixLengths, DepthIs DEF Levels, Wider, Prefixes

\* A prefix that the request allows is the one of a level to which it may widen.
LEMMA AllowedLevels ==
    ASSUME NEW p \in Allowed
    PROVE  \E l \in Levels : p = Prefix(l) /\ (l = "name" \/ MayWiden(l))
<1>1. \/ p = NamePrefix
      \/ p = DcPrefix /\ req.node = None
      \/ p = LocPrefix /\ req.datacenter = None
      \/ p = <<>> /\ req.location = None
    BY DEF Allowed
<1> QED BY <1>1, PrefixIs, MayWidenIs DEF Levels, Wider

LEMMA UnderIs ==
    ASSUME NEW K
    PROVE  /\ Under(K, <<>>) = K
           /\ Under(K, LocPrefix) = {k \in K : k[1] = Location}
           /\ Under(K, DcPrefix) = {k \in K : k[1] = Location /\ k[2] = Datacenter}
           /\ Under(K, NamePrefix) =
                  {k \in K : k[1] = Location /\ k[2] = Datacenter /\ k[3] = Node}
<1>1. Under(K, <<>>) = K
    BY DEF Under
<1>2. Under(K, LocPrefix) = {k \in K : k[1] = Location}
    <2>1. 1 .. Len(LocPrefix) = {1} /\ LocPrefix[1] = Location
        BY PrefixTuples
    <2> QED BY <2>1 DEF Under
<1>3. Under(K, DcPrefix) = {k \in K : k[1] = Location /\ k[2] = Datacenter}
    <2>1. /\ 1 .. Len(DcPrefix) = {1, 2}
          /\ DcPrefix[1] = Location /\ DcPrefix[2] = Datacenter
        BY PrefixTuples
    <2> QED BY <2>1 DEF Under
<1>4. Under(K, NamePrefix) =
          {k \in K : k[1] = Location /\ k[2] = Datacenter /\ k[3] = Node}
    <2>1. /\ 1 .. Len(NamePrefix) = {1, 2, 3}
          /\ NamePrefix[1] = Location /\ NamePrefix[2] = Datacenter
          /\ NamePrefix[3] = Node
        BY PrefixTuples
    <2> QED BY <2>1 DEF Under
<1> QED BY <1>1, <1>2, <1>3, <1>4

LEMMA UnderSubset ==
    ASSUME NEW K, NEW L \in SUBSET K, NEW p
    PROVE  /\ Under(L, p) \in SUBSET Under(K, p)
           /\ Under(L, p) \in SUBSET L
           /\ Under(K, p) = K => Under(L, p) = L
BY DEF Under

\* The keys under a prefix are under every shorter one.
LEMMA PrefixesNest ==
    ASSUME NEW K, NEW p \in Prefixes, NEW q \in Prefixes, Len(p) <= Len(q),
           Under(K, q) = K
    PROVE  Under(K, p) = K
<1> DEFINE l == Len(q)
<1>1. \/ q = NamePrefix /\ l = 3
      \/ q = DcPrefix /\ l = 2
      \/ q = LocPrefix /\ l = 1
      \/ q = <<>> /\ l = 0
    BY Zenon, PrefixesByLength
<1>2. /\ q = LocPrefix => \A k \in K : k[1] = Location
      /\ q = DcPrefix => \A k \in K : k[1] = Location /\ k[2] = Datacenter
      /\ q = NamePrefix => \A k \in K : k[1] = Location /\ k[2] = Datacenter
    <2>1. CASE q = LocPrefix
        BY <2>1, UnderIs
    <2>2. CASE q = DcPrefix
        BY <2>2, UnderIs
    <2>3. CASE q = NamePrefix
        BY <2>3, UnderIs
    <2> QED BY <1>1, <2>1, <2>2, <2>3
<1>3. CASE p = <<>>
    BY <1>3, UnderIs
<1>4. CASE p = LocPrefix
    <2>1. l >= 1
        BY <1>4, PrefixLengths
    <2> HIDE DEF l
    <2>2. q = LocPrefix \/ q = DcPrefix \/ q = NamePrefix
        BY <1>1, <2>1
    <2>3. \A k \in K : k[1] = Location
        BY <1>2, <2>2
    <2>4. Under(K, LocPrefix) = {k \in K : k[1] = Location}
        BY UnderIs
    <2>5. Under(K, LocPrefix) = K
        BY <2>3, <2>4
    <2> QED BY <1>4, <2>5
<1>5. CASE p = DcPrefix
    <2>1. l >= 2
        BY <1>5, PrefixLengths
    <2> HIDE DEF l
    <2>2. q = DcPrefix \/ q = NamePrefix
        BY <1>1, <2>1
    <2>3. \A k \in K : k[1] = Location /\ k[2] = Datacenter
        BY <1>2, <2>2
    <2>4. Under(K, DcPrefix) = {k \in K : k[1] = Location /\ k[2] = Datacenter}
        BY UnderIs
    <2>5. Under(K, DcPrefix) = K
        BY <2>3, <2>4
    <2> QED BY <1>5, <2>5
<1>6. CASE p = NamePrefix
    <2>1. l >= 3
        BY <1>6, PrefixLengths
    <2> HIDE DEF l
    <2>2. q = NamePrefix
        BY <1>1, <2>1
    <2> QED BY <1>6, <2>2
<1> QED BY <1>3, <1>4, <1>5, <1>6 DEF Prefixes

-----------------------------------------------------------------------------
(* The next level *)

LEMMA LevelIs == Level[1] = "dc" /\ Level[2] = "loc" /\ Level[3] = "all"
BY DEF Level

\* The search ends when it has enough or may not widen; otherwise it goes to the next
\* level to which it may, and leaves none of these out.
LEMMA NextLevelIs ==
    ASSUME NEW level \in Levels, NEW f, NEW n, n = NextLevel(After(level), f)
    PROVE  \/ /\ n = "done"
              /\ \/ Cardinality(f) >= Limit
                 \/ \A l \in Wider : Depth[l] < Depth[level] => ~MayWiden(l)
           \/ /\ n \in Wider /\ MayWiden(n)
              /\ Depth[n] < Depth[level]
              /\ \A l \in Wider :
                     Depth[n] < Depth[l] /\ Depth[l] < Depth[level] => ~MayWiden(l)
<1> DEFINE i == After(level)
           open == {j \in i .. 3 : MayWiden(Level[j])}
<1>1. /\ i \in 1 .. 4
      /\ \A j \in 1 .. 3 : /\ Level[j] \in Wider
                           /\ Depth[Level[j]] = 3 - j
                           /\ j >= i <=> Depth[Level[j]] < Depth[level]
      /\ \A l \in Wider : \E j \in 1 .. 3 : l = Level[j]
    BY LevelIs, AfterIs, DepthIs DEF Levels, Wider
<1>2. CASE Cardinality(f) >= Limit \/ open = {}
    <2>1. n = "done"
        BY <1>2 DEF NextLevel
    <2>2. ASSUME open = {}, NEW l \in Wider, Depth[l] < Depth[level] PROVE ~MayWiden(l)
        <3>1. PICK j \in 1 .. 3 : l = Level[j]
            BY <1>1
        <3>2. j \in i .. 3
            BY <1>1, <2>2, <3>1
        <3> QED BY <2>2, <3>1, <3>2
    <2> QED BY <1>2, <2>1, <2>2
<1>3. CASE ~(Cardinality(f) >= Limit \/ open = {})
    <2>1. \E j \in open : \A h \in open : j <= h
        BY <1>1, <1>3
    <2> DEFINE j == CHOOSE j \in open : \A h \in open : j <= h
    <2>2. j \in open /\ \A h \in open : j <= h
        BY <2>1
    <2>3. n = Level[j]
        BY <1>3 DEF NextLevel
    <2> HIDE DEF j
    <2>4. j \in 1 .. 3 /\ j >= i /\ MayWiden(n)
        BY <1>1, <2>2, <2>3
    <2>5. ASSUME NEW l \in Wider, Depth[n] < Depth[l], Depth[l] < Depth[level]
          PROVE  ~MayWiden(l)
        <3>1. PICK h \in 1 .. 3 : l = Level[h]
            BY <1>1
        <3>2. h < j /\ h \in i .. 3
            BY <1>1, <2>3, <2>4, <2>5, <3>1
        <3>3. h \notin open
            BY <1>1, <2>2, <2>4, <3>2
        <3> QED BY <3>1, <3>2, <3>3
    <2>6. n \in Wider /\ Depth[n] < Depth[level]
        BY <1>1, <2>3, <2>4
    <2> QED BY <2>4, <2>5, <2>6
<1> QED BY <1>2, <1>3

\* So the prefixes that the step leaves behind are those that were behind it and the
\* one it has read, unless there are enough instances.
LEMMA PassedGrows ==
    ASSUME NEW level \in Levels, NEW f, NEW p \in Passed(NextLevel(After(level), f))
    PROVE  \/ p \in Passed(level)
           \/ p = Prefix(level)
           \/ p \in Allowed /\ Cardinality(f) >= Limit
<1> DEFINE n == NextLevel(After(level), f)
<1>1. PICK l \in Levels : p = Prefix(l) /\ (l = "name" \/ MayWiden(l))
    BY AllowedLevels DEF Passed
<1>2. p \in Allowed /\ (n = "done" \/ (n \in Levels /\ Depth[l] > Depth[n]))
    BY <1>1, PrefixOfLevel, DepthIs DEF Passed
<1>3. CASE Depth[l] >= Depth[level]
    <2>1. Len(p) >= Depth[level] /\ level \in DOMAIN Depth
        BY <1>1, <1>3, PrefixOfLevel, DepthIs
    <2>2. CASE Len(p) = Depth[level]
        BY <1>1, <2>2, PrefixOfLevel, SameLengthSamePrefix
    <2>3. CASE Len(p) # Depth[level]
        <3>1. Len(p) \in Nat /\ Depth[level] \in Nat
            BY <1>1, PrefixOfLevel, DepthIs DEF Levels, Wider
        <3> QED BY <1>2, <2>1, <2>3, <3>1 DEF Passed
    <2> QED BY <2>2, <2>3
<1>4. CASE ~(Depth[l] >= Depth[level])
    <2>1. Depth[l] < Depth[level] /\ l \in Wider /\ MayWiden(l)
        BY <1>1, <1>4, DepthIs DEF Levels, Wider
    <2>2. n = "done" \/ Depth[l] > Depth[n]
        BY <1>2
    <2>3. n \in Wider => Depth[n] \in Nat /\ Depth[l] \in Nat /\ n # "done"
        BY <2>1, DepthIs DEF Wider
    <2>4. Cardinality(f) >= Limit
        BY <2>1, <2>2, <2>3, NextLevelIs
    <2> QED BY <1>2, <2>4
<1> QED BY <1>3, <1>4
-----------------------------------------------------------------------------
(* The request that a name asks *)

LEMMA NameFacts ==
    ASSUME NEW ls \in Name
    PROVE  ls \in Seq(Nat) /\ Len(ls) \in 0 .. 4 /\ \A i \in 1 .. Len(ls) : ls[i] \in Nat
<1>1. CASE ls = <<>>
    BY <1>1
<1>2. ASSUME NEW k \in Key, NEW n \in 1 .. 4, ls = SubSeq(k, 1, n)
      PROVE  ls \in Seq(Nat) /\ Len(ls) = n
    <2>1. \A i \in 1 .. n : k[i] \in Nat
        BY KeyParts
    <2> QED BY <1>2, <2>1, SubSeqProperties
<1>3. ls \in Seq(Nat) /\ Len(ls) \in 0 .. 4
    BY <1>1, <1>2 DEF Name
<1> QED BY <1>3, ElementOfSeq

LEMMA RequestOfName ==
    ASSUME NEW ls \in Name
    PROVE  /\ DnsRequest(ls) \in DiscoverRequest
           /\ DnsRequest(ls).instance = None
           /\ Len(ls) > 0 => DnsRequest(ls).location = ls[1] /\ ls[1] # None
           /\ Len(ls) > 1 => DnsRequest(ls).datacenter = ls[2] /\ ls[2] # None
           /\ Len(ls) > 3 => DnsRequest(ls).node = ls[3] /\ ls[3] # None
<1> DEFINE l == Len(ls)
<1>1. l \in 0 .. 4 /\ \A i \in 1 .. l : ls[i] \in Nat /\ ls[i] # None
    BY NameFacts, NoneAssumption
<1>2. DnsRequest(ls) = [location |-> IF l > 0 THEN ls[1] ELSE None,
                        datacenter |-> IF l > 1 THEN ls[2] ELSE None,
                        node |-> IF l > 3 THEN ls[3] ELSE None,
                        instance |-> IF l > 4 THEN ls[4] ELSE None]
    BY DEF DnsRequest
<1> HIDE DEF l
<1>3. DnsRequest(ls) \in DiscoverRequest /\ DnsRequest(ls).instance = None
    BY <1>1, <1>2 DEF DiscoverRequest, OptionalLabel
<1>4. /\ l > 0 => DnsRequest(ls).location = ls[1] /\ ls[1] # None
      /\ l > 1 => DnsRequest(ls).datacenter = ls[2] /\ ls[2] # None
      /\ l > 3 => DnsRequest(ls).node = ls[3] /\ ls[3] # None
    BY <1>1, <1>2
<1> QED BY <1>3, <1>4 DEF l

\* What is under the prefix of a level the request allows is where the name says.
LEMMA LevelsWithinName ==
    ASSUME labels \in Name, req = DnsRequest(labels),
           NEW level \in Levels, level = "name" \/ MayWiden(level),
           NEW K, Under(K, Prefix(level)) = K
    PROVE  Under(K, Pinned(labels)) = K
<1> DEFINE l == Len(labels)
           m == IF l = 3 THEN 2 ELSE IF l = 4 THEN 3 ELSE l
<1>1. l \in 0 .. 4 /\ m \in 0 .. 3 /\ m <= l
    <2>1. l \in 0 .. 4
        BY NameFacts
    <2> HIDE DEF l
    <2> QED BY <2>1
<1>2. Len(Pinned(labels)) = m /\ \A i \in 1 .. m : Pinned(labels)[i] = labels[i]
    <2>1. \A i \in 1 .. m : labels[i] \in Nat
        BY <1>1, NameFacts
    <2>2. Pinned(labels) = SubSeq(labels, 1, m)
        BY DEF Pinned
    <2> HIDE DEF m
    <2> QED BY <1>1, <2>1, <2>2, SubSeqProperties
<1>3. SUFFICES ASSUME NEW k \in K PROVE \A i \in 1 .. m : k[i] = labels[i]
    BY <1>2 DEF Under
<1>4. ASSUME l > 0 PROVE k[1] = labels[1]
    <2>1. req.location = labels[1] /\ req.location # None
        BY <1>4, RequestOfName
    <2>2. Location = labels[1]
        BY <2>1 DEF Location, Or
    <2>3. level # "all"
        BY <2>1, MayWidenIs
    <2>4. Len(Prefix(level)) >= 1
        BY <2>3, PrefixOfLevel, DepthIs DEF Levels, Wider
    <2>5. Under(K, LocPrefix) = K
        BY <2>4, PrefixOfLevel, PrefixLengths, PrefixesNest DEF Prefixes
    <2> QED BY <2>2, <2>5, UnderIs
<1>5. ASSUME l > 1 PROVE k[2] = labels[2]
    <2>1. req.datacenter = labels[2] /\ req.datacenter # None
          /\ req.location = labels[1] /\ req.location # None
        BY <1>1, <1>5, RequestOfName
    <2>2. Datacenter = labels[2]
        BY <2>1 DEF Datacenter, Or
    <2>3. level # "all" /\ level # "loc"
        BY <2>1, MayWidenIs
    <2>4. Len(Prefix(level)) >= 2
        BY <2>3, PrefixOfLevel, DepthIs DEF Levels, Wider
    <2>5. Under(K, DcPrefix) = K
        BY <2>4, PrefixOfLevel, PrefixLengths, PrefixesNest DEF Prefixes
    <2> QED BY <2>2, <2>5, UnderIs
<1>6. ASSUME l > 3 PROVE k[3] = labels[3]
    <2>1. /\ req.node = labels[3] /\ req.node # None
          /\ req.datacenter # None /\ req.location # None
        BY <1>1, <1>6, RequestOfName
    <2>2. Node = labels[3]
        BY <2>1 DEF Node, Or
    <2>3. level = "name"
        BY <2>1, MayWidenIs DEF Levels, Wider
    <2>4. Under(K, NamePrefix) = K
        BY <2>3, PrefixIs
    <2> QED BY <2>2, <2>4, UnderIs
<1>7. m = 0 \/ (m = 1 /\ l > 0) \/ (m = 2 /\ l > 1) \/ (m = 3 /\ l > 3)
    <2> HIDE DEF l
    <2> QED BY <1>1
<1> HIDE DEF l, m
<1>8. CASE m = 1 /\ l > 0
    BY <1>4, <1>8
<1>9. CASE m = 2 /\ l > 1
    BY <1>1, <1>4, <1>5, <1>9
<1>10. CASE m = 3 /\ l > 3
    BY <1>1, <1>4, <1>5, <1>6, <1>10
<1> QED BY <1>7, <1>8, <1>9, <1>10
-----------------------------------------------------------------------------
(* One read serves the prefix it reads *)

LEMMA RangeServes ==
    ASSUME NEW p, registered \in SUBSET Key
    PROVE  LET R == GetRange(p, Limit) IN
           /\ R \in SUBSET Under(registered, p)
           /\ Cardinality(R) <= Limit
           /\ Cardinality(R) = Limit \/ R = Under(registered, p)
<1>1. GetRange(p, Limit) = First(Under(registered, p), Limit)
    BY DEF GetRange, First, Rank
<1>2. Under(registered, p) \in SUBSET Key
    BY DEF Under
<1> QED BY <1>1, <1>2, FirstKeys, LimitAssumption DEF First

\* When a read has left nothing out, every prefix behind the next level is served by
\* the instances f found then.
LEMMA ReadServes ==
    ASSUME registered \in SUBSET Key, stable \in SUBSET registered,
           NEW level \in Levels, level = "name" \/ MayWiden(level),
           NEW f \in SUBSET Key, found \subseteq f, Under(f, Prefix(level)) = f,
           Cardinality(f) >= Limit \/ Under(stable, Prefix(level)) \subseteq f,
           \A p \in Passed(level) : Served(p),
           NEW p \in Passed(NextLevel(After(level), f))
    PROVE  \/ Cardinality(Under(f, p)) >= Limit
           \/ Cardinality(Under(f, p)) >= Cardinality(Under(stable, p))
<1>0. /\ Under(f, p) \in SUBSET Key /\ Under(found, p) \in SUBSET Under(f, p)
      /\ Under(stable, p) \in SUBSET Key /\ Under(found, p) \in SUBSET Key
    BY UnderSubset DEF Under
<1> DEFINE cf == Cardinality(Under(f, p))
           co == Cardinality(Under(found, p))
           cs == Cardinality(Under(stable, p))
<1>1. cf \in Nat /\ co \in Nat /\ cs \in Nat /\ co <= cf
    BY <1>0, FiniteKeys, SmallerSet
<1>2. CASE p \in Passed(level)
    <2>1. co >= Limit \/ co >= cs
        BY <1>2 DEF Served
    <2> HIDE DEF cf, co, cs
    <2>2. cf >= Limit \/ cf >= cs
        BY <1>1, <2>1, LimitAssumption
    <2> QED BY <2>2 DEF cf, co, cs
<1>3. CASE p = Prefix(level)
    <2>1. Under(f, p) = f
        BY <1>3
    <2>2. CASE Under(stable, p) \subseteq f
        BY <1>0, <2>1, <2>2, SmallerSet
    <2> QED BY <1>3, <2>1, <2>2
<1>4. CASE p \in Allowed /\ Cardinality(f) >= Limit /\ p \notin Passed(level)
    <2>1. PICK l \in Levels : p = Prefix(l)
        BY <1>4, AllowedLevels
    <2>2. Len(p) <= Len(Prefix(level))
        <3>1. ~(Len(p) > Depth[level])
            BY <1>4, DepthIs DEF Passed
        <3>2. Len(p) = Depth[l] /\ Depth[l] \in Nat /\ Depth[level] \in Nat
            BY <2>1, PrefixOfLevel, DepthIs DEF Levels, Wider
        <3>3. Len(Prefix(level)) = Depth[level]
            BY PrefixOfLevel
        <3> QED BY <3>1, <3>2, <3>3
    <2>3. Under(f, p) = f
        BY <2>1, <2>2, PrefixOfLevel, PrefixesNest
    <2> QED BY <1>4, <2>3
<1> QED BY <1>2, <1>3, <1>4, PassedGrows
-----------------------------------------------------------------------------
(* The steps *)

LEMMA SameRequest ==
    ASSUME req' = req
    PROVE  /\ Allowed' = Allowed
           /\ \A l \in Levels : Prefix(l)' = Prefix(l)
           /\ \A l \in Wider : MayWiden(l)' <=> MayWiden(l)
<1>1. LocPrefix' = LocPrefix
    BY DEF LocPrefix, Or
<1>2. DcPrefix' = DcPrefix
    BY <1>1 DEF DcPrefix, Or
<1>3. NamePrefix' = NamePrefix
    BY <1>2 DEF NamePrefix, Or
<1>4. Allowed' = Allowed
    BY <1>1, <1>2, <1>3 DEF Allowed
<1>5. /\ Prefix("name")' = Prefix("name") /\ Prefix("dc")' = Prefix("dc")
      /\ Prefix("loc")' = Prefix("loc") /\ Prefix("all")' = Prefix("all")
    <2>1. Prefix("name")' = NamePrefix' /\ Prefix("name") = NamePrefix
        BY Zenon DEF Prefix
    <2>2. Prefix("dc")' = DcPrefix' /\ Prefix("dc") = DcPrefix
        BY Zenon DEF Prefix
    <2>3. Prefix("loc")' = LocPrefix' /\ Prefix("loc") = LocPrefix
        BY Zenon DEF Prefix
    <2>4. Prefix("all")' = <<>> /\ Prefix("all") = <<>>
        BY Zenon DEF Prefix
    <2> QED BY <1>1, <1>2, <1>3, <2>1, <2>2, <2>3, <2>4
<1>6. /\ MayWiden("dc")' <=> MayWiden("dc")
      /\ MayWiden("loc")' <=> MayWiden("loc")
      /\ MayWiden("all")' <=> MayWiden("all")
    <2>1. MayWiden("dc")' <=> req'.node = None
        BY Zenon DEF MayWiden
    <2>2. MayWiden("loc")' <=> req'.datacenter = None
        BY Zenon DEF MayWiden
    <2>3. MayWiden("all")' <=> req'.location = None
        BY Zenon DEF MayWiden
    <2> QED BY MayWidenIs, <2>1, <2>2, <2>3
<1>7. \A l \in Levels : Prefix(l)' = Prefix(l)
    BY <1>5 DEF Levels, Wider
<1>8. \A l \in Wider : MayWiden(l)' <=> MayWiden(l)
    BY <1>6 DEF Wider
<1> QED BY <1>4, <1>7, <1>8

\* What every read does, whichever instances f it leaves the call with.
LEMMA CollectPreserves ==
    ASSUME IInv, NEW level \in Levels, pc = level,
           NEW f \in SUBSET Key, found \subseteq f, Cardinality(f) <= Limit,
           Under(f, Prefix(level)) = f,
           Collect(level, f), failed' \in BOOLEAN,
           ~failed' => ~failed /\ (\/ Cardinality(f) >= Limit
                                   \/ Under(stable, Prefix(level)) \subseteq f)
    PROVE  IInv'
<1>1. PICK n : n = NextLevel(After(level), f)
    OBVIOUS
<1>2. /\ found' = f /\ pc' = n
      /\ registered' = registered /\ labels' = labels /\ req' = req
      /\ stable' = stable /\ changes' = changes
    BY <1>1 DEF Collect
<1>3. /\ registered \in SUBSET Key /\ stable \in SUBSET registered
      /\ labels \in Name /\ req = DnsRequest(labels)
    BY DEF IInv, TypeOK
<1>4. level = "name" \/ MayWiden(level)
    BY DEF IInv, Widening, Levels, Wider
<1>5. \/ n = "done"
      \/ n \in Wider /\ MayWiden(n) /\ Depth[n] < Depth[level]
    BY <1>1, NextLevelIs
<1>6. TypeOK'
    BY <1>2, <1>5 DEF IInv, TypeOK, Wider
<1>7. (req = DnsRequest(labels))'
    BY <1>2, <1>3 DEF DnsRequest
<1>8. Widening'
    <2>1. ASSUME NEW l \in Wider, n = l PROVE MayWiden(l)' /\ Under(f, Prefix(l)') = f
        <3>1. MayWiden(l) /\ Depth[l] < Depth[level] /\ l \in Levels
            BY <1>5, <2>1 DEF Wider, Levels
        <3>2. Prefix(l) \in Prefixes /\ Len(Prefix(l)) = Depth[l]
            BY <3>1, PrefixOfLevel
        <3>3. Prefix(level) \in Prefixes /\ Len(Prefix(level)) = Depth[level]
            BY PrefixOfLevel
        <3>4. Depth[l] \in Nat /\ Depth[level] \in Nat
            BY <3>1, DepthIs DEF Levels, Wider
        <3>5. Len(Prefix(l)) <= Len(Prefix(level))
            BY <3>1, <3>2, <3>3, <3>4
        <3>6. Under(f, Prefix(l)) = f
            BY <3>2, <3>3, <3>5, PrefixesNest
        <3> QED BY <1>2, <3>1, <3>6, SameRequest
    <2>2. n \notin {"idle", "name"}
        BY <1>5 DEF Wider
    <2> QED BY <1>2, <2>1, <2>2 DEF Widening, Wider
<1>9. ASSUME ~failed', NEW p \in Passed(pc)' PROVE Served(p)'
    <2>1. p \in Passed(n)
        BY <1>2, SameRequest DEF Passed
    <2>2. \A q \in Passed(level) : Served(q)
        BY <1>9 DEF IInv
    <2>3. \/ Cardinality(Under(f, p)) >= Limit
          \/ Cardinality(Under(f, p)) >= Cardinality(Under(stable, p))
        BY <1>1, <1>3, <1>4, <1>9, <2>1, <2>2, ReadServes
    <2> QED BY <1>2, <2>3 DEF Served
<1>10. AnswersWithinName'
    <2>1. Under(f, Pinned(labels)) = f
        BY <1>3, <1>4, LevelsWithinName
    <2> QED BY <1>2, <2>1 DEF AnswersWithinName, Pinned
<1> QED BY <1>6, <1>7, <1>8, <1>9, <1>10 DEF IInv

LEMMA ServeDNSPreserves ==
    ASSUME IInv, NEW ls \in Name, ServeDNS(ls)
    PROVE  IInv'
<1>1. /\ labels' = ls /\ req' = DnsRequest(ls) /\ pc' = "name"
      /\ found' = {} /\ stable' = registered /\ failed' = FALSE
      /\ registered' = registered /\ changes' = changes
    BY DEF ServeDNS
<1>2. TypeOK'
    <2>1. req' \in DiscoverRequest
        BY <1>1, RequestOfName
    <2>2. Cardinality({}) <= Limit
        BY FS_EmptySet, LimitAssumption
    <2> QED BY <1>1, <2>1, <2>2 DEF IInv, TypeOK
<1>3. (req = DnsRequest(labels))'
    BY <1>1 DEF DnsRequest
<1>4. Widening'
    BY <1>1 DEF Widening
<1>5. Passed(pc)' = {}
    <2>1. ASSUME NEW p \in Allowed' PROVE Len(p) <= 3
        <3>1. PICK l, d, n : p = <<l, d, n>> \/ p = <<l, d>> \/ p = <<l>> \/ p = <<>>
            <4>1. /\ LocPrefix' = <<Location'>>
                  /\ DcPrefix' = <<Location', Datacenter'>>
                  /\ NamePrefix' = <<Location', Datacenter', Node'>>
                BY AppendTuples
                   DEF LocPrefix, DcPrefix, NamePrefix, Location, Datacenter, Node
            <4> QED BY <2>1, <4>1, Zenon DEF Allowed
        <3>2. /\ Len(<<l, d, n>>) <= 3 /\ Len(<<l, d>>) <= 3
              /\ Len(<<l>>) <= 3 /\ Len(<<>>) <= 3
            OBVIOUS
        <3> QED BY <3>1, <3>2, Zenon
    <2> QED BY <1>1, <2>1, DepthIs DEF Passed
<1>6. AnswersWithinName'
    BY <1>1 DEF AnswersWithinName, Under
<1> QED BY <1>2, <1>3, <1>4, <1>5, <1>6 DEF IInv

LEMMA GetServicesPreserves ==
    ASSUME IInv, GetServices
    PROVE  IInv'
<1>1. /\ pc = "name" /\ found = {}
      /\ registered \in SUBSET Key /\ stable \in SUBSET registered
    BY DEF GetServices, IInv, TypeOK, Widening
<1>2. req.instance = None
    BY RequestOfName DEF IInv, TypeOK
<1> DEFINE R == GetRange(NamePrefix, Limit)
<1>3. CASE Collect("name", R) /\ UNCHANGED failed
    <2>1. /\ R \in SUBSET Under(registered, NamePrefix)
          /\ Cardinality(R) <= Limit
          /\ Cardinality(R) = Limit \/ R = Under(registered, NamePrefix)
        BY <1>1, RangeServes
    <2>2. Prefix("name") = NamePrefix /\ "name" \in Levels
        BY PrefixIs DEF Levels
    <2> HIDE DEF R
    <2>3. R \in SUBSET Key /\ Under(R, NamePrefix) = R
        BY <1>1, <2>1 DEF Under
    <2>4. \/ Cardinality(R) >= Limit
          \/ Under(stable, NamePrefix) \subseteq R
        BY <1>1, <2>1, LimitAssumption, UnderSubset
    <2>5. failed' = failed /\ failed \in BOOLEAN
        BY <1>3 DEF IInv, TypeOK
    <2> QED BY <1>1, <1>3, <2>1, <2>2, <2>3, <2>4, <2>5, CollectPreserves
<1>4. CASE /\ pc' = "error" /\ failed' = TRUE
           /\ UNCHANGED <<registered, labels, req, found, stable, changes>>
    <2>1. TypeOK'
        BY <1>4 DEF IInv, TypeOK
    <2>2. (req = DnsRequest(labels))'
        BY <1>4 DEF IInv, DnsRequest
    <2>3. Widening'
        BY <1>4 DEF Widening
    <2>4. AnswersWithinName'
        BY <1>4 DEF IInv, AnswersWithinName, Pinned
    <2> QED BY <1>4, <2>1, <2>2, <2>3, <2>4 DEF IInv
<1> QED BY <1>2, <1>3, <1>4 DEF GetServices

LEMMA FillServicesPreserves ==
    ASSUME IInv, FillServices
    PROVE  IInv'
<1>1. PICK level \in Wider : pc = level
    BY DEF FillServices, Wider
<1>2. /\ registered \in SUBSET Key /\ stable \in SUBSET registered
      /\ found \in SUBSET Key /\ Cardinality(found) <= Limit /\ failed \in BOOLEAN
      /\ level \in Levels /\ Under(found, Prefix(level)) = found
    BY <1>1 DEF IInv, TypeOK, Widening, Wider, Levels
<1> DEFINE P == Prefix(level)
           R == GetRange(P, Limit)
<1>3. ASSUME NEW f \in Filled(R), Collect(level, f), failed' = failed
      PROVE  IInv'
    <2>1. /\ R \in SUBSET Under(registered, P)
          /\ Cardinality(R) <= Limit
          /\ Cardinality(R) = Limit \/ R = Under(registered, P)
        BY <1>2, RangeServes
    <2> HIDE DEF R
    <2>2. /\ f \in SUBSET (found \cup R) /\ found \subseteq f
          /\ Cardinality(f) <= Limit
          /\ Cardinality(f) = Limit \/ f = found \cup R
        BY <1>3 DEF Filled
    <2>3. f \in SUBSET Key /\ Under(f, P) = f
        <3>1. \A k \in f :
                  k \in Key /\ (k \in Under(found, P) \/ k \in Under(registered, P))
            BY <1>2, <2>1, <2>2 DEF Under
        <3> QED BY <3>1 DEF Under
    <2>4. \/ Cardinality(f) >= Limit
          \/ Under(stable, P) \subseteq f
        <3>1. CASE Cardinality(f) = Limit
            BY <3>1, LimitAssumption
        <3>2. CASE f = found \cup R /\ R = Under(registered, P)
            BY <1>2, <3>2, UnderSubset
        <3>3. CASE f = found \cup R /\ Cardinality(R) = Limit
            <4>1. Cardinality(R) <= Cardinality(f)
                BY <2>3, <3>3, SmallerSet
            <4> QED BY <3>3, <4>1
        <3> QED BY <2>1, <2>2, <3>1, <3>2, <3>3
    <2> QED BY <1>1, <1>2, <1>3, <2>2, <2>3, <2>4, CollectPreserves
<1>4. ASSUME Collect(level, found), failed' = TRUE
      PROVE  IInv'
    BY <1>1, <1>2, <1>4, CollectPreserves
<1> QED BY <1>1, <1>3, <1>4 DEF FillServices

LEMMA ChangeServicesPreserves ==
    ASSUME IInv, NEW k \in Key, ChangeServices(k)
    PROVE  IInv'
<1>1. /\ labels' = labels /\ req' = req /\ pc' = pc /\ found' = found /\ failed' = failed
      /\ stable' \in SUBSET stable
    BY DEF ChangeServices
<1>2. TypeOK'
    <2>1. registered' \in SUBSET Key /\ stable' \in SUBSET registered'
        BY DEF IInv, TypeOK, ChangeServices
    <2>2. changes' \in 0 .. MaxChanges
        BY LimitAssumption DEF IInv, TypeOK, ChangeServices
    <2> QED BY <1>1, <2>1, <2>2 DEF IInv, TypeOK
<1>3. (req = DnsRequest(labels))'
    BY <1>1 DEF IInv, DnsRequest
<1>4. Widening'
    BY <1>1, SameRequest DEF IInv, Widening, Wider, Levels
<1>5. ASSUME ~failed', NEW p \in Passed(pc)' PROVE Served(p)'
    <2>1. p \in Passed(pc)
        BY <1>1, <1>5, SameRequest DEF Passed
    <2>2. Served(p)
        BY <1>1, <1>5, <2>1 DEF IInv
    <2>3. PICK s \in SUBSET Key : s = stable' /\ s \in SUBSET stable
        BY <1>1 DEF IInv, TypeOK
    <2>4. Cardinality(Under(s, p)) <= Cardinality(Under(stable, p))
        <3>1. Under(stable, p) \in SUBSET Key /\ Under(s, p) \in SUBSET Under(stable, p)
            BY <2>3 DEF IInv, TypeOK, Under
        <3> QED BY <3>1, SmallerSet
    <2>5. /\ Cardinality(Under(s, p)) \in Nat /\ Cardinality(Under(stable, p)) \in Nat
          /\ Cardinality(Under(found, p)) \in Nat
        BY <2>3, FiniteKeys DEF IInv, TypeOK, Under
    <2>6. \/ Cardinality(Under(found, p)) >= Limit
          \/ Cardinality(Under(found, p)) >= Cardinality(Under(s, p))
        BY <2>2, <2>4, <2>5 DEF Served
    <2> QED BY <1>1, <2>3, <2>6 DEF Served
<1>6. AnswersWithinName'
    BY <1>1 DEF IInv, AnswersWithinName, Pinned
<1> QED BY <1>2, <1>3, <1>4, <1>5, <1>6 DEF IInv

LEMMA InitIInv ==
    ASSUME Init
    PROVE  IInv
<1>1. <<>> \in Name /\ DnsRequest(<<>>) = NoRequest
    BY EmptySeq DEF Name, DnsRequest, NoRequest
<1>2. TypeOK
    <2>1. NoRequest \in DiscoverRequest
        BY <1>1, RequestOfName
    <2>2. Cardinality({}) <= Limit
        BY FS_EmptySet, LimitAssumption
    <2>3. labels \in Name /\ req \in DiscoverRequest
        BY <1>1, <2>1, Zenon DEF Init
    <2>4. Cardinality(found) <= Limit
        BY <2>2, Zenon DEF Init
    <2>5. /\ registered \in SUBSET Key /\ found = {} /\ stable = {}
          /\ failed = FALSE /\ changes = 0 /\ pc = "idle"
        BY Zenon DEF Init
    <2>6. changes \in 0 .. MaxChanges
        BY <2>5, LimitAssumption
    <2> QED BY <2>3, <2>4, <2>5, <2>6 DEF TypeOK
<1>3. Passed("idle") = {}
    BY DepthIs DEF Passed, Levels, Wider
<1> QED BY <1>1, <1>2, <1>3 DEF Init, IInv, Widening, AnswersWithinName, Under

LEMMA NextIInv ==
    ASSUME IInv, [Next]_vars
    PROVE  IInv'
<1>1. CASE Next
    BY <1>1, ServeDNSPreserves, GetServicesPreserves, FillServicesPreserves,
       ChangeServicesPreserves DEF Next
<1>2. CASE UNCHANGED vars
    <2>1. /\ UNCHANGED <<registered, labels, req, pc, found>>
          /\ UNCHANGED <<stable, failed, changes>>
        BY <1>2 DEF vars
    <2>2. TypeOK'
        BY <2>1 DEF IInv, TypeOK
    <2>3. (req = DnsRequest(labels))'
        BY <2>1 DEF IInv, DnsRequest
    <2>4. Widening'
        BY <2>1, SameRequest DEF IInv, Widening, Wider, Levels
    <2>5. ASSUME ~failed', NEW p \in Passed(pc)' PROVE Served(p)'
        <3>1. p \in Passed(pc)
            BY <2>1, <2>5, SameRequest DEF Passed
        <3> QED BY <2>1, <2>5, <3>1 DEF IInv, Served
    <2>6. AnswersWithinName'
        BY <2>1 DEF IInv, AnswersWithinName, Pinned
    <2> QED BY <2>2, <2>3, <2>4, <2>5, <2>6 DEF IInv
<1> QED BY <1>1, <1>2
-----------------------------------------------------------------------------
(* The theorems *)

\* Every reachable state satisfies the inductive invariant: what the call has read, and
\* that the search only ever widens (Discover, fillServices, ServeDNS).
THEOREM InductiveInvariant == Spec => []IInv
BY InitIInv, NextIInv, PTL DEF Spec

\* Type correctness: among the rest, the answer of Discover never holds more instances
\* than MaxGetServiceLimit, though its reads may overlap.
THEOREM TypeCorrect == Spec => []TypeOK
<1>1. IInv => TypeOK
    BY DEF IInv
<1> QED BY <1>1, InductiveInvariant, PTL

\* The nearest come first, and no answer is short while others exist: for any instances,
\* limit and caller, and whatever is registered or removed between the reads of one
\* Discover, its answer holds of every prefix it may read as many instances as stayed.
THEOREM NearestFirst == Spec => []NearestServed
<1>1. IInv => NearestServed
    BY DEF IInv, NearestServed, Passed
<1> QED BY <1>1, InductiveInvariant, PTL

\* A question for a name under cluster.internal is only ever answered with instances
\* where the name says, although Discover widens its search (ServeDNS and Discover).
THEOREM WithinName == Spec => []AnswersWithinName
<1>1. IInv => AnswersWithinName
    BY DEF IInv
<1> QED BY <1>1, InductiveInvariant, PTL
=============================================================================
