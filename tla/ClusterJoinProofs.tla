-------------------------- MODULE ClusterJoinProofs --------------------------
(***************************************************************************)
(* Proofs about ClusterJoin, for any number of registries, whichever they  *)
(* join, and any bounds.                                                   *)
(***************************************************************************)
EXTENDS ClusterJoin, TLAPS

(* The founder is the one registry without a JOIN_URL. *)
LEMMA FounderFacts ==
  /\ Founder \in Registry /\ JoinUrl[Founder] = None
  /\ \A r \in Registry : r # Founder => JoinUrl[r] \in Registry
  BY JoinAssumption, NoneAssumption DEF Founder

LEMMA InitIInv == Init => IInv
  BY FounderFacts, BoundsAssumption
  DEF Init, IInv, TypeOK, TokenShared, TokenSaved, PeersKnown, DataOfFounder, CallerWaits,
      FounderAlone, Shared, Running, Step, Token

LEMMA ConfigureKeeps ==
  ASSUME IInv, NEW r \in Registry, Configure(r)
  PROVE  IInv'
  <1> USE FounderFacts, NoneAssumption, BoundsAssumption DEF IInv
  <1>1. TypeOK'
    BY DEF Configure, files, etcd, FounderAlone, TypeOK, Running, Token, Step, Change,
           CallerWaits, DataOfFounder
  <1>2. TokenShared'
    BY DEF Configure, files, etcd, TypeOK, TokenShared, Shared, Running, CallerWaits,
           Step, Token
  <1>3. TokenSaved'
    BY DEF Configure, files, etcd, TypeOK, TokenSaved, Token
  <1>4. PeersKnown'
    BY DEF Configure, files, etcd, FounderAlone, TypeOK, PeersKnown, CallerWaits,
           Running, DataOfFounder
  <1>5. DataOfFounder'
    BY DEF Configure, files, etcd, FounderAlone, TypeOK, DataOfFounder, Running,
           CallerWaits, PeersKnown
  <1>6. CallerWaits'
    BY DEF Configure, files, etcd, TypeOK, CallerWaits, Change
  <1>7. FounderAlone'
    BY DEF Configure, files, etcd, TypeOK, FounderAlone, CallerWaits, Change
  <1> QED
    BY <1>1, <1>2, <1>3, <1>4, <1>5, <1>6, <1>7

LEMMA LoadStateKeeps ==
  ASSUME IInv, NEW r \in Registry, LoadState(r)
  PROVE  IInv'
  <1> USE FounderFacts, NoneAssumption, BoundsAssumption DEF IInv
  <1>1. TypeOK'
    BY DEF LoadState, MayStart, KnownToken, SaveToken, Decodable, Fault, Goto, files,
           etcd, FounderAlone, TypeOK, Running, Token, Step, Change, CallerWaits,
           DataOfFounder
  <1>2. TokenShared'
    BY DEF LoadState, MayStart, KnownToken, SaveToken, Decodable, Fault, Goto, files,
           etcd, TypeOK, TokenShared, Shared, Running, CallerWaits, Step, Token
  <1>3. TokenSaved'
    BY DEF LoadState, MayStart, KnownToken, SaveToken, Decodable, Fault, Goto, files,
           etcd, TypeOK, TokenSaved, Token
  <1>4. PeersKnown'
    BY DEF LoadState, MayStart, KnownToken, SaveToken, Decodable, Fault, Goto, files,
           etcd, FounderAlone, TypeOK, PeersKnown, CallerWaits, Running, DataOfFounder
  <1>5. DataOfFounder'
    BY DEF LoadState, MayStart, KnownToken, SaveToken, Decodable, Fault, Goto, files,
           etcd, FounderAlone, TypeOK, DataOfFounder, Running, CallerWaits, PeersKnown
  <1>6. CallerWaits'
    BY DEF LoadState, MayStart, KnownToken, SaveToken, Decodable, Fault, Goto, files,
           etcd, TypeOK, CallerWaits, Change
  <1>7. FounderAlone'
    BY DEF LoadState, MayStart, KnownToken, SaveToken, Decodable, Fault, Goto, files,
           etcd, TypeOK, FounderAlone, CallerWaits, Change
  <1> QED
    BY <1>1, <1>2, <1>3, <1>4, <1>5, <1>6, <1>7

LEMMA AddSelfPeerKeeps ==
  ASSUME IInv, NEW r \in Registry, AddSelfPeer(r)
  PROVE  IInv'
  <1> USE FounderFacts, NoneAssumption, BoundsAssumption DEF IInv
  <1>1. TypeOK'
    BY DEF AddSelfPeer, Goto, files, etcd, FounderAlone, TypeOK, Running, Token, Step,
           Change, CallerWaits, DataOfFounder
  <1>2. TokenShared'
    BY DEF AddSelfPeer, Goto, files, etcd, TypeOK, TokenShared, Shared, Running,
           CallerWaits, Step, Token
  <1>3. TokenSaved'
    BY DEF AddSelfPeer, Goto, files, etcd, TypeOK, TokenSaved, Token
  <1>4. PeersKnown'
    BY DEF AddSelfPeer, Goto, files, etcd, FounderAlone, TypeOK, PeersKnown,
           CallerWaits, Running, DataOfFounder
  <1>5. DataOfFounder'
    BY DEF AddSelfPeer, Goto, files, etcd, FounderAlone, TypeOK, DataOfFounder, Running,
           CallerWaits, PeersKnown
  <1>6. CallerWaits'
    BY DEF AddSelfPeer, Goto, files, etcd, TypeOK, CallerWaits, Change
  <1>7. FounderAlone'
    BY DEF AddSelfPeer, Goto, files, etcd, TypeOK, FounderAlone, CallerWaits, Change
  <1> QED
    BY <1>1, <1>2, <1>3, <1>4, <1>5, <1>6, <1>7

LEMMA AddSelfPeerFailsKeeps ==
  ASSUME IInv, NEW r \in Registry, AddSelfPeerFails(r)
  PROVE  IInv'
  <1> USE FounderFacts, NoneAssumption, BoundsAssumption DEF IInv
  <1>1. TypeOK'
    BY DEF AddSelfPeerFails, Goto, files, etcd, FounderAlone, TypeOK, Running, Token,
           Step, Change, CallerWaits, DataOfFounder
  <1>2. TokenShared'
    BY DEF AddSelfPeerFails, Goto, files, etcd, TypeOK, TokenShared, Shared, Running,
           CallerWaits, Step, Token
  <1>3. TokenSaved'
    BY DEF AddSelfPeerFails, Goto, files, etcd, TypeOK, TokenSaved, Token
  <1>4. PeersKnown'
    BY DEF AddSelfPeerFails, Goto, files, etcd, FounderAlone, TypeOK, PeersKnown,
           CallerWaits, Running, DataOfFounder
  <1>5. DataOfFounder'
    BY DEF AddSelfPeerFails, Goto, files, etcd, FounderAlone, TypeOK, DataOfFounder,
           Running, CallerWaits, PeersKnown
  <1>6. CallerWaits'
    BY DEF AddSelfPeerFails, Goto, files, etcd, TypeOK, CallerWaits, Change
  <1>7. FounderAlone'
    BY DEF AddSelfPeerFails, Goto, files, etcd, TypeOK, FounderAlone, CallerWaits,
           Change
  <1> QED
    BY <1>1, <1>2, <1>3, <1>4, <1>5, <1>6, <1>7

LEMMA ProposeMemberKeeps ==
  ASSUME IInv, NEW r \in Registry, ProposeMember(r)
  PROVE  IInv'
  <1> USE FounderFacts, NoneAssumption, BoundsAssumption DEF IInv
  <1>1. TypeOK'
    <2>1. HasQuorum(JoinUrl[r]) /\ JoinUrl[r] \in Registry
      BY DEF ProposeMember, Propose, FounderAlone
    <2>2. data[JoinUrl[r]] \in Registry
      BY <2>1 DEF HasQuorum, DataOfFounder, TypeOK
    <2>3. [type |-> "add", registry |-> r, cluster |-> data[JoinUrl[r]], caller |-> TRUE]
            \in Change
      BY <2>2 DEF Change
    <2>4. pending' \in Change \cup {None}
      <3>1. \/ pending' = pending
            \/ pending' = [type |-> "add", registry |-> r, cluster |-> data[JoinUrl[r]],
                            caller |-> TRUE]
        BY DEF ProposeMember, Propose
      <3>2. pending \in Change \cup {None}
        BY DEF TypeOK
      <3> HIDE DEF IInv
      <3> QED
        BY <2>3, <3>1, <3>2
    <2> QED
      BY <2>4 DEF ProposeMember, Propose, Goto, files, etcd, TypeOK, Step
  <1>2. TokenShared'
    BY DEF ProposeMember, Propose, HasQuorum, Change, Goto, files, etcd, TypeOK,
           TokenShared, Shared, Running, CallerWaits, Step, Token
  <1>3. TokenSaved'
    BY DEF ProposeMember, Propose, HasQuorum, Change, Goto, files, etcd, TypeOK,
           TokenSaved, Token
  <1>4. PeersKnown'
    BY DEF ProposeMember, Propose, HasQuorum, Change, Goto, files, etcd, FounderAlone,
           TypeOK, PeersKnown, CallerWaits, Running, DataOfFounder
  <1>5. DataOfFounder'
    BY DEF ProposeMember, Propose, HasQuorum, Change, Goto, files, etcd, FounderAlone,
           TypeOK, DataOfFounder, Running, CallerWaits, PeersKnown
  <1>6. CallerWaits'
    BY DEF ProposeMember, Propose, HasQuorum, Change, Goto, files, etcd, TypeOK,
           CallerWaits
  <1>7. FounderAlone'
    BY DEF ProposeMember, Propose, HasQuorum, Change, Goto, files, etcd, TypeOK,
           FounderAlone, CallerWaits
  <1> QED
    BY <1>1, <1>2, <1>3, <1>4, <1>5, <1>6, <1>7

LEMMA GetPeersKeeps ==
  ASSUME IInv, NEW r \in Registry, GetPeers(r)
  PROVE  IInv'
  <1> USE FounderFacts, NoneAssumption, BoundsAssumption DEF IInv
  <1>1. TypeOK'
    BY DEF GetPeers, Reachable, ServesPeers, Unanswered, Goto, files, etcd,
           FounderAlone, TypeOK, Running, Token, Step, Change, CallerWaits,
           DataOfFounder
  <1>2. TokenShared'
    BY DEF GetPeers, Reachable, ServesPeers, Unanswered, Goto, files, etcd, TypeOK,
           TokenShared, Shared, Running, CallerWaits, Step, Token
  <1>3. TokenSaved'
    BY DEF GetPeers, Reachable, ServesPeers, Unanswered, Goto, files, etcd, TypeOK,
           TokenSaved, Token
  <1>4. PeersKnown'
    BY DEF GetPeers, Reachable, ServesPeers, Unanswered, Goto, files, etcd,
           FounderAlone, TypeOK, PeersKnown, CallerWaits, Running, DataOfFounder
  <1>5. DataOfFounder'
    BY DEF GetPeers, Reachable, ServesPeers, Unanswered, Goto, files, etcd,
           FounderAlone, TypeOK, DataOfFounder, Running, CallerWaits, PeersKnown
  <1>6. CallerWaits'
    BY DEF GetPeers, Reachable, ServesPeers, Unanswered, Goto, files, etcd, TypeOK,
           CallerWaits, Change
  <1>7. FounderAlone'
    BY DEF GetPeers, Reachable, ServesPeers, Unanswered, Goto, files, etcd, TypeOK,
           FounderAlone, CallerWaits, Change
  <1> QED
    BY <1>1, <1>2, <1>3, <1>4, <1>5, <1>6, <1>7

LEMMA StartEtcdKeeps ==
  ASSUME IInv, NEW r \in Registry, StartEtcd(r)
  PROVE  IInv'
  <1> USE FounderFacts, NoneAssumption, BoundsAssumption DEF IInv
  <1>1. TypeOK'
    BY DEF StartEtcd, Found, JoinsCluster, InitialCluster, Goto, files, etcd,
           FounderAlone, TypeOK, Running, Token, Step, Change, CallerWaits,
           DataOfFounder
  <1>2. TokenShared'
    BY DEF StartEtcd, Found, JoinsCluster, InitialCluster, Goto, files, etcd, TypeOK,
           TokenShared, Shared, Running, CallerWaits, Step, Token
  <1>3. TokenSaved'
    BY DEF StartEtcd, Found, JoinsCluster, InitialCluster, Goto, files, etcd, TypeOK,
           TokenSaved, Token
  <1>4. PeersKnown'
    BY DEF StartEtcd, Found, JoinsCluster, InitialCluster, Goto, files, etcd,
           FounderAlone, TypeOK, PeersKnown, CallerWaits, Running, DataOfFounder
  <1>5. DataOfFounder'
    BY DEF StartEtcd, Found, JoinsCluster, InitialCluster, Goto, files, etcd,
           FounderAlone, TypeOK, DataOfFounder, Running, CallerWaits, PeersKnown
  <1>6. CallerWaits'
    BY DEF StartEtcd, Found, JoinsCluster, InitialCluster, Goto, files, etcd, TypeOK,
           CallerWaits, Change
  <1>7. FounderAlone'
    BY DEF StartEtcd, Found, JoinsCluster, InitialCluster, Goto, files, etcd, TypeOK,
           FounderAlone, CallerWaits, Change
  <1> QED
    BY <1>1, <1>2, <1>3, <1>4, <1>5, <1>6, <1>7

LEMMA ReadyKeeps ==
  ASSUME IInv, NEW r \in Registry, Ready(r)
  PROVE  IInv'
  <1> USE FounderFacts, NoneAssumption, BoundsAssumption DEF IInv
  <1>1. TypeOK'
    BY DEF Ready, Goto, files, etcd, FounderAlone, TypeOK, Running, Token, Step, Change,
           CallerWaits, DataOfFounder
  <1>2. TokenShared'
    BY DEF Ready, Goto, files, etcd, TypeOK, TokenShared, Shared, Running, CallerWaits,
           Step, Token
  <1>3. TokenSaved'
    BY DEF Ready, Goto, files, etcd, TypeOK, TokenSaved, Token
  <1>4. PeersKnown'
    BY DEF Ready, Goto, files, etcd, FounderAlone, TypeOK, PeersKnown, CallerWaits,
           Running, DataOfFounder
  <1>5. DataOfFounder'
    BY DEF Ready, Goto, files, etcd, FounderAlone, TypeOK, DataOfFounder, Running,
           CallerWaits, PeersKnown
  <1>6. CallerWaits'
    BY DEF Ready, Goto, files, etcd, TypeOK, CallerWaits, Change
  <1>7. FounderAlone'
    BY DEF Ready, Goto, files, etcd, TypeOK, FounderAlone, CallerWaits, Change
  <1> QED
    BY <1>1, <1>2, <1>3, <1>4, <1>5, <1>6, <1>7

LEMMA TimeOutKeeps ==
  ASSUME IInv, NEW r \in Registry, TimeOut(r)
  PROVE  IInv'
  <1> USE FounderFacts, NoneAssumption, BoundsAssumption DEF IInv
  <1>1. TypeOK'
    BY DEF TimeOut, Fault, Goto, files, etcd, FounderAlone, TypeOK, Running, Token,
           Step, Change, CallerWaits, DataOfFounder
  <1>2. TokenShared'
    BY DEF TimeOut, Fault, Goto, files, etcd, TypeOK, TokenShared, Shared, Running,
           CallerWaits, Step, Token
  <1>3. TokenSaved'
    BY DEF TimeOut, Fault, Goto, files, etcd, TypeOK, TokenSaved, Token
  <1>4. PeersKnown'
    BY DEF TimeOut, Fault, Goto, files, etcd, FounderAlone, TypeOK, PeersKnown,
           CallerWaits, Running, DataOfFounder
  <1>5. DataOfFounder'
    BY DEF TimeOut, Fault, Goto, files, etcd, FounderAlone, TypeOK, DataOfFounder,
           Running, CallerWaits, PeersKnown
  <1>6. CallerWaits'
    BY DEF TimeOut, Fault, Goto, files, etcd, TypeOK, CallerWaits, Change
  <1>7. FounderAlone'
    BY DEF TimeOut, Fault, Goto, files, etcd, TypeOK, FounderAlone, CallerWaits, Change
  <1> QED
    BY <1>1, <1>2, <1>3, <1>4, <1>5, <1>6, <1>7

LEMMA UpdateMemberKeeps ==
  ASSUME IInv, NEW r \in Registry, UpdateMember(r)
  PROVE  IInv'
  <1> USE FounderFacts, NoneAssumption, BoundsAssumption DEF IInv
  <1>1. TypeOK'
    <2>1. data[r] \in Registry
      BY DEF UpdateMember, Propose, HasQuorum, DataOfFounder, TypeOK
    <2>2. [type |-> "update", registry |-> r, cluster |-> data[r], caller |-> TRUE]
            \in Change
      BY <2>1 DEF Change
    <2>3. pending' \in Change \cup {None}
      <3>1. \/ pending' = pending
            \/ pending' = [type |-> "update", registry |-> r, cluster |-> data[r],
                            caller |-> TRUE]
        BY DEF UpdateMember, Propose
      <3>2. pending \in Change \cup {None}
        BY DEF TypeOK
      <3> HIDE DEF IInv
      <3> QED
        BY <2>2, <3>1, <3>2
    <2> QED
      BY <2>3 DEF UpdateMember, Propose, Goto, files, etcd, TypeOK, Step
  <1>2. TokenShared'
    BY DEF UpdateMember, Propose, HasQuorum, Change, Goto, files, etcd, TypeOK,
           TokenShared, Shared, Running, CallerWaits, Step, Token
  <1>3. TokenSaved'
    BY DEF UpdateMember, Propose, HasQuorum, Change, Goto, files, etcd, TypeOK,
           TokenSaved, Token
  <1>4. PeersKnown'
    BY DEF UpdateMember, Propose, HasQuorum, Change, Goto, files, etcd, FounderAlone,
           TypeOK, PeersKnown, CallerWaits, Running, DataOfFounder
  <1>5. DataOfFounder'
    BY DEF UpdateMember, Propose, HasQuorum, Change, Goto, files, etcd, FounderAlone,
           TypeOK, DataOfFounder, Running, CallerWaits, PeersKnown
  <1>6. CallerWaits'
    BY DEF UpdateMember, Propose, HasQuorum, Change, Goto, files, etcd, TypeOK,
           CallerWaits
  <1>7. FounderAlone'
    BY DEF UpdateMember, Propose, HasQuorum, Change, Goto, files, etcd, TypeOK,
           FounderAlone, CallerWaits
  <1> QED
    BY <1>1, <1>2, <1>3, <1>4, <1>5, <1>6, <1>7

LEMMA ExpireKeeps ==
  ASSUME IInv, NEW r \in Registry, Expire(r)
  PROVE  IInv'
  <1> USE FounderFacts, NoneAssumption, BoundsAssumption DEF IInv
  <1>1. TypeOK'
    BY DEF Expire, Fault, files, etcd, FounderAlone, TypeOK, Running, Token, Step,
           Change, CallerWaits, DataOfFounder
  <1>2. TokenShared'
    BY DEF Expire, Fault, files, etcd, TypeOK, TokenShared, Shared, Running,
           CallerWaits, Step, Token
  <1>3. TokenSaved'
    BY DEF Expire, Fault, files, etcd, TypeOK, TokenSaved, Token
  <1>4. PeersKnown'
    BY DEF Expire, Fault, files, etcd, FounderAlone, TypeOK, PeersKnown, CallerWaits,
           Running, DataOfFounder
  <1>5. DataOfFounder'
    BY DEF Expire, Fault, files, etcd, FounderAlone, TypeOK, DataOfFounder, Running,
           CallerWaits, PeersKnown
  <1>6. CallerWaits'
    BY DEF Expire, Fault, files, etcd, TypeOK, CallerWaits, Change
  <1>7. FounderAlone'
    BY DEF Expire, Fault, files, etcd, TypeOK, FounderAlone, CallerWaits, Change
  <1> QED
    BY <1>1, <1>2, <1>3, <1>4, <1>5, <1>6, <1>7

(* Crash and Leave. *)
LEMMA EndKeeps ==
  ASSUME IInv, NEW r \in Registry, End(r),
         gone' \subseteq Registry, faults' \in 0 .. MaxFaults
  PROVE  IInv'
  <1> USE FounderFacts, NoneAssumption, BoundsAssumption DEF IInv
  <1>1. TypeOK'
    <2>1. pending # None => [pending EXCEPT !.caller = FALSE] \in Change
      BY DEF TypeOK, Change
    <2>2. pending' \in Change \cup {None}
      BY <2>1 DEF End, TypeOK
    <2>3. expired' \subseteq {s \in Registry : pc'[s] = "up"}
      BY DEF End, TypeOK
    <2> QED
      BY <2>2, <2>3 DEF End, files, etcd, TypeOK, Step
  <1>2. TokenShared'
    BY DEF End, files, etcd, TypeOK, TokenShared, Shared, Running, CallerWaits, Step,
           Token
  <1>3. TokenSaved'
    BY DEF End, files, etcd, TypeOK, TokenSaved, Token
  <1>4. PeersKnown'
    BY DEF End, files, etcd, FounderAlone, TypeOK, PeersKnown, CallerWaits, Running,
           DataOfFounder
  <1>5. DataOfFounder'
    BY DEF End, files, etcd, FounderAlone, TypeOK, DataOfFounder, Running, CallerWaits,
           PeersKnown
  <1>6. CallerWaits'
    BY DEF End, files, etcd, TypeOK, CallerWaits, Change
  <1>7. FounderAlone'
    BY DEF End, files, etcd, TypeOK, FounderAlone, CallerWaits, Change
  <1> QED
    BY <1>1, <1>2, <1>3, <1>4, <1>5, <1>6, <1>7

LEMMA ApplyChangeKeeps ==
  ASSUME IInv, ApplyChange
  PROVE  IInv'
  <1> USE FounderFacts, NoneAssumption, BoundsAssumption DEF IInv
  <1>1. TypeOK'
    BY DEF ApplyChange, Change, Goto, files, etcd, FounderAlone, TypeOK, Running, Token,
           Step, CallerWaits, DataOfFounder
  <1>2. TokenShared'
    BY DEF ApplyChange, Change, Goto, files, etcd, TypeOK, TokenShared, Shared, Running,
           CallerWaits, Step, Token
  <1>3. TokenSaved'
    BY DEF ApplyChange, Change, Goto, files, etcd, TypeOK, TokenSaved, Token
  <1>4. PeersKnown'
    BY DEF ApplyChange, Change, Goto, files, etcd, FounderAlone, TypeOK, PeersKnown,
           CallerWaits, Running, DataOfFounder
  <1>5. DataOfFounder'
    BY DEF ApplyChange, Change, Goto, files, etcd, FounderAlone, TypeOK, DataOfFounder,
           Running, CallerWaits, PeersKnown
  <1>6. CallerWaits'
    BY DEF ApplyChange, Change, Goto, files, etcd, TypeOK, CallerWaits
  <1>7. FounderAlone'
    BY DEF ApplyChange, Change, Goto, files, etcd, TypeOK, FounderAlone, CallerWaits
  <1> QED
    BY <1>1, <1>2, <1>3, <1>4, <1>5, <1>6, <1>7

LEMMA NextKeeps == IInv /\ [Next]_vars => IInv'
  <1> SUFFICES ASSUME IInv, [Next]_vars PROVE IInv'
    OBVIOUS
  <1>1. ASSUME NEW r \in Registry, Start(r) PROVE IInv'
    BY <1>1, ConfigureKeeps, LoadStateKeeps, AddSelfPeerKeeps, AddSelfPeerFailsKeeps,
       ProposeMemberKeeps, GetPeersKeeps, StartEtcdKeeps, ReadyKeeps, UpdateMemberKeeps
    DEF Start
  <1>2. ASSUME NEW r \in Registry, TimeOut(r) PROVE IInv'
    BY <1>2, TimeOutKeeps
  <1>3. ASSUME NEW r \in Registry, Crash(r) PROVE IInv'
    <2>1. gone' \subseteq Registry /\ faults' \in 0 .. MaxFaults
      BY <1>3, BoundsAssumption DEF Crash, Fault, IInv, TypeOK
    <2> QED
      BY <1>3, <2>1, EndKeeps DEF Crash
  <1>4. ASSUME NEW r \in Registry, Expire(r) PROVE IInv'
    BY <1>4, ExpireKeeps
  <1>5. ASSUME NEW r \in Registry, Leave(r) PROVE IInv'
    <2>1. gone' \subseteq Registry /\ faults' \in 0 .. MaxFaults
      BY <1>5 DEF Leave, IInv, TypeOK
    <2> QED
      BY <1>5, <2>1, EndKeeps DEF Leave
  <1>6. CASE ApplyChange
    BY <1>6, ApplyChangeKeeps
  <1>7. CASE UNCHANGED vars
    BY <1>7
    DEF vars, IInv, TypeOK, TokenShared, TokenSaved, PeersKnown, DataOfFounder, CallerWaits,
        FounderAlone, Shared, Running
  <1> QED
    BY <1>1, <1>2, <1>3, <1>4, <1>5, <1>6, <1>7 DEF Next

(* main, loadStateToken, GetPeers, UpdateMember: whatever order the registries start in *)
(* and wherever they die, one that joins has the founder's token and data of the        *)
(* founder's cluster or none, knows peers before it starts etcd without data, and waits *)
(* as long as etcd has a change of its own to apply.                                    *)
THEOREM InductiveInvariant == Spec => []IInv
  BY InitIInv, NextKeeps, PTL DEF Spec

(* main, LoadState: whatever a registry does and wherever it is interrupted, its     *)
(* files, its step and etcd's members and log stay well formed, and a registry with  *)
(* data is a member of its cluster.                                                  *)
THEOREM TypeCorrect == Spec => []TypeOK
  <1>1. IInv => TypeOK
    BY DEF IInv
  <1> QED
    BY <1>1, InductiveInvariant, PTL

(* GetPeers, CreateEtcdConfig: no registry founds a cluster beside that of the       *)
(* founder, since without the members of the cluster it does not start etcd.         *)
THEOREM NoSecondCluster == Spec => []OneCluster
  <1>1. IInv => OneCluster
    BY DEF IInv, DataOfFounder, OneCluster
  <1> QED
    BY <1>1, InductiveInvariant, PTL

(* loadStateToken: registries that run trust one authority, since all have the token *)
(* that the founder has on its disk.                                                 *)
THEOREM AuthorityShared == Spec => []SameAuthority
  <1>1. IInv => SameAuthority
    BY FounderFacts
    DEF IInv, TypeOK, TokenShared, Shared, SameAuthority, CA, Running
  <1> QED
    BY <1>1, InductiveInvariant, PTL

(* loadStateToken: a registry changes its token only after it has failed to save one. *)
THEOREM TokensKept == Spec => TokenKept
  <1>1. IInv /\ [Next]_vars => [\A r \in Registry : token[r] \notin {None, token'[r]}
                                                => r \in unsaved]_vars
    <2> SUFFICES ASSUME IInv, [Next]_vars, NEW r \in Registry,
                        token[r] \notin {None, token'[r]}
                 PROVE  r \in unsaved
      BY DEF vars
    <2>1. PICK s \in Registry : LoadState(s)
      BY DEF Next, vars, files, Start, Configure, AddSelfPeer, AddSelfPeerFails,
             ProposeMember, UpdateMember, Propose, GetPeers, StartEtcd, Ready, TimeOut,
             Crash, Expire, Leave, End, ApplyChange
    <2>2. s = r
      BY <2>1 DEF LoadState, IInv, TypeOK
    <2>3. CASE tokenFile[r] = token[r]
      <3>1. KnownToken(r) = token[r]
        BY <2>3 DEF KnownToken
      <3> QED
        BY <2>1, <2>2, <3>1 DEF LoadState, IInv, TypeOK
    <2> QED
      BY <2>3 DEF IInv, TokenSaved
  <1> QED
    BY <1>1, InductiveInvariant, PTL DEF Spec, TokenKept
=============================================================================
