--------------------------- MODULE AgentAPIProofs ---------------------------
(***************************************************************************)
(* Proofs about AgentAPI, for any sets of nodes, services, calls and       *)
(* leases and any number of attempts; the last part proves that AgentAPI   *)
(* implements Directory, if LeaseRenew fails for dead leases only.         *)
(***************************************************************************)
EXTENDS AgentDirectory, TLAPS

(* The facts about requests that every case split below relies on. *)
LEMMA RequestTypes ==
    /\ \A r \in Request :
          /\ r.node \in Node
          /\ r.op \in {"heartbeat", "reset", "register", "deregister"}
          /\ r.op = "heartbeat" => r \in HeartbeatRequest
          /\ r.op = "reset" => r \in ResetRequest
          /\ r.op = "register" => r \in RegisterServiceRequest
          /\ r.op = "deregister" => r \in DeregisterServiceRequest
    /\ HeartbeatRequest \cup ResetRequest \cup RegisterServiceRequest
           \cup DeregisterServiceRequest \subseteq Request
    /\ \A r \in RegisterServiceRequest : r.svc \in Svc /\ r.spec \in ServiceSpec
    /\ \A r \in DeregisterServiceRequest : r.svc \in Svc
  BY DEF Request, HeartbeatRequest, ResetRequest, RegisterServiceRequest,
         DeregisterServiceRequest

LEMMA InitTypeOK == Init => TypeOK
  BY MaxAttemptsAssumption
  DEF Init, TypeOK, LeaseRecord, Index, Control, Reply, RequestAt, GetNodeLease

\* What TypeOK says of the control state.
ControlOK ==
    /\ pc \in [Call -> Control]
    /\ reply \in [Call -> Reply]
    /\ \A c \in Call : req[c] \in RequestAt(pc[c])
    /\ \A c \in Call : pc[c] \in GetNodeLease => tries[c] > 0

(* A call moved to a step its request may be at leaves the control state typed. *)
LEMMA GotoTyped ==
  ASSUME ControlOK, req' = req, NEW c \in Call, NEW p \in Control,
         req[c] \in RequestAt(p), Goto(c, p),
         \A d \in Call \ {c} : tries'[d] = tries[d],
         p \in GetNodeLease => tries'[c] > 0
  PROVE  ControlOK'
  BY DEF ControlOK, Goto, RequestAt

(* So does a call that finishes, whatever it was doing. *)
LEMMA FinishTyped ==
  ASSUME ControlOK, req' = req, NEW c \in Call, pc[c] # "idle", NEW r \in Reply,
         Finish(c, r), \A d \in Call \ {c} : tries'[d] = tries[d]
  PROVE  ControlOK'
  <1>1. req[c] \in Request
    BY RequestTypes DEF ControlOK, RequestAt, Control, GetNodeLease
  <1> QED
    BY <1>1 DEF ControlOK, Finish, RequestAt, Control, GetNodeLease

(* The two continuations of GetNodeLease and the failure of a request. *)
LEMMA LeasedTyped ==
  ASSUME ControlOK, req' = req, NEW c \in Call, pc[c] \in {"renew", "cas"},
         Leased(c) \/ Fail(c), tries' = tries
  PROVE  ControlOK'
  <1>1. /\ req[c] \in Request
        /\ req[c].op = "register" => req[c] \in RequestAt("put")
    BY RequestTypes DEF ControlOK, RequestAt, GetNodeLease
  <1>2. CASE Leased(c)
    BY <1>1, <1>2, GotoTyped, FinishTyped DEF Leased, Control, Reply, GetNodeLease
  <1>3. CASE Fail(c)
    BY <1>3, FinishTyped DEF Fail, Reply
  <1> QED
    BY <1>2, <1>3

LEMMA FailTyped ==
  ASSUME ControlOK, req' = req, NEW c \in Call, pc[c] # "idle", Fail(c),
         \A d \in Call \ {c} : tries'[d] = tries[d]
  PROVE  ControlOK'
  BY FinishTyped DEF Fail, Reply

LEMMA StepTypeOK == TypeOK /\ [Next]_vars => TypeOK'
  <1> SUFFICES ASSUME TypeOK, [Next]_vars PROVE TypeOK'
    OBVIOUS
  <1> USE DEF TypeOK
  <1>0. ControlOK
    BY DEF ControlOK
  <1>1. ASSUME NEW c \in Call, NEW r \in Request, Invoke(c, r) PROVE TypeOK'
    BY <1>1, RequestTypes, MaxAttemptsAssumption
    DEF Invoke, At, Goto, etcd, RequestAt, Control, GetNodeLease
  <1>2. ASSUME NEW c \in Call, Return(c) PROVE TypeOK'
    BY <1>2, MaxAttemptsAssumption DEF Return, At, etcd, RequestAt, Control, Reply, GetNodeLease
  <1>3. ASSUME NEW c \in Call, EtcdError(c) PROVE TypeOK'
    <2>1. ControlOK'
      BY <1>0, <1>3, FailTyped DEF EtcdError, client, locals
    <2> QED
      BY <1>3, <2>1 DEF EtcdError, etcd, client, locals, ControlOK
  <1>4. ASSUME NEW c \in Call, RangeNodeLease(c) PROVE TypeOK'
    BY <1>4, RequestTypes
    DEF RangeNodeLease, At, LeaseKey, Goto, etcd, client, RequestAt, Control, LeaseRecord, GetNodeLease
  <1>5. ASSUME NEW c \in Call, LeaseRenew(c) PROVE TypeOK'
    <2>1. ControlOK'
      BY <1>0, <1>5, LeasedTyped, GotoTyped
      DEF LeaseRenew, At, client, locals, ControlOK, RequestAt, Control, GetNodeLease
    <2> QED
      BY <1>5, <2>1 DEF LeaseRenew, etcd, client, locals, ControlOK
  <1>6. ASSUME NEW c \in Call, LeaseGrant(c) PROVE TypeOK'
    BY <1>6 DEF LeaseGrant, At, Goto, client, RequestAt, Control, GetNodeLease
  <1>7. ASSUME NEW c \in Call, RecordLease(c) PROVE TypeOK'
    <2>1. ControlOK'
      BY <1>0, <1>7, LeasedTyped DEF RecordLease, At, client, locals, GetNodeLease
    <2>2. LeaseKey(c) \in Node
      BY <1>7, RequestTypes DEF RecordLease, LeaseKey, At, RequestAt, GetNodeLease
    <2>3. record' \in [Node -> LeaseRecord]
      BY <1>7, <2>2 DEF RecordLease, LeaseRecord
    <2> QED
      BY <1>7, <2>1, <2>3 DEF RecordLease, client, locals, ControlOK
  <1>8. ASSUME NEW c \in Call, LoseRace(c) PROVE TypeOK'
    <2>1. ControlOK'
      <3>1. tries[c] > 0 /\ AttemptsLeft(c) # 0 => tries'[c] > 0
        BY <1>8, MaxAttemptsAssumption
        DEF LoseRace, AttemptsLeft, At, GetNodeLease
      <3>2. \A d \in Call \ {c} : tries'[d] = tries[d]
        BY <1>8 DEF LoseRace
      <3> QED
        BY <1>0, <1>8, <3>1, <3>2, FailTyped, GotoTyped
        DEF LoseRace, At, client, ControlOK, RequestAt, Control, GetNodeLease
    <2>2. tries' \in [Call -> 0 .. MaxAttempts]
      <3>1. tries[c] - 1 \in 0 .. MaxAttempts
        BY <1>8, MaxAttemptsAssumption DEF LoseRace, At, GetNodeLease
      <3> QED
        BY <1>8, <3>1 DEF LoseRace, AttemptsLeft
    <2> QED
      BY <1>8, <2>1, <2>2 DEF LoseRace, etcd, client, ControlOK
  <1>9. ASSUME NEW c \in Call, RegisterPut(c) PROVE TypeOK'
    <2>1. ControlOK'
      BY <1>0, <1>9, FinishTyped DEF RegisterPut, At, client, locals, Reply
    <2>2. NewEntry(c) \in Entry
      BY <1>9, RequestTypes DEF RegisterPut, NewEntry, Entry, At, RequestAt
    <2>3. svcIndex' \in Index /\ dcIndex' \in Index
      BY <1>9, <2>2 DEF RegisterPut, Index
    <2> QED
      BY <1>9, <2>1, <2>3 DEF RegisterPut, client, locals, ControlOK
  <1>10. ASSUME NEW c \in Call, DeregisterDelete(c) PROVE TypeOK'
    <2>1. ControlOK'
      BY <1>0, <1>10, FinishTyped DEF DeregisterDelete, At, client, locals, Reply
    <2>2. svcIndex' \in Index /\ dcIndex' \in Index
      BY <1>10 DEF DeregisterDelete, DcIndexWithout, Index
    <2> QED
      BY <1>10, <2>1, <2>2 DEF DeregisterDelete, client, locals, ControlOK
  <1>11. ASSUME NEW c \in Call, ResetFind(c) PROVE TypeOK'
    <2>1. ControlOK'
      BY <1>0, <1>11, FinishTyped, GotoTyped
      DEF ResetFind, At, client, ControlOK, RequestAt, Control, Reply, GetNodeLease
    <2>2. req[c].node \in Node
      BY <1>11, RequestTypes DEF ResetFind, At, RequestAt
    <2>3. lease' \in [Call -> Lease \cup {NoLease}]
      BY <1>11, <2>2 DEF ResetFind, LeaseKey, LeaseRecord
    <2> QED
      BY <1>11, <2>1, <2>3 DEF ResetFind, etcd, client, ControlOK
  <1>12. ASSUME NEW l \in Lease, DropLease(l)
         PROVE /\ live' \in SUBSET Lease
               /\ granted' \in SUBSET Lease
               /\ record' \in [Node -> LeaseRecord]
               /\ svcIndex' \in Index
               /\ dcIndex' \in Index
    BY <1>12 DEF DropLease, Without, Index
  <1>13. ASSUME NEW c \in Call, ResetRevoke(c) PROVE TypeOK'
    <2>1. ControlOK'
      BY <1>0, <1>13, FinishTyped
      DEF ResetRevoke, RevokeError, At, client, locals, Reply
    <2> QED
      BY <1>13, <1>12, <2>1
      DEF ResetRevoke, etcd, client, locals, ControlOK
  <1>14. ASSUME NEW l \in Lease, Expire(l) PROVE TypeOK'
    BY <1>14, <1>12 DEF Expire, client, locals
  <1>15. CASE UNCHANGED vars
    BY <1>15 DEF vars
  <1> QED
    BY <1>1, <1>2, <1>3, <1>4, <1>5, <1>6, <1>7, <1>8, <1>9, <1>10, <1>11,
       <1>13, <1>14, <1>15 DEF Next, Handler

(* Type correctness: every handler leaves the keys and its locals well formed *)
(* and only reaches the steps its request has.                                *)
THEOREM TypeCorrect == Spec => []TypeOK
  BY InitTypeOK, StepTypeOK, PTL DEF Spec
-----------------------------------------------------------------------------
(* Who a running call acts for. *)
LEMMA RequestNode ==
  ASSUME TypeOK, NEW c \in Call
  PROVE  /\ pc[c] # "idle" => req[c].node \in Node
         /\ pc[c] = "put" => req[c].svc \in Svc
         /\ pc[c] = "delete" => req[c].svc \in Svc
  BY RequestTypes DEF TypeOK, Control, RequestAt, GetNodeLease

(* Where the calls that have a stake in the record are. *)
Holding == {"renew", "grant", "cas", "put"}

(* A step that leaves etcd and every other call alone, and takes its own call *)
(* out of GetNodeLease or leaves it there with nothing read, is harmless.     *)
LEMMA LetGo ==
  ASSUME IInv, NEW c \in Call, UNCHANGED etcd,
         pc'[c] \notin Holding,
         lease'[c] \in granted \cup {NoLease},
         \A d \in Call \ {c} : /\ pc'[d] = pc[d] /\ req'[d] = req[d]
                               /\ lease'[d] = lease[d] /\ version'[d] = version[d]
  PROVE  IInv'
  BY DEF IInv, etcd, Holding, LeasesGranted, ReadsNotAhead, LeaseStepsSound,
         IndexesAgree, ServicesOnRecordedLease

LEMMA InitIInv == Init => IInv
  BY NoLeaseAssumption
  DEF Init, IInv, LeasesGranted, ReadsNotAhead, LeaseStepsSound, IndexesAgree,
      ServicesOnRecordedLease

(* When a lease ends, its keys go and every promise about it becomes void. *)
LEMMA DropLeaseKeeps ==
  ASSUME TypeOK, IInv, NEW l \in Lease, DropLease(l),
         req' = req, lease' = lease, version' = version,
         \A d \in Call : pc'[d] # pc[d] => pc'[d] \notin Holding
  PROVE  IInv'
  <1>1. LeasesGranted' /\ ReadsNotAhead' /\ LeaseStepsSound'
    BY DEF IInv, DropLease, Holding, LeasesGranted, ReadsNotAhead, LeaseStepsSound
  <1>2. IndexesAgree'
    BY DEF IInv, DropLease, IndexesAgree
  <1>3. ServicesOnRecordedLease'
    BY DEF IInv, DropLease, Without, ServicesOnRecordedLease
  <1> QED
    BY <1>1, <1>2, <1>3 DEF IInv

LEMMA StepIInv ==
  ASSUME ~RenewMayFail
  PROVE  TypeOK /\ IInv /\ [Next]_vars => IInv'
  <1> SUFFICES ASSUME TypeOK, IInv, [Next]_vars PROVE IInv'
    OBVIOUS
  <1>1. ASSUME NEW c \in Call, NEW r \in Request, Invoke(c, r) PROVE IInv'
    <2>1. pc'[c] \notin Holding
      BY <1>1, RequestTypes DEF Invoke, Goto, Holding, TypeOK
    <2> QED
      BY <1>1, <2>1, LetGo DEF Invoke, Goto, TypeOK, IInv, LeasesGranted
  <1>2. ASSUME NEW c \in Call, Return(c) PROVE IInv'
    BY <1>2, LetGo DEF Return, Holding, TypeOK
  <1>3. ASSUME NEW c \in Call, EtcdError(c) PROVE IInv'
    BY <1>3, LetGo
    DEF EtcdError, Fail, Finish, Holding, client, locals, TypeOK, IInv, LeasesGranted
  <1>4. ASSUME NEW c \in Call, RangeNodeLease(c) PROVE IInv'
    <2>1. LeasesGranted' /\ IndexesAgree' /\ ServicesOnRecordedLease'
      BY <1>4, RequestNode
      DEF IInv, RangeNodeLease, At, LeaseKey, etcd, TypeOK, LeasesGranted,
          IndexesAgree, ServicesOnRecordedLease
    <2>2. ReadsNotAhead'
      BY <1>4, RequestNode
      DEF IInv, RangeNodeLease, At, Goto, LeaseKey, etcd, client, TypeOK,
          LeaseRecord, ReadsNotAhead
    <2>3. LeaseStepsSound'
      BY <1>4, RequestNode, NoLeaseAssumption
      DEF IInv, RangeNodeLease, At, Goto, LeaseKey, etcd, client, TypeOK,
          LeasesGranted, LeaseStepsSound
    <2> QED
      BY <2>1, <2>2, <2>3 DEF IInv
  <1>5. ASSUME NEW c \in Call, LeaseRenew(c) PROVE IInv'
    <2>1. LeasesGranted' /\ IndexesAgree' /\ ServicesOnRecordedLease'
      BY <1>5
      DEF IInv, LeaseRenew, etcd, locals, LeasesGranted, IndexesAgree,
          ServicesOnRecordedLease
    <2>2. ReadsNotAhead'
      BY <1>5
      DEF IInv, LeaseRenew, At, Leased, Goto, Finish, etcd, client, locals, TypeOK,
          ReadsNotAhead
    <2>3. LeaseStepsSound'
      BY <1>5
      DEF IInv, LeaseRenew, At, Leased, Goto, Finish, etcd, client, locals, TypeOK,
          LeaseStepsSound
    <2> QED
      BY <2>1, <2>2, <2>3 DEF IInv
  <1>6. ASSUME NEW c \in Call, LeaseGrant(c) PROVE IInv'
    <2>1. LeasesGranted' /\ IndexesAgree' /\ ServicesOnRecordedLease'
      BY <1>6
      DEF IInv, LeaseGrant, TypeOK, LeasesGranted, IndexesAgree,
          ServicesOnRecordedLease
    <2>2. ReadsNotAhead'
      BY <1>6 DEF IInv, LeaseGrant, At, Goto, client, TypeOK, ReadsNotAhead
    <2>3. LeaseStepsSound'
      BY <1>6, RequestNode, NoLeaseAssumption
      DEF IInv, LeaseGrant, At, Goto, client, TypeOK, LeasesGranted, LeaseStepsSound
    <2> QED
      BY <2>1, <2>2, <2>3 DEF IInv
  <1>7. ASSUME NEW c \in Call, RecordLease(c) PROVE IInv'
    <2> DEFINE n == req[c].node
    <2>1. /\ n \in Node
          /\ record[n].lease \notin live
          /\ record[n].version \in Nat
          /\ record' = [record EXCEPT ![n] =
                           [lease |-> lease[c], version |-> record[n].version + 1]]
      BY <1>7, RequestNode
      DEF IInv, RecordLease, RecordUnmoved, LeaseKey, At, TypeOK, LeaseRecord,
          LeaseStepsSound
    <2>2. /\ pc'[c] \in {"put", "done"}
          /\ \A d \in Call \ {c} : pc'[d] = pc[d]
          /\ UNCHANGED <<live, granted, svcIndex, dcIndex, req, lease, version>>
      BY <1>7
      DEF RecordLease, Leased, Fail, Goto, Finish, client, locals, TypeOK
    <2> HIDE DEF n
    <2>3. LeasesGranted' /\ IndexesAgree'
      BY <2>1, <2>2 DEF IInv, TypeOK, LeaseRecord, LeasesGranted, IndexesAgree
    <2>4. ReadsNotAhead'
      BY <2>1, <2>2, RequestNode DEF IInv, TypeOK, LeaseRecord, ReadsNotAhead
    <2>5. LeaseStepsSound'
      <3> SUFFICES ASSUME NEW d \in Call
                   PROVE  LeaseStepsSound!(d)'
        BY DEF LeaseStepsSound
      <3>1. CASE d = c
        BY <3>1, <2>1, <2>2 DEF n, TypeOK, LeaseStepsSound
      <3>2. CASE d # c /\ pc[d] \in Holding /\ req[d].node = n
        BY <3>2, <2>1, <2>2
        DEF IInv, Holding, TypeOK, LeaseRecord, ReadsNotAhead, LeaseStepsSound
      <3>3. CASE d # c /\ (pc[d] \notin Holding \/ req[d].node # n)
        BY <3>3, <2>1, <2>2 DEF IInv, Holding, TypeOK, LeaseStepsSound
      <3> QED
        BY <3>1, <3>2, <3>3
    <2>6. ServicesOnRecordedLease'
      BY <2>1, <2>2 DEF IInv, TypeOK, ServicesOnRecordedLease
    <2> QED
      BY <2>3, <2>4, <2>5, <2>6 DEF IInv
  <1>8. ASSUME NEW c \in Call, LoseRace(c) PROVE IInv'
    <2>1. pc'[c] \notin Holding
      BY <1>8 DEF LoseRace, Fail, Goto, Finish, Holding, TypeOK
    <2> QED
      BY <1>8, <2>1, LetGo
      DEF LoseRace, Fail, Goto, Finish, client, TypeOK, IInv, LeasesGranted
  <1>9. ASSUME NEW c \in Call, RegisterPut(c) PROVE IInv'
    <2>1. LeasesGranted' /\ ReadsNotAhead' /\ LeaseStepsSound'
      BY <1>9
      DEF IInv, RegisterPut, Finish, client, locals, TypeOK, LeasesGranted,
          ReadsNotAhead, LeaseStepsSound
    <2>2. IndexesAgree'
      BY <1>9 DEF IInv, RegisterPut, IndexesAgree
    <2>3. record[req[c].node].lease = lease[c] /\ lease[c] \in live
      BY <1>9 DEF IInv, RegisterPut, At, LeaseStepsSound
    <2>4. ServicesOnRecordedLease'
      BY <1>9, <2>3, RequestNode
      DEF IInv, RegisterPut, At, NewEntry, TypeOK, Index, ServicesOnRecordedLease
    <2> QED
      BY <2>1, <2>2, <2>4 DEF IInv
  <1>10. ASSUME NEW c \in Call, DeregisterDelete(c) PROVE IInv'
    <2>1. LeasesGranted' /\ ReadsNotAhead' /\ LeaseStepsSound'
      BY <1>10
      DEF IInv, DeregisterDelete, Finish, client, locals, TypeOK, LeasesGranted,
          ReadsNotAhead, LeaseStepsSound
    <2>2. IndexesAgree'
      BY <1>10 DEF IInv, DeregisterDelete, DcIndexWithout, IndexesAgree
    <2>3. ServicesOnRecordedLease'
      BY <1>10, RequestNode
      DEF IInv, DeregisterDelete, At, TypeOK, Index, ServicesOnRecordedLease
    <2> QED
      BY <2>1, <2>2, <2>3 DEF IInv
  <1>11. ASSUME NEW c \in Call, ResetFind(c) PROVE IInv'
    <2>1. pc'[c] \notin Holding /\ lease'[c] \in granted \cup {NoLease}
      BY <1>11, RequestNode
      DEF ResetFind, At, LeaseKey, Goto, Finish, Holding, TypeOK, IInv, LeasesGranted
    <2> QED
      BY <1>11, <2>1, LetGo DEF ResetFind, Goto, Finish, client, TypeOK
  <1>12. ASSUME NEW c \in Call, ResetRevoke(c) PROVE IInv'
    <2>1. CASE UNCHANGED etcd
      BY <1>12, <2>1, LetGo
      DEF ResetRevoke, At, RevokeError, Finish, Holding, client, locals, TypeOK,
          IInv, LeasesGranted
    <2>2. CASE lease[c] \in live /\ DropLease(lease[c])
      BY <1>12, <2>2, DropLeaseKeeps
      DEF ResetRevoke, RevokeError, Finish, Holding, client, locals, TypeOK
    <2> QED
      BY <1>12, <2>1, <2>2 DEF ResetRevoke
  <1>13. ASSUME NEW l \in Lease, Expire(l) PROVE IInv'
    BY <1>13, DropLeaseKeeps DEF Expire, client, locals
  <1>14. CASE UNCHANGED vars
    BY <1>14
    DEF vars, IInv, LeasesGranted, ReadsNotAhead, LeaseStepsSound, IndexesAgree,
        ServicesOnRecordedLease
  <1> QED
    BY <1>1, <1>2, <1>3, <1>4, <1>5, <1>6, <1>7, <1>8, <1>9, <1>10, <1>11,
       <1>12, <1>13, <1>14 DEF Next, Handler

(* GetNodeLease: at each step between its read of node_lease and the transaction that   *)
(* uses what it read, a call knows no lease that was not granted and no version of the  *)
(* record that is yet to come, and as long as the record has not moved on, what it took *)
(* from it is still true: whatever calls interleave, if a failed renewal means a dead   *)
(* lease.                                                                               *)
THEOREM InductiveInvariant ==
  ASSUME ~RenewMayFail
  PROVE  Spec => []IInv
  BY InitIInv, StepIInv, TypeCorrect, PTL DEF Spec

(* GetNodeLease against itself, Register, Reset and expiry: as long as a failed *)
(* renewal means a dead lease, the services of a node stay on its one lease.    *)
THEOREM ServicesStayOnTheLease ==
  ASSUME ~RenewMayFail
  PROVE  Spec => []ServicesOnRecordedLease
  <1>1. IInv => ServicesOnRecordedLease
    BY DEF IInv
  <1> QED
    BY <1>1, InductiveInvariant, PTL

(* The lease of a node is replaced only once it has ended: two calls that find *)
(* it dead at once, or one that reads a record about to change, cannot take a  *)
(* live lease away.                                                            *)
THEOREM LiveLeaseKept ==
  ASSUME ~RenewMayFail
  PROVE  Spec => LeaseReplacedOnlyWhenDead
  <1>1. TypeOK /\ IInv /\ [Next]_vars =>
            [\A n \in Node :
                record'[n] # record[n] => record[n].lease \notin live]_vars
    <2> SUFFICES ASSUME TypeOK, IInv, Next, NEW n \in Node, record'[n] # record[n]
                 PROVE  record[n].lease \notin live
      OBVIOUS
    <2>1. PICK c \in Call : RecordLease(c)
      BY DEF Next, Handler, Invoke, Return, EtcdError, RangeNodeLease, LeaseRenew,
             LeaseGrant, LoseRace, RegisterPut, DeregisterDelete, ResetFind,
             ResetRevoke, Expire, DropLease, etcd
    <2>2. req[c].node = n
      BY <2>1 DEF RecordLease, LeaseKey, TypeOK
    <2> QED
      BY <2>1, <2>2
      DEF RecordLease, RecordUnmoved, LeaseKey, At, IInv, LeaseStepsSound
  <1> QED
    BY <1>1, InductiveInvariant, TypeCorrect, PTL DEF Spec, LeaseReplacedOnlyWhenDead

(* Both indexes change in the same transaction and with the same lease, so     *)
(* Discover and the observers never disagree, even when renewals fail.         *)
THEOREM DirectoryIndexesAgree == Spec => []IndexesAgree
  <1>1. Init => IndexesAgree
    BY DEF Init, IndexesAgree
  <1>2. IndexesAgree /\ [Next]_vars => IndexesAgree'
    <2> SUFFICES ASSUME IndexesAgree, [Next]_vars PROVE IndexesAgree'
      OBVIOUS
    <2>1. ASSUME NEW c \in Call, RegisterPut(c) PROVE IndexesAgree'
      BY <2>1 DEF IndexesAgree, RegisterPut
    <2>2. ASSUME NEW c \in Call, DeregisterDelete(c) PROVE IndexesAgree'
      BY <2>2 DEF IndexesAgree, DeregisterDelete, DcIndexWithout
    <2>3. ASSUME NEW l, DropLease(l) PROVE IndexesAgree'
      BY <2>3 DEF IndexesAgree, DropLease
    <2>4. CASE UNCHANGED <<svcIndex, dcIndex>>
      BY <2>4 DEF IndexesAgree
    <2> QED
      BY <2>1, <2>2, <2>3, <2>4
      DEF vars, Next, Handler, Invoke, Return, EtcdError, RangeNodeLease, LeaseRenew,
          LeaseGrant, RecordLease, LoseRace, ResetFind, ResetRevoke, Expire, etcd
  <1> QED
    BY <1>1, <1>2, PTL DEF Spec
-----------------------------------------------------------------------------
(* A step keeps the leases of the nodes apart if it lets a node refer to *)
(* nothing but what it referred to before and a lease just granted.      *)
LEMMA ApartKept ==
  ASSUME LeasesApart, granted \subseteq granted',
         \A c \in Call : pc'[c] = "idle" => lease'[c] = NoLease,
         NEW fresh, NEW owner,
         \A l \in Lease, n \in Node :
             Refers(n, l)' =>
                 \/ Refers(n, l)
                 \/ n = owner /\ l = fresh /\ l \in granted' \ granted
  PROVE  LeasesApart'
  <1> SUFFICES ASSUME NEW l \in Lease, NEW m \in Node, Refers(m, l)'
               PROVE  /\ l \in granted'
                      /\ \A n \in Node : Refers(n, l)' => m = n
    BY DEF LeasesApart
  <1>1. CASE l \in granted
    BY <1>1 DEF LeasesApart
  <1>2. CASE l \notin granted
    BY <1>2 DEF LeasesApart
  <1> QED
    BY <1>1, <1>2

(* The case of the steps that grant nothing. *)
LEMMA ApartKeptOldLeases ==
  ASSUME LeasesApart, granted' = granted,
         \A c \in Call : pc'[c] = "idle" => lease'[c] = NoLease,
         \A l \in Lease, n \in Node : Refers(n, l)' => Refers(n, l)
  PROVE  LeasesApart'
  BY ApartKept

LEMMA StepApart == TypeOK /\ LeasesApart /\ [Next]_vars => LeasesApart'
  <1> SUFFICES ASSUME TypeOK, LeasesApart, [Next]_vars PROVE LeasesApart'
    OBVIOUS
  <1> DEFINE Old == \A l \in Lease, n \in Node : Refers(n, l)' => Refers(n, l)
             Idle == \A c \in Call : pc'[c] = "idle" => lease'[c] = NoLease
  <1>1. ASSUME NEW c \in Call, NEW r \in Request, Invoke(c, r) PROVE Old /\ Idle
    BY <1>1, NoLeaseAssumption, RequestTypes
    DEF Invoke, At, Goto, etcd, TypeOK, LeasesApart, Refers
  <1>2. ASSUME NEW c \in Call, Return(c) PROVE Old /\ Idle
    BY <1>2 DEF Return, At, etcd, TypeOK, LeasesApart, Refers
  <1>3. ASSUME NEW c \in Call, EtcdError(c) PROVE Old /\ Idle
    BY <1>3
    DEF EtcdError, Fail, Finish, etcd, client, locals, TypeOK, LeasesApart, Refers
  <1>4. ASSUME NEW c \in Call, RangeNodeLease(c) PROVE Old /\ Idle
    BY <1>4
    DEF RangeNodeLease, At, LeaseKey, Goto, etcd, client, TypeOK, LeasesApart, Refers
  <1>5. ASSUME NEW c \in Call, LeaseRenew(c) PROVE Old /\ Idle
    BY <1>5
    DEF LeaseRenew, At, Leased, Goto, Finish, etcd, client, locals, TypeOK,
        LeasesApart, Refers
  <1>6. ASSUME NEW c \in Call, LeaseGrant(c) PROVE LeasesApart'
    <2>1. PICK l \in Lease \ granted : /\ granted' = granted \cup {l}
                                       /\ lease' = [lease EXCEPT ![c] = l]
      BY <1>6 DEF LeaseGrant
    <2>2. \A m \in Lease, n \in Node :
             Refers(n, m)' =>
                 \/ Refers(n, m)
                 \/ n = req[c].node /\ m = l /\ m \in granted' \ granted
      BY <1>6, <2>1 DEF LeaseGrant, At, Goto, client, TypeOK, Refers
    <2>3. Idle
      BY <1>6, <2>1 DEF LeaseGrant, At, Goto, TypeOK, LeasesApart
    <2>4. granted \subseteq granted'
      BY <2>1
    <2> HIDE DEF Old
    <2> QED
      BY <2>2, <2>3, <2>4, ApartKept
  <1>7. ASSUME NEW c \in Call, RecordLease(c) PROVE Old /\ Idle
    BY <1>7
    DEF RecordLease, At, LeaseKey, Leased, Fail, Goto, Finish, client, locals, TypeOK,
        LeasesApart, Refers
  <1>8. ASSUME NEW c \in Call, LoseRace(c) PROVE Old /\ Idle
    BY <1>8
    DEF LoseRace, At, Fail, Goto, Finish, etcd, client, TypeOK, LeasesApart, Refers
  <1>9. ASSUME NEW c \in Call, RegisterPut(c) PROVE Old /\ Idle
    <2>1. Idle
      BY <1>9 DEF RegisterPut, Finish, locals, TypeOK, LeasesApart
    <2>2. ASSUME NEW l \in Lease, NEW n \in Node, NEW k \in Svc,
                 svcIndex'[n][k] # NoEntry, svcIndex'[n][k].lease = l
          PROVE  Refers(n, l)
      BY <1>9, <2>2 DEF RegisterPut, At, NewEntry, TypeOK, Index, Refers
    <2> QED
      BY <1>9, <2>1, <2>2 DEF RegisterPut, At, Finish, client, locals, TypeOK, Refers
  <1>10. ASSUME NEW c \in Call, DeregisterDelete(c) PROVE Old /\ Idle
    BY <1>10
    DEF DeregisterDelete, At, Finish, client, locals, TypeOK, Index, LeasesApart, Refers
  <1>11. ASSUME NEW c \in Call, ResetFind(c) PROVE Old /\ Idle
    BY <1>11
    DEF ResetFind, At, LeaseKey, Goto, Finish, etcd, client, TypeOK, LeasesApart, Refers
  <1>12. ASSUME NEW l \in Lease, DropLease(l), UNCHANGED <<req, lease>>,
                \A c \in Call : pc'[c] = "idle" <=> pc[c] = "idle"
         PROVE  Old /\ Idle
    BY <1>12 DEF DropLease, Without, LeasesApart, Refers
  <1>13. ASSUME NEW c \in Call, ResetRevoke(c) PROVE Old /\ Idle
    <2>1. /\ UNCHANGED <<req, lease>>
          /\ \A d \in Call : pc'[d] = "idle" <=> pc[d] = "idle"
      BY <1>13 DEF ResetRevoke, At, Finish, RevokeError, client, locals, TypeOK
    <2>2. CASE UNCHANGED etcd
      BY <2>1, <2>2 DEF etcd, LeasesApart, Refers
    <2>3. CASE lease[c] \in live /\ DropLease(lease[c])
      BY <1>12, <2>1, <2>3 DEF TypeOK
    <2> QED
      BY <1>13, <2>2, <2>3 DEF ResetRevoke
  <1>14. ASSUME NEW l \in Lease, Expire(l) PROVE Old /\ Idle
    BY <1>14, <1>12 DEF Expire, client, locals
  <1>15. CASE UNCHANGED vars
    BY <1>15 DEF vars, LeasesApart, Refers
  <1>16. ASSUME NEW c \in Call, Handler(c) \/ Return(c), ~LeaseGrant(c)
         PROVE  granted' = granted
    BY <1>16
    DEF Handler, Return, EtcdError, RangeNodeLease, LeaseRenew, RecordLease, LoseRace,
        RegisterPut, DeregisterDelete, ResetFind, ResetRevoke, DropLease, etcd
  <1>17. ASSUME NEW c \in Call, Handler(c), ~LeaseGrant(c) PROVE Old /\ Idle
    BY <1>3, <1>4, <1>5, <1>7, <1>8, <1>9, <1>10, <1>11, <1>13, <1>17 DEF Handler
  <1>18. ASSUME NEW l \in Lease, Expire(l) PROVE granted' = granted
    BY <1>18 DEF Expire, DropLease
  <1>19. ASSUME NEW c \in Call, NEW r \in Request, Invoke(c, r) PROVE granted' = granted
    BY <1>19 DEF Invoke, etcd
  <1> HIDE DEF Old, Idle
  <1>20. granted' = granted /\ Old /\ Idle => LeasesApart'
    BY ApartKeptOldLeases DEF Old, Idle
  <1>21. ASSUME NEW c \in Call, Handler(c) PROVE LeasesApart'
    BY <1>6, <1>16, <1>17, <1>20, <1>21
  <1> QED
    BY <1>1, <1>2, <1>14, <1>15, <1>16, <1>18, <1>19, <1>20, <1>21 DEF Next, Handler

(* GetNodeLease and GetNodeReset: whatever a node refers to, in the directory, in its   *)
(* record or in a call that is still running, no other node refers to, also when failed *)
(* renewals give a node several leases.                                                 *)
THEOREM LeasesStayApart == Spec => []LeasesApart
  <1>1. Init => LeasesApart
    BY NoLeaseAssumption DEF Init, LeasesApart, Refers
  <1> QED
    BY <1>1, StepApart, TypeCorrect, PTL DEF Spec

(* Reset, expiry and registration stay within one node, for any number of nodes *)
(* and even when failed renewals give a node several leases.                    *)
THEOREM NodesStayApart == Spec => NodesChangeApart
  <1>1. TypeOK /\ LeasesApart /\ [Next]_vars =>
            [\A m, n \in Node :
                svcIndex'[m] # svcIndex[m] /\ svcIndex'[n] # svcIndex[n] => m = n]_vars
    <2> SUFFICES ASSUME TypeOK, LeasesApart, Next, NEW m \in Node, NEW n \in Node,
                        svcIndex'[m] # svcIndex[m], svcIndex'[n] # svcIndex[n]
                 PROVE  m = n
      OBVIOUS
    <2>1. ASSUME NEW l \in Lease, DropLease(l) PROVE m = n
      <3>1. ASSUME NEW o \in Node, svcIndex'[o] # svcIndex[o] PROVE Refers(o, l)
        <4>1. PICK k \in Svc : svcIndex[o][k] # NoEntry /\ svcIndex[o][k].lease = l
          BY <2>1, <3>1 DEF DropLease, Without, TypeOK, Index
        <4> QED
          BY <4>1 DEF Refers
      <3> QED
        BY <3>1 DEF LeasesApart
    <2>2. ASSUME NEW c \in Call, RegisterPut(c) \/ DeregisterDelete(c) PROVE m = n
      BY <2>2 DEF RegisterPut, DeregisterDelete, TypeOK, Index
    <2> QED
      BY <2>1, <2>2
      DEF Next, Handler, Invoke, Return, EtcdError, RangeNodeLease, LeaseRenew,
          LeaseGrant, RecordLease, LoseRace, ResetFind, ResetRevoke, Expire, TypeOK, etcd
  <1> QED
    BY <1>1, LeasesStayApart, TypeCorrect, PTL DEF Spec, NodesChangeApart
-----------------------------------------------------------------------------
(* What a reset knows *)

LEMMA InitResetsSound == Init => ResetsSound
  BY NoRequestAssumption DEF Init, ResetsSound, ResetRequest, Request

(* A step that leaves the record and the living leases alone and moves one call keeps *)
(* it, if it holds of that call afterwards.                                            *)
LEMMA ResetsSoundKept ==
  ASSUME TypeOK, ResetsSound, NEW c \in Call, UNCHANGED <<live, record>>,
         \A d \in Call \ {c} : /\ pc'[d] = pc[d] /\ req'[d] = req[d]
                               /\ lease'[d] = lease[d],
         pc'[c] \in {"cas", "revoke"} => lease'[c] \in Lease,
         pc'[c] \in {"idle", "find"} => lease'[c] = NoLease,
         req'[c] \in ResetRequest /\ pc'[c] \in {"revoke", "done"} /\ lease'[c] \in live
             => record[req'[c].node].lease = lease'[c]
  PROVE  ResetsSound'
  BY DEF ResetsSound

(* What the requests of the calls at each step are not. *)
LEMMA NotReset ==
  ASSUME TypeOK, NEW c \in Call,
         pc[c] \in {"range", "renew", "grant", "cas", "put", "delete"}
  PROVE  req[c] \notin ResetRequest /\ req[c] \in Request /\ req[c].op # "reset"
  BY RequestTypes
  DEF TypeOK, RequestAt, GetNodeLease, HeartbeatRequest, ResetRequest,
      RegisterServiceRequest, DeregisterServiceRequest

LEMMA StepResetsSound ==
  ASSUME ~RenewMayFail, TypeOK, IInv, ResetsSound, [Next]_vars
  PROVE  ResetsSound'
  <1>1. ASSUME NEW c \in Call, NEW r \in Request, Invoke(c, r) PROVE ResetsSound'
    <2>1. pc'[c] \in {"range", "delete", "find"} /\ lease' = lease /\ lease[c] = NoLease
      BY <1>1, RequestTypes DEF Invoke, At, Goto, TypeOK, ResetsSound
    <2> QED
      BY <1>1, <2>1, ResetsSoundKept DEF Invoke, Goto, etcd, TypeOK
  <1>2. ASSUME NEW c \in Call, Return(c) PROVE ResetsSound'
    <2>1. pc'[c] = "idle" /\ lease'[c] = NoLease
      BY <1>2 DEF Return, TypeOK
    <2> QED
      BY <1>2, <2>1, ResetsSoundKept DEF Return, etcd, TypeOK
  <1>3. ASSUME NEW c \in Call, EtcdError(c) PROVE ResetsSound'
    <2>1. pc'[c] = "done" /\ lease' = lease /\ req' = req
      BY <1>3 DEF EtcdError, Fail, Finish, client, locals, TypeOK
    <2>2. req[c] \in ResetRequest => lease[c] = NoLease
      BY <1>3, NotReset DEF EtcdError, ResetsSound
    <2> QED
      BY <1>3, <2>1, <2>2, NoLeaseAssumption, ResetsSoundKept
      DEF EtcdError, Fail, Finish, etcd, TypeOK
  <1>4. ASSUME NEW c \in Call, RangeNodeLease(c) PROVE ResetsSound'
    <2>1. pc'[c] \in {"grant", "renew"} /\ req' = req
      BY <1>4 DEF RangeNodeLease, Goto, client, TypeOK
    <2> QED
      BY <1>4, <2>1, ResetsSoundKept DEF RangeNodeLease, Goto, etcd, client, TypeOK
  <1>5. ASSUME NEW c \in Call, LeaseRenew(c) PROVE ResetsSound'
    <2>1. pc'[c] \in {"grant", "put", "done"} /\ req' = req /\ lease' = lease
      BY <1>5 DEF LeaseRenew, Leased, Goto, Finish, client, locals, TypeOK
    <2>2. req[c] \notin ResetRequest
      BY <1>5, NotReset DEF LeaseRenew, At
    <2> QED
      BY <1>5, <2>1, <2>2, ResetsSoundKept
      DEF LeaseRenew, Leased, Goto, Finish, etcd, client, locals, TypeOK
  <1>6. ASSUME NEW c \in Call, LeaseGrant(c) PROVE ResetsSound'
    <2>1. PICK l \in Lease \ granted : /\ live' = live \cup {l}
                                       /\ lease' = [lease EXCEPT ![c] = l]
      BY <1>6 DEF LeaseGrant
    <2>2. \A d \in Call : lease[d] # l
      BY <2>1, NoLeaseAssumption DEF IInv, LeasesGranted
    <2>3. req[c] \notin ResetRequest /\ pc'[c] = "cas"
      BY <1>6, NotReset DEF LeaseGrant, At, Goto, TypeOK
    <2> QED
      BY <1>6, <2>1, <2>2, <2>3 DEF LeaseGrant, Goto, client, TypeOK, ResetsSound
  <1>7. ASSUME NEW c \in Call, RecordLease(c) PROVE ResetsSound'
    <2>1. /\ pc'[c] \in {"put", "done"} /\ req[c] \notin ResetRequest
          /\ lease[c] \in Lease /\ req[c].node \in Node /\ At(c, "cas")
      BY <1>7, NotReset, RequestNode
      DEF RecordLease, At, Leased, Fail, Goto, Finish, TypeOK, ResetsSound
    <2>2. record[req[c].node].lease \notin live
      BY <1>7 DEF RecordLease, At, RecordUnmoved, LeaseKey, IInv, LeaseStepsSound
    <2>3. \A n \in Node : n # req[c].node => record'[n] = record[n]
      BY <1>7 DEF RecordLease, LeaseKey, TypeOK
    <2>4. record'[req[c].node].lease = lease[c]
      BY <1>7, <2>1 DEF RecordLease, LeaseKey, TypeOK
    <2>5. \A d \in Call \ {c} : pc'[d] = pc[d]
      BY <1>7 DEF RecordLease, Leased, Fail, Goto, Finish, TypeOK
    <2>6. \A n \in Node : record'[n].version # 0 => record'[n].lease \in Lease
      BY <2>1, <2>3, <2>4 DEF ResetsSound
    <2>7. \A d \in Call : /\ pc'[d] \in {"cas", "revoke"} => lease[d] \in Lease
                          /\ pc'[d] \in {"idle", "find"} => lease[d] = NoLease
      BY <2>1, <2>5 DEF ResetsSound
    <2>8. ASSUME NEW d \in Call, req[d] \in ResetRequest, pc'[d] \in {"revoke", "done"},
                 lease[d] \in live
          PROVE  record'[req[d].node].lease = lease[d]
      <3>1. d # c /\ pc[d] = pc'[d]
        BY <2>1, <2>5, <2>8
      <3>2. record[req[d].node].lease = lease[d] /\ req[d].node \in Node
        BY <2>8, <3>1, RequestNode DEF ResetsSound
      <3> QED
        BY <2>2, <2>3, <2>8, <3>2
    <2> QED
      BY <1>7, <2>6, <2>7, <2>8 DEF RecordLease, client, locals, ResetsSound
  <1>8. ASSUME NEW c \in Call, LoseRace(c) PROVE ResetsSound'
    <2>1. /\ pc'[c] \in {"range", "done"} /\ req' = req /\ lease' = lease
          /\ req[c] \notin ResetRequest
      BY <1>8, NotReset DEF LoseRace, At, Fail, Goto, Finish, client, TypeOK
    <2> QED
      BY <1>8, <2>1, ResetsSoundKept DEF LoseRace, Fail, Goto, Finish, etcd, TypeOK
  <1>9. ASSUME NEW c \in Call, RegisterPut(c) \/ DeregisterDelete(c) PROVE ResetsSound'
    <2>1. /\ pc'[c] = "done" /\ req' = req /\ lease' = lease
          /\ req[c] \notin ResetRequest
      BY <1>9, NotReset
      DEF RegisterPut, DeregisterDelete, At, Finish, client, locals, TypeOK
    <2> QED
      BY <1>9, <2>1, ResetsSoundKept DEF RegisterPut, DeregisterDelete, Finish, TypeOK
  <1>10. ASSUME NEW c \in Call, ResetFind(c) PROVE ResetsSound'
    <2>1. /\ req' = req /\ req[c].node \in Node /\ At(c, "find")
          /\ \A d \in Call \ {c} : pc'[d] = pc[d] /\ lease'[d] = lease[d]
      BY <1>10, RequestNode DEF ResetFind, At, Goto, Finish, client, TypeOK
    <2>2. CASE record[req[c].node].version = 0
      <3>1. pc'[c] = "done" /\ lease' = lease /\ lease[c] = NoLease
        BY <1>10, <2>1, <2>2 DEF ResetFind, LeaseKey, At, Finish, TypeOK, ResetsSound
      <3> QED
        BY <1>10, <2>1, <3>1, NoLeaseAssumption, ResetsSoundKept DEF ResetFind, etcd, TypeOK
    <2>3. CASE record[req[c].node].version # 0
      <3>1. pc'[c] = "revoke" /\ lease'[c] = record[req[c].node].lease
        BY <1>10, <2>3 DEF ResetFind, LeaseKey, Goto, TypeOK
      <3>2. lease'[c] \in Lease
        BY <2>1, <2>3, <3>1 DEF ResetsSound
      <3> QED
        BY <1>10, <2>1, <3>1, <3>2, ResetsSoundKept DEF ResetFind, etcd
    <2> QED
      BY <2>2, <2>3
  <1>11. ASSUME NEW l \in Lease, DropLease(l), UNCHANGED <<req, lease>>,
                \A d \in Call : pc'[d] = pc[d] \/ (pc[d] = "revoke" /\ pc'[d] = "done")
         PROVE  ResetsSound'
    BY <1>11 DEF DropLease, ResetsSound
  <1>12. ASSUME NEW c \in Call, ResetRevoke(c) PROVE ResetsSound'
    <2>1. /\ UNCHANGED <<req, lease>> /\ pc[c] = "revoke" /\ pc'[c] = "done"
          /\ \A d \in Call \ {c} : pc'[d] = pc[d]
      BY <1>12 DEF ResetRevoke, At, Finish, RevokeError, client, locals, TypeOK
    <2>2. CASE UNCHANGED etcd
      BY <2>1, <2>2, ResetsSoundKept DEF etcd, ResetsSound
    <2>3. CASE lease[c] \in live /\ DropLease(lease[c])
      BY <1>11, <2>1, <2>3 DEF TypeOK
    <2> QED
      BY <1>12, <2>2, <2>3 DEF ResetRevoke
  <1>13. ASSUME NEW l \in Lease, Expire(l) PROVE ResetsSound'
    BY <1>11, <1>13 DEF Expire, client, locals
  <1>14. CASE UNCHANGED vars
    BY <1>14 DEF vars, ResetsSound
  <1> QED
    BY <1>1, <1>2, <1>3, <1>4, <1>5, <1>6, <1>7, <1>8, <1>9, <1>10, <1>12, <1>13, <1>14
    DEF Next, Handler

-----------------------------------------------------------------------------
(* The mapping *)

PhaseOf(c) ==
    IF At(c, "idle") THEN "idle" ELSE IF Applied(c) THEN "applied" ELSE "pending"

LEMMA ProgressIs ==
  /\ Progress = [c \in Call |-> PhaseOf(c)]
  /\ Progress' = [c \in Call |-> PhaseOf(c)']
  BY DEF Progress, PhaseOf

(* The directory looks at the services of svcIndex only. *)
LEMMA ViewSame ==
  ASSUME svcIndex' = svcIndex
  PROVE  DirectoryView' = DirectoryView
  BY DEF DirectoryView

(* A call that does not move and whose lease does not end stays in its phase. *)
LEMMA PhaseSame ==
  ASSUME NEW d \in Call, pc'[d] = pc[d], req'[d] = req[d], lease'[d] = lease[d],
         reply'[d] = reply[d],
         req[d] \in ResetRequest /\ lease[d] \in Lease =>
             (lease[d] \in live') = (lease[d] \in live)
  PROVE  PhaseOf(d)' = PhaseOf(d)
  BY DEF PhaseOf, At, Applied, ResetOvertaken

(* No phase changes: the directory does not notice. *)
LEMMA Unnoticed ==
  ASSUME svcIndex' = svcIndex, UNCHANGED client, \A d \in Call : PhaseOf(d)' = PhaseOf(d)
  PROVE  UNCHANGED D!vars
  <1>1. Progress' = Progress
    BY ProgressIs
  <1> QED
    BY <1>1, ViewSame DEF D!vars, client

(* One call takes effect. *)
LEMMA TakesEffect ==
  ASSUME NEW c \in Call, PhaseOf(c) = "pending", PhaseOf(c)' = "applied",
         req[c].op # "reset", UNCHANGED client, DirectoryView' = D!Effect(req[c]),
         \A d \in Call \ {c} : PhaseOf(d)' = PhaseOf(d)
  PROVE  D!Next
  <1>1. Progress[c] = "pending" /\ Progress' = [Progress EXCEPT ![c] = "applied"]
    BY ProgressIs
  <1> QED
    BY <1>1 DEF D!Next, D!Execute, client

(* The services of a node vanish, and some resets of it take effect. *)
LEMMA Vanishes ==
  ASSUME NEW n \in Node, NEW R \in SUBSET Call, UNCHANGED client,
         DirectoryView' = [DirectoryView EXCEPT ![n] = D!Nothing],
         \A d \in R : /\ PhaseOf(d) = "pending" /\ PhaseOf(d)' = "applied"
                      /\ req[d] = [op |-> "reset", node |-> n],
         \A d \in Call \ R : PhaseOf(d)' = PhaseOf(d)
  PROVE  D!Next
  <1>1. /\ \A d \in R : Progress[d] = "pending"
        /\ Progress' = [d \in Call |-> IF d \in R THEN "applied" ELSE Progress[d]]
    BY ProgressIs
  <1>2. D!Clear(n, R)
    BY <1>1 DEF D!Clear, D!PendingResets, client
  <1> QED
    BY <1>2 DEF D!Next

(* The services of a node hang on a lease that is recorded and alive. *)
LEMMA ForgottenAlready ==
  ASSUME TypeOK, IInv, NEW n \in Node, record[n].lease \notin live, svcIndex' = svcIndex
  PROVE  DirectoryView' = [DirectoryView EXCEPT ![n] = D!Nothing]
  <1>1. \A k \in Svc : svcIndex[n][k] = NoEntry
    BY DEF IInv, ServicesOnRecordedLease
  <1>2. DirectoryView[n] = D!Nothing
    BY <1>1 DEF DirectoryView, D!Nothing
  <1> QED
    BY <1>2, ViewSame DEF DirectoryView

(* The end of a lease is the end of the services of the node that has it, if one has, *)
(* and the effect of the resets that hold it.                                          *)
LEMMA LeaseEnds ==
  ASSUME TypeOK, IInv, LeasesApart, ResetsSound, NEW l \in Lease, l \in live, DropLease(l),
         UNCHANGED client, UNCHANGED lease,
         \A d \in Call :
             \/ pc'[d] = pc[d] /\ reply'[d] = reply[d]
             \/ /\ pc[d] = "revoke" /\ lease[d] = l
                /\ pc'[d] = "done" /\ reply'[d] \in {"ok", "unknown"}
  PROVE  D!Next \/ UNCHANGED D!vars
  <1> DEFINE R == {d \in Call : /\ req[d] \in ResetRequest /\ pc[d] \in {"revoke", "done"}
                                /\ lease[d] = l /\ PhaseOf(d) = "pending"}
  <1>1. live' = live \ {l} /\ req' = req
    BY DEF DropLease, client
  <1>2. ASSUME NEW d \in R PROVE PhaseOf(d)' = "applied"
    <2>1. /\ req'[d] \in ResetRequest /\ pc'[d] \in {"revoke", "done"}
          /\ lease'[d] \in Lease \ live'
      BY <1>1, <1>2
    <2> QED
      BY <2>1 DEF PhaseOf, At, Applied, ResetOvertaken
  <1>3. ASSUME NEW d \in Call \ R PROVE PhaseOf(d)' = PhaseOf(d)
    <2>1. CASE lease[d] # l \/ req[d] \notin ResetRequest
      <3>1. pc'[d] = pc[d] /\ reply'[d] = reply[d]
        BY <2>1 DEF TypeOK, RequestAt, GetNodeLease
      <3> QED
        BY <1>1, <2>1, <3>1, PhaseSame
    <2>2. CASE lease[d] = l /\ req[d] \in ResetRequest /\ pc[d] \notin {"revoke", "done"}
      BY <1>1, <2>2 DEF PhaseOf, At, Applied, ResetOvertaken
    <2>3. CASE /\ lease[d] = l /\ req[d] \in ResetRequest /\ pc[d] \in {"revoke", "done"}
               /\ PhaseOf(d) # "pending"
      <3>1. pc[d] = "done" /\ reply[d] \in {"ok", "unknown"}
        BY <2>3 DEF PhaseOf, At, Applied, ResetOvertaken
      <3>2. pc'[d] = pc[d] /\ reply'[d] = reply[d]
        BY <3>1
      <3> QED
        BY <3>1, <3>2 DEF PhaseOf, At, Applied
    <2> QED
      BY <2>1, <2>2, <2>3
  <1>4. ASSUME NEW d \in R
        PROVE  /\ req[d].node \in Node /\ record[req[d].node].lease = l
               /\ req[d] = [op |-> "reset", node |-> req[d].node]
    <2>1. record[req[d].node].lease = l
      BY <1>4 DEF ResetsSound
    <2>2. req[d].node \in Node /\ req[d] = [op |-> "reset", node |-> req[d].node]
      BY <1>4 DEF ResetRequest
    <2> QED
      BY <2>1, <2>2
  <1>5. \A n \in Node, k \in Svc :
            svcIndex'[n][k] = IF svcIndex[n][k] # NoEntry /\ record[n].lease = l
                              THEN NoEntry ELSE svcIndex[n][k]
    BY DEF DropLease, Without, IInv, ServicesOnRecordedLease
  <1>6. CASE \E n \in Node : record[n].lease = l
    <2>1. PICK n \in Node : record[n].lease = l
      BY <1>6
    <2>2. \A m \in Node : record[m].lease = l => m = n
      BY <2>1 DEF LeasesApart, Refers
    <2>3. \A k \in Svc : svcIndex'[n][k] = NoEntry
      BY <1>5, <2>1
    <2>4. \A m \in Node \ {n}, k \in Svc : svcIndex'[m][k] = svcIndex[m][k]
      BY <1>5, <2>2
    <2>5. DirectoryView' = [DirectoryView EXCEPT ![n] = D!Nothing]
      <3>1. DirectoryView'[n] = D!Nothing
        BY <2>3 DEF DirectoryView, D!Nothing
      <3>2. \A m \in Node \ {n} : DirectoryView'[m] = DirectoryView[m]
        BY <2>4 DEF DirectoryView
      <3>3. /\ DOMAIN DirectoryView = Node
            /\ DirectoryView' = [m \in Node |-> DirectoryView'[m]]
        BY DEF DirectoryView
      <3> HIDE DEF D!Nothing
      <3> QED
        BY <3>1, <3>2, <3>3
    <2>6. R \in SUBSET Call
      OBVIOUS
    <2>7. \A d \in R : /\ PhaseOf(d) = "pending" /\ PhaseOf(d)' = "applied"
                       /\ req[d] = [op |-> "reset", node |-> n]
      BY <1>2, <1>4, <2>2
    <2> HIDE DEF R
    <2> QED
      BY <1>3, <2>5, <2>6, <2>7, Vanishes
  <1>7. CASE \A n \in Node : record[n].lease # l
    <2>1. svcIndex' = svcIndex
      <3>1. \A n \in Node, k \in Svc : svcIndex'[n][k] = svcIndex[n][k]
        BY <1>5, <1>7
      <3> QED
        BY <3>1 DEF DropLease, Without, TypeOK, Index
    <2>2. R = {}
      BY <1>4, <1>7
    <2> QED
      BY <1>3, <2>1, <2>2, Unnoticed
  <1> QED
    BY <1>6, <1>7

(* Every step of the handlers is one of the directory, or none. *)
LEMMA StepMaps ==
  ASSUME ~RenewMayFail, TypeOK, IInv, LeasesApart, ResetsSound, [Next]_vars
  PROVE  D!Next \/ UNCHANGED D!vars
  <1>1. ASSUME NEW c \in Call, NEW r \in Request, Invoke(c, r)
        PROVE  D!Next
    <2>1. pc[c] = "idle" /\ pc'[c] \in {"range", "delete", "find"} /\ req'[c] = r
      BY <1>1, RequestTypes DEF Invoke, At, Goto, TypeOK
    <2>2. PhaseOf(c) = "idle" /\ PhaseOf(c)' = "pending"
      BY <2>1 DEF PhaseOf, At, Applied, ResetOvertaken
    <2>3. \A d \in Call \ {c} : PhaseOf(d)' = PhaseOf(d)
      BY <1>1, PhaseSame DEF Invoke, Goto, etcd, TypeOK
    <2>4. Progress[c] = "idle" /\ Progress' = [Progress EXCEPT ![c] = "pending"]
      BY <2>2, <2>3, ProgressIs
    <2>5. D!Invoke(c, r)
      BY <1>1, <2>4, ViewSame DEF Invoke, etcd, D!Invoke
    <2>6. D!Request = Request
      BY DEF D!Request, D!HeartbeatRequest, D!ResetRequest, D!RegisterServiceRequest,
             D!DeregisterServiceRequest, Request, HeartbeatRequest, ResetRequest,
             RegisterServiceRequest, DeregisterServiceRequest
    <2> QED
      BY <2>5, <2>6 DEF D!Next
  <1>2. ASSUME NEW c \in Call, Return(c)
        PROVE  D!Next
    <2>1. pc[c] # "idle" /\ pc'[c] = "idle"
      BY <1>2 DEF Return, At, TypeOK
    <2>2. PhaseOf(c) \in {"pending", "applied"} /\ PhaseOf(c)' = "idle"
      BY <2>1 DEF PhaseOf, At
    <2>3. \A d \in Call \ {c} : PhaseOf(d)' = PhaseOf(d)
      BY <1>2, PhaseSame DEF Return, etcd, TypeOK
    <2>4. Progress[c] = PhaseOf(c) /\ Progress' = [Progress EXCEPT ![c] = "idle"]
      BY <2>2, <2>3, ProgressIs
    <2>5. PICK a \in {"ok", "error"} :
              /\ answer' = [answer EXCEPT ![c] = a]
              /\ a = "ok" => At(c, "done") /\ reply[c] = "ok"
      BY <1>2 DEF Return
    <2>6. a = "ok" => PhaseOf(c) = "applied"
      BY <2>5 DEF PhaseOf, At, Applied
    <2>7. D!Return(c, a)
      BY <1>2, <2>2, <2>4, <2>5, <2>6, ViewSame DEF Return, etcd, D!Return
    <2> QED
      BY <2>7 DEF D!Next, D!Answer
  \* The steps of GetNodeLease and of those who call it: a heartbeat that ends is done.
  <1>3. ASSUME NEW c \in Call, UNCHANGED client, svcIndex' = svcIndex,
               \A d \in Call \ {c} :
                   /\ pc'[d] = pc[d] /\ lease'[d] = lease[d] /\ reply'[d] = reply[d]
                   /\ lease[d] \in Lease => (lease[d] \in live') = (lease[d] \in live),
               req[c] \notin ResetRequest, pc[c] \notin {"idle", "done"}, pc'[c] # "idle",
               pc'[c] = "done" => \/ reply'[c] = "error"
                                  \/ reply'[c] = "ok" /\ req[c].op = "heartbeat"
        PROVE  D!Next \/ UNCHANGED D!vars
    <2>1. PhaseOf(c) = "pending" /\ req' = req
      BY <1>3 DEF PhaseOf, At, Applied, ResetOvertaken, client
    <2>2. \A d \in Call \ {c} : PhaseOf(d)' = PhaseOf(d)
      BY <1>3, <2>1, PhaseSame
    <2>3. CASE pc'[c] = "done" /\ reply'[c] = "ok"
      <3>1. PhaseOf(c)' = "applied" /\ req[c].op = "heartbeat"
        BY <1>3, <2>3 DEF PhaseOf, At, Applied
      <3>2. D!Effect(req[c]) = DirectoryView
        BY <3>1 DEF D!Effect
      <3> QED
        BY <1>3, <2>1, <2>2, <3>1, <3>2, ViewSame, TakesEffect
    <2>4. CASE ~(pc'[c] = "done" /\ reply'[c] = "ok")
      <3>1. PhaseOf(c)' = "pending"
        BY <1>3, <2>1, <2>4 DEF PhaseOf, At, Applied, ResetOvertaken
      <3> QED
        BY <1>3, <2>1, <2>2, <3>1, Unnoticed
    <2> QED
      BY <2>3, <2>4
  <1>4. ASSUME NEW c \in Call, EtcdError(c)
        PROVE  D!Next \/ UNCHANGED D!vars
    <2>1. /\ UNCHANGED <<svcIndex, live, lease, req>> /\ UNCHANGED client
          /\ pc'[c] = "done" /\ reply'[c] = IF req[c].op = "heartbeat" THEN "ok" ELSE "error"
          /\ \A d \in Call \ {c} : pc'[d] = pc[d] /\ reply'[d] = reply[d]
      BY <1>4 DEF EtcdError, Fail, Finish, etcd, client, locals, TypeOK
    <2>2. CASE pc[c] # "find"
      <3>1. pc[c] \notin {"idle", "done"} /\ req[c] \notin ResetRequest
        BY <1>4, <2>2, NotReset DEF EtcdError
      <3> QED
        BY <1>3, <2>1, <3>1
    <2>3. CASE pc[c] = "find"
      <3>1. req[c].op # "heartbeat" /\ lease[c] \notin Lease
        BY <2>3, NoLeaseAssumption
        DEF TypeOK, RequestAt, GetNodeLease, ResetRequest, ResetsSound
      <3>2. PhaseOf(c)' = PhaseOf(c)
        BY <2>1, <2>3, <3>1 DEF PhaseOf, At, Applied, ResetOvertaken
      <3> QED
        BY <2>1, <3>2, PhaseSame, Unnoticed
    <2> QED
      BY <2>2, <2>3
  <1>5. ASSUME NEW c \in Call, RangeNodeLease(c)
        PROVE  D!Next \/ UNCHANGED D!vars
    <2>1. /\ UNCHANGED <<svcIndex, live, reply>> /\ UNCHANGED client
          /\ pc[c] = "range" /\ pc'[c] \in {"grant", "renew"}
          /\ \A d \in Call \ {c} : pc'[d] = pc[d] /\ lease'[d] = lease[d]
      BY <1>5 DEF RangeNodeLease, At, Goto, etcd, TypeOK
    <2>2. req[c] \notin ResetRequest
      BY <2>1, NotReset
    <2> QED
      BY <1>3, <2>1, <2>2
  \* Leased ends a heartbeat and sends a registration on.
  <1>6. ASSUME NEW c \in Call, pc[c] \in {"renew", "cas"}, Leased(c) \/ Fail(c)
        PROVE  /\ pc'[c] # "idle"
               /\ pc'[c] = "done" => \/ reply'[c] = "error"
                                     \/ reply'[c] = "ok" /\ req[c].op = "heartbeat"
               /\ \A d \in Call \ {c} : pc'[d] = pc[d] /\ reply'[d] = reply[d]
    <2>1. req[c].op \in {"heartbeat", "register"}
      BY <1>6 DEF TypeOK, RequestAt, GetNodeLease, HeartbeatRequest, RegisterServiceRequest
    <2> QED
      BY <1>6, <2>1 DEF Leased, Fail, Goto, Finish, TypeOK
  <1>7. ASSUME NEW c \in Call, LeaseRenew(c)
        PROVE  D!Next \/ UNCHANGED D!vars
    <2>1. /\ UNCHANGED <<svcIndex, live, lease>> /\ UNCHANGED client
          /\ pc[c] = "renew" /\ req[c] \notin ResetRequest
      BY <1>7, NotReset DEF LeaseRenew, At, etcd, locals
    <2>2. CASE Leased(c)
      BY <1>3, <1>6, <2>1, <2>2
    <2>3. CASE Goto(c, "grant")
      <3>1. /\ pc'[c] = "grant"
            /\ \A d \in Call \ {c} : pc'[d] = pc[d] /\ reply'[d] = reply[d]
        BY <2>3 DEF Goto, TypeOK
      <3> QED
        BY <1>3, <2>1, <3>1
    <2> QED
      BY <1>7, <2>2, <2>3 DEF LeaseRenew
  <1>8. ASSUME NEW c \in Call, LeaseGrant(c)
        PROVE  D!Next \/ UNCHANGED D!vars
    <2>1. PICK l \in Lease \ granted : /\ live' = live \cup {l}
                                       /\ lease' = [lease EXCEPT ![c] = l]
      BY <1>8 DEF LeaseGrant
    <2>2. \A d \in Call : lease[d] # l
      BY <2>1, NoLeaseAssumption DEF IInv, LeasesGranted
    <2>3. /\ UNCHANGED <<svcIndex, reply>> /\ UNCHANGED client
          /\ pc[c] = "grant" /\ pc'[c] = "cas" /\ req[c] \notin ResetRequest
          /\ \A d \in Call \ {c} : pc'[d] = pc[d] /\ lease'[d] = lease[d]
      BY <1>8, <2>1, NotReset DEF LeaseGrant, At, Goto, TypeOK
    <2>4. \A d \in Call : (lease[d] \in live') = (lease[d] \in live)
      BY <2>1, <2>2
    <2> QED
      BY <1>3, <2>3, <2>4
  <1>9. ASSUME NEW c \in Call, RecordLease(c)
        PROVE  D!Next \/ UNCHANGED D!vars
    <2>1. /\ UNCHANGED <<svcIndex, live, lease>> /\ UNCHANGED client
          /\ pc[c] = "cas" /\ req[c] \notin ResetRequest /\ (Leased(c) \/ Fail(c))
      BY <1>9, NotReset DEF RecordLease, At, locals
    <2> QED
      BY <1>3, <1>6, <2>1
  <1>10. ASSUME NEW c \in Call, LoseRace(c)
        PROVE  D!Next \/ UNCHANGED D!vars
    <2>1. /\ UNCHANGED <<svcIndex, live, lease>> /\ UNCHANGED client
          /\ pc[c] = "cas" /\ req[c] \notin ResetRequest /\ (Fail(c) \/ Goto(c, "range"))
      BY <1>10, NotReset DEF LoseRace, At, etcd
    <2>2. CASE Fail(c)
      BY <1>3, <1>6, <2>1, <2>2
    <2>3. CASE Goto(c, "range")
      <3>1. /\ pc'[c] = "range"
            /\ \A d \in Call \ {c} : pc'[d] = pc[d] /\ reply'[d] = reply[d]
        BY <2>3 DEF Goto, TypeOK
      <3> QED
        BY <1>3, <2>1, <3>1
    <2> QED
      BY <2>1, <2>2, <2>3
  \* A request that ends with an effect.
  <1>11. ASSUME NEW c \in Call, pc[c] \in {"put", "delete"},
                UNCHANGED <<live, lease>>, UNCHANGED client,
                Finish(c, "ok") \/ Finish(c, "unknown")
         PROVE  /\ req[c].op # "reset" /\ PhaseOf(c) = "pending" /\ PhaseOf(c)' = "applied"
                /\ \A d \in Call \ {c} : PhaseOf(d)' = PhaseOf(d)
    <2>1. req[c] \notin ResetRequest /\ req[c].op # "reset"
      BY <1>11, NotReset
    <2>2. /\ pc'[c] = "done" /\ reply'[c] \in {"ok", "unknown"} /\ req' = req
          /\ \A d \in Call \ {c} : pc'[d] = pc[d] /\ reply'[d] = reply[d]
      BY <1>11 DEF Finish, client, TypeOK
    <2>3. PhaseOf(c) = "pending" /\ PhaseOf(c)' = "applied"
      BY <1>11, <2>1, <2>2 DEF PhaseOf, At, Applied, ResetOvertaken
    <2> QED
      BY <1>11, <2>1, <2>2, <2>3, PhaseSame
  <1>12. ASSUME NEW c \in Call, RegisterPut(c)
         PROVE  D!Next
    <2>1. /\ req[c] \in RegisterServiceRequest /\ pc[c] = "put" /\ lease[c] \in Lease
          /\ UNCHANGED <<live, lease>> /\ UNCHANGED client
          /\ Finish(c, "ok") \/ Finish(c, "unknown")
      BY <1>12 DEF RegisterPut, At, locals, TypeOK, RequestAt, GetNodeLease
    <2>2. /\ req[c].op = "register" /\ req[c].node \in Node /\ req[c].svc \in Svc
          /\ NewEntry(c) # NoEntry /\ NewEntry(c).spec = req[c].spec
      BY <2>1, NoEntryAssumption DEF RegisterServiceRequest, NewEntry, Entry
    <2>3. svcIndex' = [svcIndex EXCEPT ![req[c].node][req[c].svc] = NewEntry(c)]
      BY <1>12 DEF RegisterPut
    <2>4. DirectoryView' = [DirectoryView EXCEPT ![req[c].node][req[c].svc] = req[c].spec]
      BY <2>2, <2>3 DEF DirectoryView, TypeOK, Index
    <2>5. DirectoryView' = D!Effect(req[c])
      BY <2>2, <2>4 DEF D!Effect
    <2> QED
      BY <1>11, <2>1, <2>5, TakesEffect
  <1>13. ASSUME NEW c \in Call, DeregisterDelete(c)
         PROVE  D!Next
    <2>1. /\ req[c] \in DeregisterServiceRequest /\ pc[c] = "delete"
          /\ UNCHANGED <<live, lease>> /\ UNCHANGED client
          /\ Finish(c, "ok") \/ Finish(c, "unknown")
      BY <1>13 DEF DeregisterDelete, At, locals, TypeOK, RequestAt, GetNodeLease
    <2>2. req[c].op = "deregister" /\ req[c].node \in Node /\ req[c].svc \in Svc
      BY <2>1 DEF DeregisterServiceRequest
    <2>3. svcIndex' = [svcIndex EXCEPT ![req[c].node][req[c].svc] = NoEntry]
      BY <1>13 DEF DeregisterDelete
    <2>4. DirectoryView' = [DirectoryView EXCEPT ![req[c].node][req[c].svc] = Absent]
      BY <2>2, <2>3 DEF DirectoryView, TypeOK, Index
    <2>5. DirectoryView' = D!Effect(req[c])
      BY <2>2, <2>4 DEF D!Effect
    <2> QED
      BY <1>11, <2>1, <2>5, TakesEffect
  <1>14. ASSUME NEW c \in Call, ResetFind(c)
         PROVE  D!Next \/ UNCHANGED D!vars
    <2> DEFINE n == req[c].node
    <2>1. /\ UNCHANGED <<svcIndex, live, record, req>> /\ UNCHANGED client
          /\ pc[c] = "find" /\ n \in Node /\ req[c] = [op |-> "reset", node |-> n]
          /\ req[c] \in ResetRequest /\ lease[c] \notin Lease
      BY <1>14, NoLeaseAssumption
      DEF ResetFind, At, etcd, client, TypeOK, RequestAt, GetNodeLease, ResetRequest,
          ResetsSound
    <2>2. \A d \in Call \ {c} : /\ pc'[d] = pc[d] /\ reply'[d] = reply[d]
                                /\ lease'[d] = lease[d]
      BY <1>14 DEF ResetFind, Goto, Finish, TypeOK
    <2>3. PhaseOf(c) = "pending" /\ \A d \in Call \ {c} : PhaseOf(d)' = PhaseOf(d)
      BY <2>1, <2>2, PhaseSame DEF PhaseOf, At, Applied, ResetOvertaken
    <2>4. ASSUME record[n].lease \notin live, PhaseOf(c)' = "applied" PROVE D!Next
      <3>1. DirectoryView' = [DirectoryView EXCEPT ![n] = D!Nothing]
        BY <2>1, <2>4, ForgottenAlready
      <3>2. {c} \in SUBSET Call /\ \A d \in {c} : d = c
        OBVIOUS
      <3> HIDE DEF n
      <3> QED
        BY <2>1, <2>3, <2>4, <3>1, <3>2, Vanishes
    <2>5. CASE record[n].version = 0
      <3>1. record[n].lease \notin live
        BY <2>1, <2>5, NoLeaseAssumption DEF IInv, LeasesGranted, TypeOK
      <3>2. pc'[c] = "done" /\ reply'[c] = "ok"
        BY <1>14, <2>5 DEF ResetFind, LeaseKey, Finish, TypeOK
      <3>3. PhaseOf(c)' = "applied"
        BY <3>2 DEF PhaseOf, At, Applied
      <3> QED
        BY <2>4, <3>1, <3>3
    <2>6. CASE record[n].version # 0
      <3>1. pc'[c] = "revoke" /\ lease'[c] = record[n].lease
        BY <1>14, <2>6 DEF ResetFind, LeaseKey, Goto, TypeOK
      <3>2. CASE record[n].lease \in live
        <4>1. PhaseOf(c)' = "pending"
          BY <2>1, <3>1, <3>2 DEF PhaseOf, At, Applied, ResetOvertaken
        <4> QED
          BY <2>1, <2>3, <4>1, Unnoticed
      <3>3. CASE record[n].lease \notin live
        <4>1. record[n].lease \in Lease
          BY <2>1, <2>6 DEF ResetsSound
        <4>2. PhaseOf(c)' = "applied"
          BY <2>1, <3>1, <3>3, <4>1 DEF PhaseOf, At, Applied, ResetOvertaken
        <4> QED
          BY <2>4, <3>3, <4>2
      <3> QED
        BY <3>2, <3>3
    <2> QED
      BY <2>5, <2>6
  <1>15. ASSUME NEW c \in Call, ResetRevoke(c)
         PROVE  D!Next \/ UNCHANGED D!vars
    <2>1. /\ pc[c] = "revoke" /\ pc'[c] = "done" /\ UNCHANGED client /\ lease' = lease
          /\ \A d \in Call \ {c} : pc'[d] = pc[d] /\ reply'[d] = reply[d]
          /\ lease[c] \in Lease /\ req' = req /\ req[c] \in ResetRequest
      BY <1>15
      DEF ResetRevoke, At, Finish, RevokeError, client, locals, TypeOK, RequestAt,
          GetNodeLease, ResetsSound
    <2>2. CASE /\ lease[c] \in live /\ DropLease(lease[c])
               /\ Finish(c, "ok") \/ Finish(c, "unknown")
      <3>1. reply'[c] \in {"ok", "unknown"}
        BY <2>2 DEF Finish, TypeOK
      <3> QED
        BY <2>1, <2>2, <3>1, LeaseEnds
    <2>3. CASE /\ UNCHANGED etcd
               /\ \/ lease[c] \notin live /\ Finish(c, "ok")
                  \/ RevokeError(c)
      <3>1. /\ UNCHANGED <<svcIndex, live>>
            /\ lease[c] \notin live \/ reply'[c] = "error"
        BY <2>3 DEF etcd, RevokeError, Finish, TypeOK
      <3>2. PhaseOf(c)' = PhaseOf(c)
        BY <2>1, <3>1 DEF PhaseOf, At, Applied, ResetOvertaken
      <3> QED
        BY <2>1, <3>1, <3>2, PhaseSame, Unnoticed
    <2> QED
      BY <1>15, <2>2, <2>3 DEF ResetRevoke
  <1>16. ASSUME NEW l \in Lease, Expire(l)
         PROVE  D!Next \/ UNCHANGED D!vars
    BY <1>16, LeaseEnds DEF Expire, locals
  <1>17. CASE UNCHANGED vars
    BY <1>17, PhaseSame, Unnoticed DEF vars, client
  <1> QED
    BY <1>1, <1>2, <1>4, <1>5, <1>7, <1>8, <1>9, <1>10, <1>12, <1>13, <1>14, <1>15, <1>16,
       <1>17
    DEF Next, Handler

(* Seen by their clients the handlers are one directory on which every call acts at   *)
(* once, between its invocation and its answer, and from which services vanish        *)
(* unasked only with all of their node's: whatever interleaves, fails or expires.     *)
THEOREM HandlersImplementDirectory ==
  ASSUME ~RenewMayFail
  PROVE  Spec => ImplementsDirectory
  <1>1. Init => D!Init
    BY NoRequestAssumption
    DEF Init, D!Init, D!Nothing, DirectoryView, Progress, At
  <1>2. TypeOK /\ IInv /\ LeasesApart /\ ResetsSound /\ [Next]_vars => [D!Next]_(D!vars)
    BY StepMaps
  <1>3. TypeOK /\ IInv /\ ResetsSound /\ [Next]_vars => ResetsSound'
    BY StepResetsSound
  <1> QED
    BY <1>1, <1>2, <1>3, InitResetsSound, InductiveInvariant, LeasesStayApart, TypeCorrect,
       PTL
    DEF Spec, ImplementsDirectory, D!Spec
=============================================================================
