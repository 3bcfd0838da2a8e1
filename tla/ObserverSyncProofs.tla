-------------------------- MODULE ObserverSyncProofs --------------------------
(***************************************************************************)
(* Proofs about ObserverSync, for any services and ports, histories of any *)
(* length and any number of crashes.                                       *)
(***************************************************************************)
EXTENDS ObserverSync, WellFoundedInduction, TLAPS

Before == {p \in Nat \X Nat : p[1] < p[2]}

LEMMA BeforeWellFounded == IsWellFoundedOn(Before, Nat)
  BY NatLessThanWellFounded DEF OpToRel, Before

(* A set of numbers with an upper bound has a greatest element. *)
LEMMA Greatest ==
  ASSUME NEW n \in Nat, NEW S, S \subseteq 0 .. n, S # {}
  PROVE  \E j \in S : \A h \in S : h <= j
  <1> DEFINE T == {i \in Nat : n - i \in S}
  <1>1. T # {} /\ T \subseteq Nat
    <2>1. PICK j \in 0 .. n : j \in S
      OBVIOUS
    <2>2. n - j \in Nat /\ n - (n - j) = j
      BY <2>1
    <2> QED
      BY <2>1, <2>2
  <1> HIDE DEF T
  <1>2. PICK m \in T : \A i \in T : <<i, m>> \notin Before
    BY <1>1, BeforeWellFounded, WFMin, Zenon
  <1> USE DEF T
  <1>3. \A i \in T : m <= i
    <2>1. \A i, k \in Nat : i < k => <<i, k>> \in Before
      BY DEF Before
    <2>2. \A i \in T : ~(i < m)
      BY <1>2, <2>1
    <2> QED
      BY <2>2
  <1>4. \A h \in S : h \in 0 .. n /\ n - h \in T
    <2> TAKE h \in S
    <2>1. h \in 0 .. n
      OBVIOUS
    <2>2. n - h \in Nat /\ n - (n - h) = h
      BY <2>1
    <2> QED
      BY <2>1, <2>2
  <1>5. \A h \in S : h <= n - m
    BY <1>3, <1>4
  <1> QED
    BY <1>2, <1>5
-----------------------------------------------------------------------------
(* The last change *)

LastOf(S) == IF S = {} THEN 0 ELSE CHOOSE j \in S : \A h \in S : h <= j

(* What LastChange returns. *)
LEMMA LastChangeIs ==
  ASSUME NEW s \in Svc, NEW i \in Nat
  PROVE  /\ LastChange(s, i) \in 0 .. i
         /\ LastChange(s, i) # 0 => history[LastChange(s, i)].svc = s
         /\ \A h \in 1 .. i : history[h].svc = s => h <= LastChange(s, i)
  <1> DEFINE about == {j \in 1 .. i : history[j].svc = s}
  <1>1. CASE about = {}
    BY <1>1 DEF LastChange
  <1>2. CASE about # {}
    <2>1. about \subseteq 0 .. i
      OBVIOUS
    <2> HIDE DEF about
    <2>2. \E j \in about : \A h \in about : h <= j
      BY <1>2, <2>1, Greatest
    <2> DEFINE j == CHOOSE j \in about : \A h \in about : h <= j
    <2>3. j \in about /\ \A h \in about : h <= j
      BY <2>2
    <2> USE DEF about
    <2>4. LastChange(s, i) = j
      BY <1>2 DEF LastChange
    <2> HIDE DEF j
    <2>5. j \in 1 .. i /\ history[j].svc = s
      BY <2>3
    <2>6. \A h \in 1 .. i : history[h].svc = s => h <= j
      BY <2>3
    <2> QED
      BY <2>4, <2>5, <2>6
  <1> QED
    BY <1>1, <1>2

(* Nothing else has these properties. *)
LEMMA LastChangeUnique ==
  ASSUME NEW s \in Svc, NEW i \in Nat, NEW d \in 0 .. i,
         d # 0 => history[d].svc = s,
         \A h \in 1 .. i : history[h].svc = s => h <= d
  PROVE  LastChange(s, i) = d
  <1>1. LastChange(s, i) \in 0 .. i
    BY LastChangeIs
  <1>2. LastChange(s, i) <= d
    BY <1>1, LastChangeIs
  <1>3. d <= LastChange(s, i)
    BY <1>1, LastChangeIs
  <1> QED
    BY <1>1, <1>2, <1>3

(* One more change. *)
LEMMA LastChangeNext ==
  ASSUME NEW s \in Svc, NEW i \in Nat
  PROVE  LastChange(s, i + 1) = IF history[i + 1].svc = s THEN i + 1 ELSE LastChange(s, i)
  <1>1. CASE history[i + 1].svc = s
    BY <1>1, LastChangeUnique
  <1>2. CASE history[i + 1].svc # s
    <2>1. /\ LastChange(s, i) \in 0 .. i + 1
          /\ \A h \in 1 .. i + 1 : history[h].svc = s => h \in 1 .. i
      BY <1>2, LastChangeIs
    <2> QED
      BY <1>2, <2>1, LastChangeIs, LastChangeUnique
  <1> QED
    BY <1>1, <1>2

(* What was so far is not changed by what is appended. *)
LEMMA PastStays ==
  ASSUME NEW s \in Svc, NEW i \in Nat, \A h \in 1 .. i : history'[h] = history[h]
  PROVE  LastChange(s, i)' = LastChange(s, i)
  <1>1. {j \in 1 .. i : history'[j].svc = s} = {j \in 1 .. i : history[j].svc = s}
    OBVIOUS
  <1>2. LastChange(s, i)' = LastOf({j \in 1 .. i : history'[j].svc = s})
    BY DEF LastChange, LastOf
  <1>3. LastChange(s, i) = LastOf({j \in 1 .. i : history[j].svc = s})
    BY DEF LastChange, LastOf
  <1> QED
    BY <1>1, <1>2, <1>3

LEMMA PositionTypes ==
  ASSUME TypeOK, Positions
  PROVE  /\ next - 1 \in Nat /\ next \in Nat /\ fetched \in Nat
         /\ missed \in Nat /\ early \in Nat
  BY BoundsAssumption DEF TypeOK, Positions
-----------------------------------------------------------------------------
(* The inductive invariant *)

LEMMA InitIInv == Init => IInv
  <1> SUFFICES ASSUME Init PROVE IInv
    OBVIOUS
  <1>1. TypeOK
    <2>1. history \in Seq(Change) /\ Len(history) = 0
      BY DEF Init
    <2>2. MaxChanges \in Nat /\ MaxCrashes \in Nat
      BY BoundsAssumption
    <2>3. targets \in [Svc -> Port \cup {Absent}]
      BY DEF Init, NoTargets
    <2> QED
      BY <2>1, <2>2, <2>3 DEF Init, TypeOK
  <1>2. Positions
    BY DEF Init, Positions
  <1>3. ASSUME NEW s \in Svc
        PROVE  FromListOrEvent(s)
    <2>1. LastChange(s, 0) = 0
      BY LastChangeIs
    <2> QED
      BY <2>1 DEF Init, FromListOrEvent, NoTargets
  <1> QED
    BY <1>1, <1>2, <1>3 DEF IInv

(* A step that leaves alone what the targets depend on keeps them right. *)
LEMMA FromSame ==
  ASSUME NEW s \in Svc, FromListOrEvent(s), UNCHANGED <<history, next, fetched, targets,
         missed, early>>, (fetch = "applied") = (fetch' = "applied")
  PROVE  FromListOrEvent(s)'
  BY DEF FromListOrEvent, LastChange, Listed, ServicesAt

LEMMA ChangeServiceKeeps ==
  ASSUME IInv, NEW s \in Svc, NEW v \in Value, ChangeService(s, v)
  PROVE  IInv'
  <1>1. /\ history' \in Seq(Change) /\ Len(history') = Len(history) + 1
        /\ \A h \in 1 .. Len(history) : history'[h] = history[h]
    <2>1. [svc |-> s, value |-> v] \in Change
      BY DEF Change
    <2> QED
      BY <2>1 DEF IInv, TypeOK, ChangeService
  <1>2. TypeOK'
    BY <1>1, BoundsAssumption DEF IInv, TypeOK, ChangeService, observer
  <1>3. Positions'
    BY <1>1 DEF IInv, TypeOK, Positions, ChangeService, observer
  <1>4. ASSUME NEW t \in Svc
        PROVE  FromListOrEvent(t)'
    <2>1. UNCHANGED observer
      BY DEF ChangeService
    <2>2. /\ next - 1 \in Nat /\ fetched \in Nat /\ missed \in Nat
          /\ next - 1 <= Len(history) /\ fetched <= Len(history)
      BY PositionTypes DEF IInv, Positions
    <2>3. \A i \in Nat : i <= Len(history) => LastChange(t, i)' = LastChange(t, i)
      BY <1>1, PastStays
    <2>4. LastChange(t, next - 1)' = LastChange(t, next - 1)
      BY <2>1, <2>2, <2>3 DEF observer
    <2>5. LastChange(t, fetched)' = LastChange(t, fetched)
      BY <2>1, <2>2, <2>3 DEF observer
    <2>6. /\ LastChange(t, next - 1) \in 0 .. next - 1
          /\ LastChange(t, fetched) \in 0 .. fetched
      BY <2>2, LastChangeIs
    <2>7. LastChange(t, fetched) # 0 =>
              history'[LastChange(t, fetched)] = history[LastChange(t, fetched)]
      <3>1. Len(history) \in Nat
        BY DEF IInv, TypeOK
      <3>2. LastChange(t, fetched) # 0 => LastChange(t, fetched) \in 1 .. Len(history)
        BY <2>2, <2>6, <3>1
      <3> QED
        BY <1>1, <3>2
    <2>8. ServicesAt(fetched)'[t] = ServicesAt(fetched)[t]
      BY <2>5, <2>7 DEF ServicesAt
    <2>9. LastChange(t, next - 1) > missed =>
              history'[LastChange(t, next - 1)] = history[LastChange(t, next - 1)]
      BY <1>1, <2>2, <2>6 DEF IInv, TypeOK
    <2> QED
      BY <2>1, <2>4, <2>8, <2>9 DEF IInv, FromListOrEvent, Listed, observer
  <1> QED
    BY <1>2, <1>3, <1>4 DEF IInv

LEMMA SendWatchKeeps ==
  ASSUME IInv, SendWatch
  PROVE  IInv'
  <1>1. TypeOK' /\ Positions'
    BY DEF IInv, TypeOK, Positions, SendWatch
  <1>2. ASSUME NEW s \in Svc
        PROVE  FromListOrEvent(s)'
    BY FromSame DEF IInv, SendWatch
  <1> QED
    BY <1>1, <1>2 DEF IInv

LEMMA SendFetchKeeps ==
  ASSUME IInv, SendFetch
  PROVE  IInv'
  <1>1. TypeOK' /\ Positions'
    BY DEF IInv, TypeOK, Positions, SendFetch
  <1>2. ASSUME NEW s \in Svc
        PROVE  FromListOrEvent(s)'
    BY FromSame DEF IInv, SendFetch
  <1> QED
    BY <1>1, <1>2 DEF IInv

LEMMA OpenWatchKeeps ==
  ASSUME IInv, NEW i \in 0 .. Len(history), OpenWatch(i)
  PROVE  IInv'
  <1>0. Len(history) \in Nat /\ Len(history) <= MaxChanges /\ i \in Nat
    BY DEF IInv, TypeOK
  <1>1. TypeOK'
    BY <1>0, BoundsAssumption DEF IInv, TypeOK, OpenWatch
  <1>2. Positions'
    BY <1>0, PositionTypes DEF IInv, Positions, OpenWatch
  <1>3. ASSUME NEW s \in Svc
        PROVE  FromListOrEvent(s)'
    <2>1. next = 1 /\ missed = 0 /\ next' - 1 = i
      BY <1>0 DEF IInv, Positions, OpenWatch
    <2>2. LastChange(s, next - 1) = 0 /\ LastChange(s, i) \in 0 .. i
      BY <1>0, <2>1, LastChangeIs
    <2>3. LastChange(s, next - 1)' = LastChange(s, i)
      BY <2>1 DEF OpenWatch, LastChange
    <2>4. (Listed(s) <=> Listed(s)') /\ ServicesAt(fetched)' = ServicesAt(fetched)
      BY DEF OpenWatch, Listed, ServicesAt, LastChange
    <2>5. LastChange(s, i) <= missed' /\ 0 <= missed
      BY <2>1, <2>2 DEF OpenWatch
    <2>6. FromListOrEvent(s)
      BY DEF IInv
    <2> QED
      BY <1>0, <2>1, <2>2, <2>3, <2>4, <2>5, <2>6 DEF OpenWatch, FromListOrEvent
  <1> QED
    BY <1>1, <1>2, <1>3 DEF IInv

LEMMA AnswerFetchKeeps ==
  ASSUME IInv, AnswerFetch
  PROVE  IInv'
  <1>1. TypeOK' /\ Positions'
    BY BoundsAssumption DEF IInv, TypeOK, Positions, AnswerFetch
  <1>2. ASSUME NEW s \in Svc
        PROVE  FromListOrEvent(s)'
    <2>1. LastChange(s, next - 1)' = LastChange(s, next - 1)
      BY DEF AnswerFetch, LastChange
    <2>2. FromListOrEvent(s) /\ fetch # "applied" /\ fetch' # "applied"
      BY DEF IInv, AnswerFetch
    <2> QED
      BY <2>1, <2>2 DEF AnswerFetch, FromListOrEvent
  <1> QED
    BY <1>1, <1>2 DEF IInv

LEMMA ReceiveEventKeeps ==
  ASSUME IInv, ReceiveEvent
  PROVE  IInv'
  <1>1. /\ next \in 1 .. Len(history) /\ next \in Nat /\ next - 1 \in Nat
        /\ history[next] \in Change /\ Len(history) \in Nat /\ Len(history) <= MaxChanges
    BY PositionTypes DEF IInv, TypeOK, ReceiveEvent, EventWaiting
  <1>2. targets' \in [Svc -> Port \cup {Absent}]
    BY <1>1 DEF IInv, TypeOK, ReceiveEvent, Change, Event, UpdateService, DeleteService
  <1>3. TypeOK'
    BY <1>1, <1>2, BoundsAssumption DEF IInv, TypeOK, ReceiveEvent
  <1>4. Positions'
    BY <1>1, PositionTypes DEF IInv, Positions, ReceiveEvent, EventWaiting
  <1>5. ASSUME NEW s \in Svc
        PROVE  FromListOrEvent(s)'
    <2>1. (Listed(s) <=> Listed(s)') /\ ServicesAt(fetched)' = ServicesAt(fetched)
      BY DEF ReceiveEvent, Listed, ServicesAt, LastChange
    <2>2. LastChange(s, next - 1)' = LastChange(s, next)
      <3>1. next' - 1 = next
        BY <1>1 DEF ReceiveEvent
      <3>2. LastChange(s, next - 1)' =
                LastOf({j \in 1 .. next' - 1 : history'[j].svc = s})
        BY DEF LastChange, LastOf
      <3>3. LastChange(s, next) = LastOf({j \in 1 .. next : history[j].svc = s})
        BY DEF LastChange, LastOf
      <3>4. history' = history
        BY DEF ReceiveEvent
      <3> QED
        BY <3>1, <3>2, <3>3, <3>4
    <2>3. LastChange(s, next) =
              IF history[next].svc = s THEN next ELSE LastChange(s, next - 1)
      <3>1. (next - 1) + 1 = next
        BY <1>1
      <3> QED
        BY <1>1, <3>1, LastChangeNext
    <2>4. /\ missed < next /\ early < next /\ missed \in Nat /\ early \in Nat
          /\ missed' = missed /\ fetch' = fetch
          /\ fetch = "applied" => early' = early
      BY <1>1, PositionTypes DEF IInv, Positions, ReceiveEvent
    <2>5. CASE history[next].svc = s
      <3>1. history[next].value # NoMetrics => targets'[s] = Target(history[next].value)
        <4> SUFFICES ASSUME history[next].value # NoMetrics
                     PROVE  targets'[s] = Target(history[next].value)
          OBVIOUS
        <4>1. history[next].value \in Port \cup {Absent} /\ Absent \notin Port
          BY <1>1, DistinctValues DEF Change, Value
        <4> QED
          BY <2>5, <4>1 DEF IInv, TypeOK, ReceiveEvent, Event, UpdateService,
                 DeleteService, Target
      <3>2. LastChange(s, next - 1)' = next /\ history' = history
        BY <2>2, <2>3, <2>5 DEF ReceiveEvent
      <3> QED
        BY <1>1, <2>4, <3>1, <3>2 DEF FromListOrEvent
    <2>6. CASE history[next].svc # s
      <3>1. targets'[s] = targets[s]
        BY <1>1, <2>6 DEF IInv, TypeOK, ReceiveEvent, Change, Event, UpdateService,
               DeleteService
      <3>2. LastChange(s, next - 1)' = LastChange(s, next - 1) /\ history' = history
        BY <2>2, <2>3, <2>6 DEF ReceiveEvent
      <3>3. FromListOrEvent(s)
        BY DEF IInv
      <3> QED
        BY <2>1, <2>4, <3>1, <3>2, <3>3 DEF FromListOrEvent
    <2> QED
      BY <2>5, <2>6
  <1> QED
    BY <1>3, <1>4, <1>5 DEF IInv

LEMMA ApplyFetchKeeps ==
  ASSUME IInv, ApplyFetch
  PROVE  IInv'
  <1>1. TypeOK' /\ Positions'
    BY DEF IInv, TypeOK, Positions, ApplyFetch, Listed
  <1>2. ASSUME NEW s \in Svc
        PROVE  FromListOrEvent(s)'
    <2>1. /\ (Listed(s) <=> Listed(s)') /\ ServicesAt(fetched)' = ServicesAt(fetched)
          /\ LastChange(s, next - 1)' = LastChange(s, next - 1)
      BY DEF ApplyFetch, Listed, ServicesAt, LastChange
    <2>2. LastChange(s, next - 1) \in 0 .. next - 1
      BY PositionTypes, LastChangeIs DEF IInv
    <2>3. LastChange(s, next - 1) <= missed \/ LastChange(s, next - 1) <= early
      BY <2>2, PositionTypes DEF IInv, Positions, ApplyFetch
    <2>4. targets'[s] = IF Listed(s) THEN ServicesAt(fetched)[s] ELSE targets[s]
      BY DEF ApplyFetch
    <2>5. FromListOrEvent(s) /\ fetch # "applied"
      BY DEF IInv, ApplyFetch
    <2> QED
      BY <2>1, <2>3, <2>4, <2>5 DEF ApplyFetch, FromListOrEvent
  <1> QED
    BY <1>1, <1>2 DEF IInv

LEMMA CrashKeeps ==
  ASSUME IInv, Crash
  PROVE  IInv'
  <1>1. TypeOK'
    BY BoundsAssumption DEF IInv, TypeOK, Crash, NoTargets
  <1>2. Positions'
    BY DEF IInv, TypeOK, Positions, Crash
  <1>3. ASSUME NEW s \in Svc
        PROVE  FromListOrEvent(s)'
    <2>1. LastChange(s, next - 1)' = LastChange(s, 0)
      BY DEF Crash, LastChange
    <2>2. LastChange(s, 0) = 0
      BY LastChangeIs
    <2> QED
      BY <2>1, <2>2 DEF Crash, FromListOrEvent, NoTargets
  <1> QED
    BY <1>1, <1>2, <1>3 DEF IInv

LEMMA StutterKeeps ==
  ASSUME IInv, UNCHANGED vars
  PROVE  IInv'
  <1>1. TypeOK' /\ Positions'
    BY DEF IInv, TypeOK, Positions, vars
  <1>2. ASSUME NEW s \in Svc
        PROVE  FromListOrEvent(s)'
    BY FromSame DEF IInv, vars
  <1> QED
    BY <1>1, <1>2 DEF IInv

LEMMA NextKeeps == IInv /\ [Next]_vars => IInv'
  BY ChangeServiceKeeps, SendWatchKeeps, SendFetchKeeps, OpenWatchKeeps, AnswerFetchKeeps,
     ReceiveEventKeeps, ApplyFetchKeeps, CrashKeeps, StutterKeeps
  DEF Next, ObserverStep

LEMMA Invariance == Spec => []IInv
  BY InitIInv, NextKeeps, PTL DEF Spec

(* Every variable of ObserverSync keeps its type. *)
THEOREM TypeCorrect == Spec => []TypeOK
  <1>1. IInv => TypeOK
    BY DEF IInv
  <1> QED
    BY <1>1, Invariance, PTL

(* main and its fetch goroutine: once the list and all events have been applied, the  *)
(* targets are right but for a service whose last change came after the list was read *)
(* and before it was applied or the watch was served, or that dropped its metrics     *)
(* port.                                                                              *)
THEOREM TargetsSynced == Spec => []SyncedUnlessRaced
  <1>1. IInv => SyncedUnlessRaced
    <2> SUFFICES ASSUME IInv, Quiet, NEW s \in Svc, ~Raced(s), Services[s] # NoMetrics
                 PROVE  Synced(s)
      BY DEF SyncedUnlessRaced
    <2> DEFINE last == LastChange(s, Len(history))
    <2>1. next - 1 = Len(history) /\ Len(history) \in Nat
      BY PositionTypes DEF IInv, TypeOK, Positions, Quiet
    <2>2. FromListOrEvent(s) /\ fetch = "applied" /\ LastChange(s, next - 1) = last
      BY <2>1 DEF IInv, Quiet
    <2>3. /\ last \in 0 .. Len(history) /\ fetched \in Nat /\ missed \in Nat
          /\ early \in Nat /\ fetched <= Len(history)
      BY <2>1, LastChangeIs, PositionTypes DEF IInv, Positions
    <2>4. Services[s] = IF last = 0 THEN Absent ELSE history[last].value
      BY DEF Services, ServicesAt
    <2>5. last <= fetched => LastChange(s, fetched) = last
      <3> SUFFICES ASSUME last <= fetched
                   PROVE  LastChange(s, fetched) = last
        OBVIOUS
      <3>1. /\ last # 0 => history[last].svc = s
            /\ \A h \in 1 .. Len(history) : history[h].svc = s => h <= last
        BY <2>1, LastChangeIs
      <3> HIDE DEF last
      <3>2. last \in 0 .. fetched
        BY <2>3
      <3>3. \A h \in 1 .. fetched : history[h].svc = s => h <= last
        BY <2>1, <2>3, <3>1
      <3> QED
        BY <2>3, <3>1, <3>2, <3>3, LastChangeUnique
    <2>6. last <= fetched => ServicesAt(fetched)[s] = Services[s]
      BY <2>4, <2>5 DEF ServicesAt
    <2>7. CASE last <= missed \/ last <= early
      <3>1. ServicesAt(fetched)[s] = Services[s]
        BY <2>3, <2>6, <2>7 DEF Raced
      <3>2. CASE Listed(s)
        BY <2>2, <2>7, <3>1, <3>2 DEF FromListOrEvent, Listed, Synced, Target
      <3>3. CASE ~Listed(s) /\ last > missed
        BY <2>2, <2>3, <2>4, <3>3 DEF FromListOrEvent, Synced
      <3>4. CASE ~Listed(s) /\ ~(last > missed)
        BY <2>2, <3>1, <3>4 DEF FromListOrEvent, Listed, Synced, Target
      <3> QED
        BY <3>2, <3>3, <3>4
    <2>8. CASE ~(last <= missed \/ last <= early)
      BY <2>2, <2>3, <2>4, <2>8 DEF FromListOrEvent, Synced
    <2> QED
      BY <2>7, <2>8
  <1> QED
    BY <1>1, Invariance, PTL
=============================================================================
