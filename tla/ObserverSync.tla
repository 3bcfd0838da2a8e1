---------------------------- MODULE ObserverSync ----------------------------
(***************************************************************************)
(* How the Prometheus observer of a datacenter follows the registry        *)
(* (prom-sd-observer, registry/agent_api/observer.go).  It opens a watch   *)
(* on the datacenter's services and, without waiting for the registry to   *)
(* serve it, fetches all services in a goroutine; the events and the       *)
(* fetched list are applied to the targets in whatever order they come.    *)
(*                                                                         *)
(* The store is the history of the dcsvc keys.  The two RPCs may be served *)
(* by different registries: the fetch reads what is committed, the watch   *)
(* starts from what its registry has applied so far.                       *)
(***************************************************************************)
EXTENDS Naturals, Sequences

CONSTANTS
    Svc,         \* services of the datacenter: <node>/<service>/<instance>
    Port,        \* metrics ports
    NoMetrics,   \* registered, without a metrics port (absent or 0)
    Absent,      \* not registered
    MaxChanges,  \* bound: length of the history
    MaxCrashes   \* bound: how often the observer dies

ASSUME DistinctValues == Absent \notin Port \cup {NoMetrics} /\ NoMetrics \notin Port

ASSUME BoundsAssumption == {MaxChanges, MaxCrashes} \subseteq Nat

VARIABLES
    history,  \* the changes of dcsvc keys, in commit order
    watch,    \* the watch RPC: "none", "sent", "open"
    next,     \* the first change the open watch has not delivered
    fetch,    \* the fetch RPC: "none", "sent", "answered", "applied"
    fetched,  \* how many changes its answer reflects
    targets,  \* what the observer has written for Prometheus
    missed,   \* changes no event will bring: committed before the watch opened
    early,    \* changes whose events were applied before the fetched list was
    crashes

vars == <<history, watch, next, fetch, fetched, targets, missed, early, crashes>>
observer == <<watch, next, fetch, fetched, targets, missed, early>>

Value == Port \cup {NoMetrics, Absent}

Change == [svc : Svc, value : Value]

TypeOK ==
    /\ history \in Seq(Change) /\ Len(history) <= MaxChanges
    /\ watch \in {"none", "sent", "open"}
    /\ next \in 1 .. MaxChanges + 1
    /\ fetch \in {"none", "sent", "answered", "applied"}
    /\ fetched \in 0 .. MaxChanges
    /\ targets \in [Svc -> Port \cup {Absent}]
    /\ missed \in 0 .. MaxChanges
    /\ early \in 0 .. MaxChanges
    /\ crashes \in 0 .. MaxCrashes

\* The last of the first i changes that is about service s; 0 if there is none.
LastChange(s, i) ==
    LET about == {j \in 1 .. i : history[j].svc = s} IN
    IF about = {} THEN 0 ELSE CHOOSE j \in about : \A h \in about : h <= j

\* The services as they stood after i changes.
ServicesAt(i) ==
    [s \in Svc |-> IF LastChange(s, i) = 0 THEN Absent
                   ELSE history[LastChange(s, i)].value]

Services == ServicesAt(Len(history))

NoTargets == [s \in Svc |-> Absent]

Init ==
    /\ history = <<>>
    /\ watch = "none" /\ next = 1 /\ missed = 0
    /\ fetch = "none" /\ fetched = 0 /\ early = 0
    /\ targets = NoTargets
    /\ crashes = 0
-----------------------------------------------------------------------------
\* A service is registered, registered again, deregistered or lost.
ChangeService(s, v) ==
    /\ Len(history) < MaxChanges
    /\ v = Absent => Services[s] # Absent
    /\ history' = Append(history, [svc |-> s, value |-> v])
    /\ UNCHANGED <<observer, crashes>>

\* main: the watch request leaves first, then the fetch, in a goroutine.
SendWatch ==
    /\ watch = "none"
    /\ watch' = "sent"
    /\ UNCHANGED <<history, next, fetch, fetched, targets, missed, early, crashes>>

SendFetch ==
    /\ watch # "none" /\ fetch = "none"
    /\ fetch' = "sent"
    /\ UNCHANGED <<history, watch, next, fetched, targets, missed, early, crashes>>

\* WatchDatacenterServices: etcd reports the changes after those its member has
\* applied, of which there are i.
OpenWatch(i) ==
    /\ watch = "sent"
    /\ i \in 0 .. Len(history)
    /\ watch' = "open"
    /\ next' = i + 1
    /\ missed' = i
    /\ UNCHANGED <<history, fetch, fetched, targets, early, crashes>>

\* GetDatacenterServices: a linearizable read.
AnswerFetch ==
    /\ fetch = "sent"
    /\ fetch' = "answered"
    /\ fetched' = Len(history)
    /\ UNCHANGED <<history, watch, next, targets, missed, early, crashes>>

\* Fault: a service without a metrics port is written as a target.
UpdateUnchecked(t, s, v) == [t EXCEPT ![s] = v]

\* updateService skips a service that has no metrics port.
UpdateService(t, s, v) == IF v \in Port THEN [t EXCEPT ![s] = v] ELSE t

DeleteService(t, s) == [t EXCEPT ![s] = Absent]

\* Fault: deletions are ignored.
EventIgnoringDelete(t, s, v) == UpdateService(t, s, v)

Event(t, s, v) == IF v = Absent THEN DeleteService(t, s) ELSE UpdateService(t, s, v)

\* Fault: the newest change is held back.
EventWaitingLate == watch = "open" /\ next < Len(history)

EventWaiting == watch = "open" /\ next <= Len(history)

\* One round of main's receive loop.
ReceiveEvent ==
    /\ EventWaiting
    /\ targets' = Event(targets, history[next].svc, history[next].value)
    /\ next' = next + 1
    /\ early' = IF fetch = "applied" THEN early ELSE next
    /\ UNCHANGED <<history, watch, fetch, fetched, missed, crashes>>

Listed(s) == ServicesAt(fetched)[s] \in Port

\* UpdateServiceBulk adds and overwrites targets; it removes none.
ApplyFetch ==
    /\ fetch = "answered"
    /\ fetch' = "applied"
    /\ targets' = [s \in Svc |-> IF Listed(s) THEN ServicesAt(fetched)[s]
                                 ELSE targets[s]]
    /\ UNCHANGED <<history, watch, next, fetched, missed, early, crashes>>

\* Any RPC error is fatal; the restarted observer truncates the targets file.
Crash ==
    /\ watch # "none" /\ crashes < MaxCrashes
    /\ crashes' = crashes + 1
    /\ watch' = "none" /\ next' = 1 /\ missed' = 0
    /\ fetch' = "none" /\ fetched' = 0 /\ early' = 0
    /\ targets' = NoTargets
    /\ UNCHANGED history

ObserverStep ==
    \/ SendWatch \/ SendFetch
    \/ \E i \in 0 .. Len(history) : OpenWatch(i)
    \/ AnswerFetch \/ ReceiveEvent \/ ApplyFetch

Next ==
    \/ \E s \in Svc, v \in Value : ChangeService(s, v)
    \/ ObserverStep
    \/ Crash

\* The observer's goroutines and the registries it calls keep running.
Fairness ==
    /\ WF_vars(SendWatch) /\ WF_vars(SendFetch) /\ WF_vars(AnswerFetch)
    /\ WF_vars(\E i \in 0 .. Len(history) : OpenWatch(i))
    /\ WF_vars(ReceiveEvent) /\ WF_vars(ApplyFetch)

Spec == Init /\ [][Next]_vars

FairSpec == Spec /\ Fairness
-----------------------------------------------------------------------------
(* The inductive invariant *)

Target(v) == IF v \in Port THEN v ELSE Absent

\* The changes that have no event, those whose events came before the list, and those
\* delivered; before the watch opens nothing is.
Positions ==
    /\ next - 1 \in 0 .. Len(history) /\ fetched <= Len(history)
    /\ missed <= next - 1 /\ early <= next - 1
    /\ fetch # "applied" /\ missed < next - 1 => early = next - 1
    /\ watch # "open" => next = 1 /\ missed = 0

\* The target of a service comes from the list, unless an event for it came after the
\* list or the list has none; then it comes from the last event, if there was one.
FromListOrEvent(s) ==
    LET last == LastChange(s, next - 1) IN
    IF fetch = "applied" /\ Listed(s) /\ (last <= missed \/ last <= early)
    THEN targets[s] = ServicesAt(fetched)[s]
    ELSE IF last > missed
    THEN history[last].value # NoMetrics => targets[s] = Target(history[last].value)
    ELSE targets[s] = Absent

IInv == TypeOK /\ Positions /\ \A s \in Svc : FromListOrEvent(s)
-----------------------------------------------------------------------------
(* Properties *)

\* Everything sent to the observer has arrived and been applied.
Quiet == watch = "open" /\ next > Len(history) /\ fetch = "applied"

Synced(s) == targets[s] = Target(Services[s])

\* "Fetch all existing services" (prom-sd-observer/main.go): once the list and all
\* events have been applied, the targets are the registered services.
QuietMeansSynced ==
    Quiet => \A s \in Svc : Services[s] # NoMetrics => Synced(s)

Raced(s) ==
    LET last == LastChange(s, Len(history)) IN
    last > fetched /\ (last <= missed \/ last <= early)

\* The targets of a quiet observer are right for every service, but one whose last
\* change came after the list was read and before it was applied or the watch was
\* served (main and its fetch goroutine), or that dropped its metrics port.
SyncedUnlessRaced ==
    Quiet => \A s \in Svc : Raced(s) \/ Services[s] = NoMetrics \/ Synced(s)

\* The observer catches up: once the services stop changing, the list and every
\* event reach the targets, whatever went wrong while it started (main).
QuietForGood == <>[]Quiet
=============================================================================
