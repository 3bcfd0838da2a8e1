----------------------------- MODULE AgentSync -----------------------------
(***************************************************************************)
(* The agent of a node (agent/main.go) keeps the node's services in the    *)
(* registry in step with its containers.  Two goroutines do so: one        *)
(* handles the events of Docker one by one, the other, the startup job,    *)
(* goes once over the containers that ran when the agent started.  Both    *)
(* inspect a container, check the signature of its image, and then         *)
(* register it or remove it; in between the container moves on.            *)
(*                                                                         *)
(* A container is registered with the ports it has when it is inspected:   *)
(* none before it runs, others after every start.  Its labels name the     *)
(* service and, if it has any, the port of its metrics; without the one or *)
(* with no number for the other it is not registered.  The calls to the    *)
(* registry act on the services of this node as Directory says; a call     *)
(* that fails, or whose agent dies, may still take effect, even late.      *)
(***************************************************************************)
EXTENDS Naturals, Sequences

CONSTANTS
    Ctr,        \* containers that Docker labels as managed, each with a name of its own
    Trusted,    \* those whose image passes checkImage
    Labels,     \* the labels that they may have
    Stoppable,  \* bound: those that someone may ask Docker to stop
    Absent,     \* not registered
    None,       \* no container
    MaxStarts,  \* bound: how often a container starts
    MaxFails,   \* bound: calls that fail and leases that are lost
    MaxExits    \* bound: agents that die or are interrupted

ASSUME TrustedAssumption == Trusted \subseteq Ctr
ASSUME LabelsAssumption == Labels \subseteq [Ctr -> {"none", "invalid", "valid"}]
ASSUME StoppableAssumption == Stoppable \subseteq Ctr
ASSUME SentinelAssumption == Absent \notin Nat /\ None \notin Ctr
ASSUME BoundsAssumption == {MaxStarts, MaxFails, MaxExits} \subseteq Nat

VARIABLES
    label,       \* of every container: "none" has no ssle.service, "invalid" no number
                 \* in ssle.metrics
    ctr,         \* the state of every container
    starts,      \* how often it has started
    stopping,    \* containers that a request has stopped, whose "stop" is not logged yet
    events,      \* Docker events the agent has not handled
    agent,       \* "down", "reset" (has called Reset), "watching", "leaving" (interrupted)
    job,         \* the startup job: "idle", "list", "run"
    todo,        \* the containers it has listed and not inspected
    work,        \* what each goroutine has inspected: a container and its ports
    registered,  \* the services of the node: the ports of every container, or Absent
    stray,       \* calls that have failed for the agent and may still take effect
    unsure,      \* containers the agent has wronged since it last told the registry
    fails, exits

docker == <<label, ctr, starts, stopping, events>>
vars == <<label, ctr, starts, stopping, events, agent, job, todo, work, registered, stray, unsure,
          fails, exits>>

Goroutine == {"handler", "job"}

Ports == 0 .. MaxStarts

Inspected == [ctr : Ctr, ports : Ports]

Call == [ctr : Ctr, ports : Ports \cup {Absent}]

Idle == [ctr |-> None, ports |-> 0]

Action == {"create", "start", "die", "stop"}

TypeOK ==
    /\ label \in [Ctr -> {"none", "invalid", "valid"}]
    /\ ctr \in [Ctr -> {"none", "created", "up", "down", "gone"}]
    /\ starts \in [Ctr -> Ports]
    /\ stopping \in SUBSET Ctr
    /\ events \in Seq([action : Action, ctr : Ctr])
    /\ agent \in {"down", "reset", "watching", "leaving"}
    /\ job \in {"idle", "list", "run"}
    /\ todo \in SUBSET Ctr
    /\ work \in [Goroutine -> Inspected \cup {Idle}]
    /\ registered \in [Ctr -> Ports \cup {Absent}]
    /\ stray \in SUBSET Call
    /\ unsure \in SUBSET Ctr
    /\ fails \in 0 .. MaxFails
    /\ exits \in 0 .. MaxExits

NothingRegistered == [c \in Ctr |-> Absent]

AllIdle == [g \in Goroutine |-> Idle]

Init ==
    /\ label \in Labels
    /\ ctr = [c \in Ctr |-> "none"] /\ starts = [c \in Ctr |-> 0]
    /\ stopping = {} /\ events = <<>>
    /\ agent = "down" /\ job = "idle" /\ todo = {} /\ work = AllIdle
    /\ registered = NothingRegistered
    /\ stray = {} /\ unsure = {}
    /\ fails = 0 /\ exits = 0

Running == agent \in {"watching", "leaving"}

Fails == fails < MaxFails /\ fails' = fails + 1
-----------------------------------------------------------------------------
(* Docker.  The agent receives the events of the time it watches. *)

Emit(action, c) ==
    events' = IF Running THEN Append(events, [action |-> action, ctr |-> c]) ELSE events

Create(c) ==
    /\ ctr[c] = "none"
    /\ ctr' = [ctr EXCEPT ![c] = "created"]
    /\ Emit("create", c)
    /\ UNCHANGED <<starts, stopping>>

Start(c) ==
    /\ ctr[c] \in {"created", "down"} /\ starts[c] < MaxStarts
    /\ ctr' = [ctr EXCEPT ![c] = "up"]
    /\ starts' = [starts EXCEPT ![c] = @ + 1]
    /\ Emit("start", c)
    /\ UNCHANGED stopping

\* A container ends by itself or because someone has asked for it.
Die(c) ==
    /\ ctr[c] = "up"
    /\ ctr' = [ctr EXCEPT ![c] = "down"]
    /\ stopping' \in {stopping, stopping \cup ({c} \cap Stoppable)}
    /\ Emit("die", c)
    /\ UNCHANGED starts

\* The request has waited for the end of the container; until it logs the stop, the
\* container may have started again.
LogStop(c) ==
    /\ c \in stopping
    /\ stopping' = stopping \ {c}
    /\ Emit("stop", c)
    /\ UNCHANGED <<ctr, starts>>

\* The event of a removal is "destroy": HandleEvent waits for "remove", which Docker
\* does not send for containers.
Remove(c) ==
    /\ ctr' = [ctr EXCEPT ![c] = "gone"]
    /\ IF ctr[c] = "up" THEN Emit("die", c) ELSE UNCHANGED events
    /\ UNCHANGED <<starts, stopping>>

ContainerStep ==
    /\ \E c \in Ctr :
          \/ Create(c) \/ Start(c) \/ Die(c) \/ LogStop(c)
          \/ ctr[c] \in {"created", "down"} /\ Remove(c)
    /\ UNCHANGED <<label, agent, job, todo, work, registered, stray, unsure, fails, exits>>
-----------------------------------------------------------------------------
(* The calls that both goroutines make. *)

\* Fault: a container without ports yields no specification.
PortsIfAny(c) == IF ctr[c] = "up" THEN starts[c] ELSE Absent

\* The ports ContainerInspect finds.
PortsOf(c) == IF ctr[c] = "up" THEN starts[c] ELSE 0

Inspect(g, c) ==
    work' = IF ctr[c] = "gone" THEN work
            ELSE [work EXCEPT ![g] = [ctr |-> c, ports |-> PortsOf(c)]]

\* The startup job registers what it has seen, although nothing will tell the agent
\* that the container has changed meanwhile.
Outdated(g, c) ==
    g = "job" /\ (ctr[c] # "up" \/ work[g].ports # starts[c])

\* registerServiceFromContainer goes through with these only.
Registrable(c) == c \in Trusted /\ label[c] = "valid"

\* registerServiceFromContainer returns if the labels do not do.
Register(g) ==
    LET c == work[g].ctr IN
    /\ c \in Trusted
    /\ IF Registrable(c)
       THEN /\ registered' = [registered EXCEPT ![c] = work[g].ports]
            /\ unsure' = IF Outdated(g, c) THEN unsure \cup {c} ELSE unsure \ {c}
       ELSE UNCHANGED <<registered, unsure>>
    /\ UNCHANGED <<docker, stray, fails>>

\* A call fails before, after or, so the agent cannot tell, long before its effect.
CallFails(call) ==
    /\ Fails
    /\ \/ registered' = [registered EXCEPT ![call.ctr] = call.ports] /\ UNCHANGED stray
       \/ stray' \in {stray, stray \cup {call}} /\ UNCHANGED registered
    /\ unsure' = unsure \cup {call.ctr}

RegisterFails(g) ==
    /\ Registrable(work[g].ctr)
    /\ CallFails(work[g])
    /\ UNCHANGED docker

\* checkImage answers false: for an image without a good signature, but also when it
\* fails to obtain the signature.  The container is removed by force.
Reject(g) ==
    LET c == work[g].ctr IN
    /\ IF c \in Trusted THEN Fails ELSE UNCHANGED fails
    /\ Remove(c)
    /\ UNCHANGED <<label, registered, stray, unsure>>

RejectFails(g) ==
    /\ Fails
    /\ unsure' = unsure \cup {work[g].ctr}
    /\ UNCHANGED <<docker, registered, stray>>

Finish(g) ==
    /\ Running /\ work[g] # Idle
    /\ Register(g) \/ RegisterFails(g) \/ Reject(g) \/ RejectFails(g)
    /\ work' = [work EXCEPT ![g] = Idle]
    /\ UNCHANGED <<agent, job, todo, exits>>
-----------------------------------------------------------------------------
(* The goroutine that handles the events. *)

\* Fault: an agent that watches only for stops.
DeregistersOnStop(action) == action = "stop"

Deregisters(action) == action \in {"die", "stop"}

\* Fault: the newest event is held back.
HandlerWaits == Running /\ work["handler"] = Idle /\ Len(events) > 1

HandlerReady == Running /\ work["handler"] = Idle /\ events # <<>>

\* handleEventContainer, creations and starts: up to the signature check.
HandleStart ==
    LET e == Head(events) IN
    /\ HandlerReady /\ e.action \in {"create", "start"}
    /\ events' = Tail(events)
    /\ \/ Inspect("handler", e.ctr) /\ UNCHANGED <<unsure, fails>>
       \/ Fails /\ unsure' = unsure \cup {e.ctr} /\ UNCHANGED work
    /\ UNCHANGED <<label, ctr, starts, stopping, agent, job, todo, registered, stray, exits>>

\* There is an event to come that tells what c is: a stop does not.
Queued(c) == \E i \in DOMAIN events : events[i].ctr = c /\ events[i].action # "stop"

\* A stop that was logged after c had started again takes a container that runs from
\* the registry, and nothing will put it back.
Overtaken(action, c) == action = "stop" /\ ctr[c] = "up" /\ ~Queued(c)'

\* A name always comes with the event, a service only with the label.
CallsDeregister(e) == Deregisters(e.action) /\ label[e.ctr] # "none"

\* handleEventContainer, the end of a container: Deregister is the only call.
HandleEnd ==
    LET e == Head(events) IN
    /\ HandlerReady /\ e.action \in {"die", "stop"}
    /\ events' = Tail(events)
    /\ IF CallsDeregister(e)
       THEN \/ /\ registered' = [registered EXCEPT ![e.ctr] = Absent]
               /\ unsure' = IF Overtaken(e.action, e.ctr) THEN unsure \cup {e.ctr}
                            ELSE unsure \ {e.ctr}
               /\ UNCHANGED <<stray, fails>>
            \/ CallFails([ctr |-> e.ctr, ports |-> Absent])
       ELSE UNCHANGED <<registered, stray, unsure, fails>>
    /\ UNCHANGED <<label, ctr, starts, stopping, agent, job, todo, work, exits>>
-----------------------------------------------------------------------------
(* StartupConsistencyJob. *)

\* Fault: a wrong filter, which lists what does not run.
NotRunning == {c \in Ctr : ctr[c] \in {"created", "down"}}

\* ContainerList leaves out what does not run.
Listed == {c \in Ctr : ctr[c] = "up"}

JobList ==
    /\ Running /\ job = "list"
    /\ job' = "run"
    /\ todo' = Listed
    /\ UNCHANGED <<docker, agent, work, registered, stray, unsure, fails, exits>>

\* A container that cannot be inspected, because it is gone or for another reason,
\* ends the job: nothing is done for those that are left.
JobInspect(c) ==
    /\ Running /\ job = "run" /\ work["job"] = Idle /\ c \in todo
    /\ Inspect("job", c)
    /\ IF ctr[c] = "gone"
       THEN todo' = {} /\ unsure' = unsure \cup todo
       ELSE todo' = todo \ {c} /\ UNCHANGED unsure
    /\ UNCHANGED <<docker, agent, job, registered, stray, fails, exits>>

JobInspectFails ==
    /\ Running /\ job = "run" /\ work["job"] = Idle /\ todo # {}
    /\ Fails
    /\ todo' = {} /\ unsure' = unsure \cup todo
    /\ UNCHANGED <<docker, agent, job, work, registered, stray, exits>>

JobDone == job = "run" /\ todo = {} /\ work["job"] = Idle
-----------------------------------------------------------------------------
(* The agent's life, and its lease. *)

\* Fault: the services of the earlier agent are kept.
ResetNothing(r) == r

\* Reset ends the registrations of the node.
Reset(r) == NothingRegistered

\* main calls Reset and ends if it fails, although it may have had its effect.
StartAgent ==
    /\ agent = "down"
    /\ registered' = Reset(registered)
    /\ \/ agent' = "reset" /\ unsure' = {} /\ UNCHANGED fails
       \/ Fails /\ UNCHANGED <<agent, unsure>>
    /\ UNCHANGED <<docker, job, todo, work, stray, exits>>

\* Events has returned: the two goroutines start.
Watch ==
    /\ agent = "reset"
    /\ agent' = "watching" /\ job' = "list"
    /\ UNCHANGED <<docker, todo, work, registered, stray, unsure, fails, exits>>

\* cleanup, on an interrupt, calls Reset; the goroutines go on until it exits.
Interrupt ==
    /\ agent = "watching" /\ exits < MaxExits
    /\ exits' = exits + 1
    /\ agent' = "leaving"
    /\ registered' = Reset(registered)
    /\ UNCHANGED <<docker, job, todo, work, stray, unsure, fails>>

\* The calls under way when the agent dies.
UnderWay ==
    {work[g] : g \in {h \in Goroutine : Registrable(work[h].ctr)}}
        \cup IF HandlerReady /\ CallsDeregister(Head(events))
             THEN {[ctr |-> Head(events).ctr, ports |-> Absent]} ELSE {}

\* cleanup exits, or the agent dies: of a panic in a goroutine, a failed Config, ...
Exit ==
    /\ agent # "down"
    /\ IF agent = "leaving" THEN UNCHANGED exits
       ELSE exits < MaxExits /\ exits' = exits + 1
    /\ agent' = "down" /\ job' = "idle" /\ todo' = {} /\ work' = AllIdle
    /\ events' = <<>>
    /\ stray' \in {stray \cup s : s \in SUBSET UnderWay}
    /\ UNCHANGED <<label, ctr, starts, stopping, registered, unsure, fails>>

StrayLands(call) ==
    /\ call \in stray
    /\ stray' = stray \ {call}
    /\ registered' = [registered EXCEPT ![call.ctr] = call.ports]
    /\ unsure' = unsure \cup {call.ctr}
    /\ UNCHANGED <<docker, agent, job, todo, work, fails, exits>>

\* The node's lease ends: without an agent, or although its heartbeats go on.  The
\* next heartbeat opens a new lease and registers nothing.
LoseLease ==
    /\ registered # NothingRegistered
    /\ registered' = NothingRegistered
    /\ IF agent = "down" THEN UNCHANGED fails ELSE Fails
    /\ unsure' = unsure \cup {c \in Ctr : registered[c] # Absent}
    /\ UNCHANGED <<docker, agent, job, todo, work, stray, exits>>

JobStep == JobList \/ (\E c \in Ctr : JobInspect(c)) \/ JobInspectFails

Next ==
    \/ ContainerStep
    \/ \E g \in Goroutine : Finish(g)
    \/ HandleStart \/ HandleEnd
    \/ JobStep
    \/ StartAgent \/ Watch \/ Interrupt \/ Exit
    \/ \E call \in stray : StrayLands(call)
    \/ LoseLease

Spec == Init /\ [][Next]_vars

\* A living agent's goroutines run; nothing else has to happen.
FairSpec ==
    /\ Spec
    /\ \A g \in Goroutine : WF_vars(Finish(g))
    /\ WF_vars(HandleStart) /\ WF_vars(HandleEnd) /\ WF_vars(JobStep)
-----------------------------------------------------------------------------
(* Properties *)

Settled ==
    agent = "watching" /\ JobDone /\ events = <<>> /\ work["handler"] = Idle

\* What the registry should say of a container.  A container that was created and
\* never started is registered, without ports, if the agent saw its creation, and
\* stays so when it is removed.
Right(c) ==
    CASE ctr[c] = "up" -> /\ c \in Trusted
                          /\ registered[c] = IF Registrable(c) THEN starts[c] ELSE Absent
      [] ctr[c] \in {"none", "down"} -> registered[c] = Absent
      [] OTHER -> registered[c] = Absent \/ (starts[c] = 0 /\ registered[c] = 0)

\* When the agent has handled all it has to, the registry lists exactly the accepted
\* containers that run and have the labels for it, with the ports of their last start,
\* whatever happened while it was down, however the two goroutines raced and although
\* events arrive late.  The exceptions are the containers of "unsure": the last call
\* for them failed, their lease was lost, an earlier agent's call came late, the startup
\* job gave up before it came to them or registered what it had seen of them before
\* they changed, or Docker logged their stop after they had started again.
SettledRight == Settled => \A c \in Ctr \ unsure : Right(c)

\* An agent that stays comes to an end with what it has to handle.
SettlesForGood == <>[](agent = "watching") => <>[]Settled

\* A container whose image is not accepted does not go on running under an agent that
\* stays, even if it was started before the agent, unless removing it failed or the
\* startup job gave up.
UntrustedStopped ==
    \A c \in Ctr \ Trusted :
        <>[](agent = "watching") => []<>(ctr[c] # "up" \/ c \in unsure)
-----------------------------------------------------------------------------
(* The inductive invariant of the proofs *)

Coherent ==
    \A c \in Ctr : /\ ctr[c] \in {"none", "created"} => starts[c] = 0
                   /\ ctr[c] \in {"up", "down"} => starts[c] > 0

\* What has not the labels is not registered, nor will be.
LabelsObeyed ==
    /\ \A c \in Ctr : registered[c] # Absent => label[c] = "valid"
    /\ \A call \in stray : call.ports # Absent => label[call.ctr] = "valid"

\* Nobody has seen ports of a start to come.
PortsPast ==
    /\ \A c \in Ctr : registered[c] # Absent => registered[c] <= starts[c]
    /\ \A g \in Goroutine : work[g] # Idle => work[g].ports <= starts[work[g].ctr]
    /\ \A call \in stray : call.ports # Absent => call.ports <= starts[call.ctr]

\* An agent that does not watch has nothing to handle; one that has called Reset and
\* does not watch yet has nothing registered.
NotWatching ==
    /\ agent \in {"down", "reset"} =>
          events = <<>> /\ work = AllIdle /\ todo = {} /\ job = "idle"
    /\ agent = "reset" => \A c \in Ctr \ unsure : registered[c] = Absent

\* What the last event of a container says of it, if it is no stop.
Tells(action, c) ==
    \/ action = "create" /\ ctr[c] \in {"created", "gone"} /\ starts[c] = 0
    \/ action = "start" /\ ctr[c] = "up"
    \/ action = "die" /\ ctr[c] \in {"down", "gone"} /\ starts[c] > 0

LastEventTells ==
    agent = "watching" =>
        \A i \in DOMAIN events :
            /\ events[i].action # "stop"
            /\ \A j \in DOMAIN events :
                   j > i /\ events[j].ctr = events[i].ctr => events[j].action = "stop"
            => Tells(events[i].action, events[i].ctr)

\* What the handler has inspected is still so, unless there are more events.
Fresh(c) ==
    \/ ctr[c] = "up" /\ work["handler"].ports = starts[c]
    \/ ctr[c] \in {"created", "gone"} /\ starts[c] = 0

HandlerFresh ==
    agent = "watching" =>
        \A c \in Ctr : work["handler"].ctr = c => Queued(c) \/ Fresh(c)

\* The job has yet to come to a container that runs, or is at it.
JobAhead(c) ==
    /\ ctr[c] = "up"
    /\ \/ job = "list" \/ c \in todo
       \/ work["job"].ctr = c /\ work["job"].ports = starts[c]

\* What the registry says of a container is right or will be corrected.
RightAhead ==
    agent = "watching" =>
        \A c \in Ctr \ unsure :
            Right(c) \/ Queued(c) \/ work["handler"].ctr = c \/ JobAhead(c)

IInv ==
    /\ TypeOK /\ Coherent /\ LabelsObeyed /\ PortsPast /\ NotWatching
    /\ LastEventTells /\ HandlerFresh /\ RightAhead
=============================================================================
