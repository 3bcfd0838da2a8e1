---------------------------- MODULE AgentSyncProofs ----------------------------
(***************************************************************************)
(* Proofs about AgentSync, for any containers, trusted or not, and any     *)
(* number of starts, failures and exits.                                   *)
(***************************************************************************)
EXTENDS AgentSync, TLAPS

LEMMA Bounds == MaxStarts \in Nat /\ MaxFails \in Nat /\ MaxExits \in Nat
  BY BoundsAssumption

(* Right without its CASE, now and after a step. *)
LEMMA RightIs ==
  ASSUME NEW c \in Ctr
  PROVE  /\ Right(c) <=>
               \/ /\ ctr[c] = "up" /\ c \in Trusted
                  /\ \/ label[c] = "valid" /\ registered[c] = starts[c]
                     \/ label[c] # "valid" /\ registered[c] = Absent
               \/ ctr[c] \in {"none", "down"} /\ registered[c] = Absent
               \/ /\ ctr[c] \notin {"up", "none", "down"}
                  /\ registered[c] = Absent \/ (starts[c] = 0 /\ registered[c] = 0)
         /\ Right(c)' <=>
               \/ /\ ctr'[c] = "up" /\ c \in Trusted
                  /\ \/ label'[c] = "valid" /\ registered'[c] = starts'[c]
                     \/ label'[c] # "valid" /\ registered'[c] = Absent
               \/ ctr'[c] \in {"none", "down"} /\ registered'[c] = Absent
               \/ /\ ctr'[c] \notin {"up", "none", "down"}
                  /\ registered'[c] = Absent \/ (starts'[c] = 0 /\ registered'[c] = 0)
  BY DEF Right, Registrable

Event == [action : Action, ctr : Ctr]

(* The events are a sequence of events. *)
LEMMA EventTypes ==
  ASSUME TypeOK
  PROVE  /\ events \in Seq(Event)
         /\ Len(events) \in Nat /\ DOMAIN events = 1 .. Len(events)
         /\ \A i \in 1 .. Len(events) :
               events[i].action \in Action /\ events[i].ctr \in Ctr
         /\ events # <<>> => Head(events) = events[1] /\ Len(events) > 0
  <1>1. events \in Seq(Event)
    BY DEF TypeOK, Event
  <1>2. \A i \in 1 .. Len(events) : events[i] \in Event
    BY <1>1
  <1>3. events # <<>> => Head(events) = events[1] /\ Len(events) > 0
    BY <1>1
  <1>4. Len(events) \in Nat /\ DOMAIN events = 1 .. Len(events)
    BY <1>1
  <1>5. \A e \in Event : e.action \in Action /\ e.ctr \in Ctr
    BY DEF Event
  <1> QED
    BY <1>1, <1>2, <1>3, <1>4, <1>5

(* Facts about types that the steps rely on. *)
LEMMA Types ==
  ASSUME TypeOK
  PROVE  /\ \A c \in Ctr : /\ starts[c] \in Nat
                           /\ registered[c] # Absent => registered[c] \in Nat
         /\ \A g \in Goroutine : work[g].ports \in Nat
         /\ \A g \in Goroutine : (work[g] # Idle) = (work[g].ctr \in Ctr)
         /\ \A i \in DOMAIN events : events[i].ctr \in Ctr
         /\ Absent \notin Nat /\ 0 \in Ports /\ Ports \subseteq Nat
         /\ "handler" \in Goroutine /\ "job" \in Goroutine
  <1>1. Ports \subseteq Nat /\ 0 \in Ports
    BY Bounds DEF Ports
  <1>2. \A c \in Ctr : /\ starts[c] \in Nat
                       /\ registered[c] # Absent => registered[c] \in Nat
    BY <1>1 DEF TypeOK
  <1>3. ASSUME NEW g \in Goroutine
        PROVE  work[g].ports \in Nat /\ (work[g] # Idle) = (work[g].ctr \in Ctr)
    <2>1. work[g] \in Inspected \cup {Idle}
      BY DEF TypeOK
    <2>2. CASE work[g] \in Inspected
      <3>1. work[g].ports \in Nat /\ work[g].ctr \in Ctr
        BY <1>1, <2>2 DEF Inspected
      <3>2. work[g] # Idle
        BY <3>1, SentinelAssumption DEF Idle
      <3> QED
        BY <3>1, <3>2
    <2>3. CASE work[g] = Idle
      BY <2>3, SentinelAssumption DEF Idle
    <2> QED
      BY <2>1, <2>2, <2>3
  <1>4. \A i \in DOMAIN events : events[i].ctr \in Ctr
    BY EventTypes
  <1> QED
    BY <1>1, <1>2, <1>3, <1>4, SentinelAssumption DEF Goroutine

(* It holds initially. *)
LEMMA InitIInv == Init => IInv
  <1> SUFFICES ASSUME Init PROVE IInv
    OBVIOUS
  <1>1. TypeOK
    <2>1. /\ fails \in 0 .. MaxFails /\ exits \in 0 .. MaxExits
          /\ 0 \in Ports
      BY Bounds DEF Init, Ports
    <2>2. work \in [Goroutine -> Inspected \cup {Idle}]
      BY DEF Init, AllIdle
    <2>3. /\ starts \in [Ctr -> Ports]
          /\ registered \in [Ctr -> Ports \cup {Absent}]
      BY <2>1 DEF Init, NothingRegistered
    <2>4. events \in Seq([action : Action, ctr : Ctr])
      BY DEF Init
    <2>5. label \in [Ctr -> {"none", "invalid", "valid"}]
      BY LabelsAssumption DEF Init
    <2> QED
      BY <2>1, <2>2, <2>3, <2>4, <2>5 DEF Init, TypeOK
  <1>2. Coherent /\ LabelsObeyed /\ PortsPast /\ NotWatching /\ LastEventTells /\ HandlerFresh /\ RightAhead
    BY DEF Init, Coherent, LabelsObeyed, PortsPast, NotWatching, LastEventTells,
           HandlerFresh, RightAhead, AllIdle, NothingRegistered
  <1> QED
    BY <1>1, <1>2 DEF IInv
-----------------------------------------------------------------------------
(* The queue: what adding and taking an event change *)

(* An event that tells of its container is added, after which no other changes. *)
LEMMA QueueGrows ==
  ASSUME TypeOK, LastEventTells, agent = "watching", NEW c \in Ctr,
         NEW action \in {"create", "start", "die"},
         events' = Append(events, [action |-> action, ctr |-> c]),
         Tells(action, c)',
         \A d \in Ctr \ {c} : ctr'[d] = ctr[d] /\ starts'[d] = starts[d]
  PROVE  /\ LastEventTells'
         /\ Queued(c)'
         /\ \A d \in Ctr \ {c} : Queued(d)' = Queued(d)
  <1> DEFINE n == Len(events)
             e == [action |-> action, ctr |-> c]
  <1>1. /\ n \in Nat /\ DOMAIN events = 1 .. n
        /\ \A i \in 1 .. n : events[i].ctr \in Ctr
    BY EventTypes
  <1>2. /\ DOMAIN events' = 1 .. n + 1 /\ events'[n + 1] = e
        /\ \A i \in 1 .. n : events'[i] = events[i]
    <2>1. e \in Event
      BY DEF Event, Action
    <2> QED
      BY <2>1, EventTypes
  <1> HIDE DEF n
  <1>3. Queued(c)'
    BY <1>1, <1>2 DEF Queued
  <1>4. ASSUME NEW d \in Ctr \ {c} PROVE Queued(d)' = Queued(d)
    BY <1>1, <1>2 DEF Queued
  <1>5. ASSUME NEW i \in DOMAIN events', events'[i].action # "stop",
               \A j \in DOMAIN events' :
                   j > i /\ events'[j].ctr = events'[i].ctr => events'[j].action = "stop"
        PROVE  Tells(events[i].action, events[i].ctr)'
    <2>1. CASE i = n + 1
      <3>1. events'[i].action = action /\ events'[i].ctr = c
        BY <1>2, <2>1
      <3> QED
        BY <3>1 DEF Tells
    <2>2. CASE i # n + 1
      <3>1. /\ i \in 1 .. n /\ events'[i] = events[i] /\ events[i].ctr \in Ctr \ {c}
            /\ events[i].action # "stop"
        <4>1. i \in 1 .. n /\ n + 1 > i /\ n + 1 \in DOMAIN events'
          BY <1>1, <1>2, <2>2
        <4>2. e.ctr = c /\ e.action # "stop"
          OBVIOUS
        <4> QED
          BY <1>1, <1>2, <1>5, <4>1, <4>2, SMTT(20)
      <3>2. \A j \in DOMAIN events :
               j > i /\ events[j].ctr = events[i].ctr => events[j].action = "stop"
        BY <1>1, <1>2, <1>5, <3>1
      <3>3. Tells(events[i].action, events[i].ctr)
        BY <1>1, <3>1, <3>2 DEF LastEventTells
      <3> QED
        BY <3>1, <3>3 DEF Tells
    <2> QED
      BY <2>1, <2>2
  <1> QED
    BY <1>3, <1>4, <1>5 DEF LastEventTells

(* A stop is added, which tells nothing. *)
LEMMA StopQueued ==
  ASSUME TypeOK, LastEventTells, NEW c \in Ctr, agent = "watching",
         events' = Append(events, [action |-> "stop", ctr |-> c]),
         UNCHANGED <<ctr, starts, agent>>
  PROVE  /\ LastEventTells'
         /\ \A d \in Ctr : Queued(d)' = Queued(d)
  <1> DEFINE n == Len(events)
             e == [action |-> "stop", ctr |-> c]
  <1>1. n \in Nat /\ DOMAIN events = 1 .. n
    BY EventTypes
  <1>2. /\ DOMAIN events' = 1 .. n + 1 /\ events'[n + 1] = e
        /\ \A i \in 1 .. n : events'[i] = events[i]
    <2>1. e \in Event
      BY DEF Event, Action
    <2> QED
      BY <2>1, EventTypes
  <1> HIDE DEF n
  <1>3. \A d \in Ctr : Queued(d)' = Queued(d)
    BY <1>1, <1>2 DEF Queued
  <1>4. ASSUME NEW i \in DOMAIN events', events'[i].action # "stop",
               \A j \in DOMAIN events' :
                   j > i /\ events'[j].ctr = events'[i].ctr => events'[j].action = "stop"
        PROVE  Tells(events[i].action, events[i].ctr)'
    <2>1. i \in 1 .. n /\ events'[i] = events[i]
      BY <1>1, <1>2, <1>4
    <2>2. \A j \in DOMAIN events :
             j > i /\ events[j].ctr = events[i].ctr => events[j].action = "stop"
      BY <1>1, <1>2, <1>4, <2>1
    <2>3. Tells(events[i].action, events[i].ctr)
      BY <1>1, <1>4, <2>1, <2>2 DEF LastEventTells
    <2> QED
      BY <2>1, <2>3 DEF Tells
  <1> QED
    BY <1>3, <1>4 DEF LastEventTells

(* The first event is taken: if there is none of its container left but stops, it     *)
(* tells; if it is a stop itself, nothing is lost.                                    *)
LEMMA QueueShrinks ==
  ASSUME TypeOK, LastEventTells, agent = "watching", events # <<>>, events' = Tail(events),
         UNCHANGED <<ctr, starts>>, NEW c, c = Head(events).ctr
  PROVE  /\ LastEventTells'
         /\ c \in Ctr
         /\ Head(events).action # "stop" => Queued(c)' \/ Tells(Head(events).action, c)
         /\ \A d \in Ctr :
               d # c \/ Head(events).action = "stop" => Queued(d)' = Queued(d)
  <1> DEFINE n == Len(events)
  <1>1. /\ n \in Nat \ {0} /\ DOMAIN events = 1 .. n /\ Head(events) = events[1]
        /\ \A i \in 1 .. n : events[i].ctr \in Ctr
    BY EventTypes
  <1>2. /\ DOMAIN events' = 1 .. n - 1
        /\ \A i \in 1 .. n - 1 : events'[i] = events[i + 1]
    BY EventTypes
  <1> HIDE DEF n
  <1>3. \A i \in 2 .. n : i - 1 \in 1 .. n - 1 /\ events'[i - 1] = events[i]
    <2> TAKE i \in 2 .. n
    <2>1. i - 1 \in 1 .. n - 1 /\ (i - 1) + 1 = i
      BY <1>1
    <2> QED
      BY <1>2, <2>1
  <1>4. ASSUME ~Queued(c)', Head(events).action # "stop"
        PROVE  Tells(Head(events).action, c)
    <2>1. ASSUME NEW j \in 2 .. n, events[j].ctr = c PROVE events[j].action = "stop"
      BY <1>2, <1>3, <1>4, <2>1 DEF Queued
    <2>2. \A j \in DOMAIN events :
             j > 1 /\ events[j].ctr = events[1].ctr => events[j].action = "stop"
      BY <1>1, <2>1
    <2>3. 1 \in DOMAIN events
      BY <1>1
    <2> QED
      BY <1>1, <1>4, <2>2, <2>3 DEF LastEventTells
  <1>5. ASSUME NEW d \in Ctr, d # c \/ Head(events).action = "stop"
        PROVE  Queued(d)' = Queued(d)
    <2>1. Queued(d) => Queued(d)'
      <3> SUFFICES ASSUME NEW i \in 1 .. n, events[i].ctr = d, events[i].action # "stop"
                   PROVE  Queued(d)'
        BY <1>1 DEF Queued
      <3>1. i \in 2 .. n
        BY <1>1, <1>5
      <3> QED
        BY <1>2, <1>3, <3>1 DEF Queued
    <2>2. Queued(d)' => Queued(d)
      <3> SUFFICES ASSUME NEW i \in 1 .. n - 1, events'[i].ctr = d,
                          events'[i].action # "stop"
                   PROVE  Queued(d)
        BY <1>2 DEF Queued
      <3>1. i + 1 \in 1 .. n /\ events'[i] = events[i + 1]
        BY <1>1, <1>2
      <3> QED
        BY <1>1, <3>1 DEF Queued
    <2> QED
      BY <2>1, <2>2 DEF Queued
  <1>6. ASSUME NEW i \in DOMAIN events', events'[i].action # "stop",
               \A j \in DOMAIN events' :
                   j > i /\ events'[j].ctr = events'[i].ctr => events'[j].action = "stop"
        PROVE  Tells(events[i].action, events[i].ctr)'
    <2>1. /\ i \in 1 .. n - 1 /\ i + 1 \in 1 .. n /\ events'[i] = events[i + 1]
          /\ i \in Nat
      BY <1>1, <1>2
    <2>2. ASSUME NEW j \in 1 .. n, j > i + 1, events[j].ctr = events[i + 1].ctr
          PROVE  events[j].action = "stop"
      <3>1. j \in 2 .. n /\ j - 1 > i
        BY <1>1, <2>1, <2>2
      <3>2. j - 1 \in DOMAIN events' /\ events'[j - 1] = events[j]
        BY <1>2, <1>3, <3>1
      <3>3. events'[j - 1].ctr = events'[i].ctr
        BY <2>1, <2>2, <3>2
      <3>4. events'[j - 1].action = "stop"
        BY <1>6, <3>1, <3>2, <3>3
      <3> QED
        BY <3>2, <3>4
    <2>3. Tells(events[i + 1].action, events[i + 1].ctr)
      BY <1>1, <1>6, <2>1, <2>2 DEF LastEventTells
    <2> QED
      BY <2>1, <2>3 DEF Tells
  <1> QED
    BY <1>1, <1>4, <1>5, <1>6 DEF LastEventTells

-----------------------------------------------------------------------------
(* The steps.  What a step that leaves Docker and its events alone keeps: *)

LEMMA DockerSame ==
  ASSUME IInv, UNCHANGED <<ctr, starts, events>>,
         agent' = "watching" => agent = "watching"
  PROVE  /\ Coherent' /\ LastEventTells'
         /\ \A c \in Ctr : Queued(c)' = Queued(c)
  BY DEF IInv, Coherent, LastEventTells, Tells, Queued

(* What a step that registers nothing keeps. *)
LEMMA LabelsSame ==
  ASSUME IInv, UNCHANGED <<label, registered, stray>>
  PROVE  LabelsObeyed'
  BY DEF IInv, LabelsObeyed

LEMMA HandlerFreshSame ==
  ASSUME IInv, UNCHANGED <<ctr, starts, events>>,
         agent' = "watching" => agent = "watching",
         work'["handler"] \in {work["handler"], Idle}
  PROVE  HandlerFresh'
  <1> SUFFICES ASSUME agent' = "watching", NEW c \in Ctr, work'["handler"].ctr = c
               PROVE  Queued(c)' \/ Fresh(c)'
    BY DEF HandlerFresh
  <1>1. work'["handler"] = work["handler"]
    BY SentinelAssumption DEF Idle
  <1> QED
    BY <1>1 DEF IInv, HandlerFresh, Queued, Fresh

(* What a goroutine has inspected is a call that it may make. *)
LEMMA Working ==
  ASSUME IInv, NEW g \in Goroutine, work[g] # Idle
  PROVE  /\ work[g].ctr \in Ctr /\ work[g].ports \in Ports /\ work[g].ports \in Nat
         /\ work[g].ports <= starts[work[g].ctr]
         /\ work[g] \in Call
  <1>1. work[g] \in Inspected
    BY DEF IInv, TypeOK
  <1>2. work[g].ctr \in Ctr /\ work[g].ports \in Ports /\ work[g] \in Call
    BY <1>1 DEF Inspected, Call
  <1> QED
    BY <1>2, Types DEF IInv, PortsPast

(* The agent's life, and its lease. *)
LEMMA StartAgentKeeps ==
  ASSUME IInv, StartAgent
  PROVE  IInv'
  <1>1. TypeOK'
    BY Bounds DEF StartAgent, Reset, NothingRegistered, docker, Fails, IInv, TypeOK
  <1>2. agent' \in {"down", "reset"} /\ UNCHANGED <<ctr, starts, events>>
    BY DEF StartAgent, docker
  <1>3. PortsPast' /\ NotWatching' /\ LabelsObeyed'
    BY DEF StartAgent, Reset, NothingRegistered, docker, IInv, PortsPast, NotWatching,
           LabelsObeyed
  <1> QED
    BY <1>1, <1>2, <1>3, DockerSame DEF IInv, HandlerFresh, RightAhead

LEMMA WatchKeeps ==
  ASSUME IInv, Watch
  PROVE  IInv'
  <1>1. TypeOK'
    BY DEF Watch, docker, IInv, TypeOK
  <1>2. PortsPast' /\ NotWatching' /\ Coherent' /\ LabelsObeyed'
    BY LabelsSame DEF Watch, docker, IInv, PortsPast, NotWatching, Coherent
  <1>3. /\ events' = <<>> /\ work'["handler"] = Idle /\ job' = "list"
        /\ \A c \in Ctr \ unsure' : registered'[c] = Absent
    BY DEF Watch, docker, IInv, NotWatching, AllIdle, Goroutine
  <1>4. LastEventTells' /\ HandlerFresh'
    BY <1>3, SentinelAssumption DEF LastEventTells, HandlerFresh, Idle
  <1>5. RightAhead'
    BY <1>1, <1>3, RightIs DEF RightAhead, JobAhead, TypeOK
  <1> QED
    BY <1>1, <1>2, <1>4, <1>5 DEF IInv

LEMMA InterruptKeeps ==
  ASSUME IInv, Interrupt
  PROVE  IInv'
  <1>1. TypeOK'
    BY Bounds DEF Interrupt, Reset, NothingRegistered, docker, IInv, TypeOK
  <1>2. agent' = "leaving" /\ UNCHANGED <<ctr, starts, events>>
    BY DEF Interrupt, docker
  <1>3. PortsPast' /\ NotWatching' /\ LabelsObeyed'
    BY DEF Interrupt, Reset, NothingRegistered, docker, IInv, PortsPast, NotWatching,
           LabelsObeyed
  <1> QED
    BY <1>1, <1>2, <1>3, DockerSame DEF IInv, HandlerFresh, RightAhead

LEMMA ExitKeeps ==
  ASSUME IInv, Exit
  PROVE  IInv'
  <1>1. \A call \in UnderWay :
           /\ call \in Call
           /\ call.ports # Absent =>
                 call.ports <= starts[call.ctr] /\ label[call.ctr] = "valid"
    <2>1. ASSUME NEW g \in Goroutine, Registrable(work[g].ctr)
          PROVE  /\ work[g] \in Call /\ work[g].ports <= starts[work[g].ctr]
                 /\ label[work[g].ctr] = "valid"
      <3>1. work[g] # Idle
        BY <2>1, TrustedAssumption, SentinelAssumption DEF Idle, Registrable
      <3> QED
        BY <2>1, <3>1, Working DEF Registrable
    <2>2. ASSUME HandlerReady
          PROVE  [ctr |-> Head(events).ctr, ports |-> Absent] \in Call
      <3>1. Head(events).ctr \in Ctr
        BY <2>2, EventTypes DEF HandlerReady, IInv
      <3> QED
        BY <3>1 DEF Call
    <2> QED
      BY <2>1, <2>2 DEF UnderWay
  <1>2. /\ stray' \in SUBSET Call
        /\ \A call \in stray' :
              call.ports # Absent =>
                 call.ports <= starts[call.ctr] /\ label[call.ctr] = "valid"
    <2>1. stray' \subseteq stray \cup UnderWay
      BY DEF Exit
    <2> QED
      BY <1>1, <2>1 DEF IInv, TypeOK, PortsPast, LabelsObeyed
  <1>3. AllIdle \in [Goroutine -> Inspected \cup {Idle}] /\ <<>> \in Seq(Event)
    BY DEF AllIdle
  <1>4. exits' \in 0 .. MaxExits
    BY Bounds DEF Exit, IInv, TypeOK
  <1>5. TypeOK'
    BY <1>2, <1>3, <1>4 DEF Exit, IInv, TypeOK, Event
  <1>6. PortsPast' /\ NotWatching' /\ Coherent' /\ LabelsObeyed'
    BY <1>2 DEF Exit, AllIdle, IInv, PortsPast, NotWatching, Coherent, LabelsObeyed
  <1>7. agent' = "down"
    BY DEF Exit
  <1> QED
    BY <1>5, <1>6, <1>7 DEF IInv, LastEventTells, HandlerFresh, RightAhead

LEMMA StrayLandsKeeps ==
  ASSUME IInv, NEW call \in stray, StrayLands(call)
  PROVE  IInv'
  <1>1. /\ call.ctr \in Ctr /\ call.ports \in Ports \cup {Absent}
        /\ call.ports # Absent => call.ports <= starts[call.ctr]
    BY DEF IInv, TypeOK, Call, PortsPast
  <1>2. TypeOK'
    BY <1>1 DEF StrayLands, docker, IInv, TypeOK
  <1>3. PortsPast' /\ LabelsObeyed'
    BY <1>1 DEF StrayLands, docker, IInv, PortsPast, LabelsObeyed, TypeOK
  <1>4. NotWatching'
    BY DEF StrayLands, docker, IInv, NotWatching, TypeOK
  <1>5. RightAhead'
    BY RightIs DEF StrayLands, docker, IInv, RightAhead, TypeOK, JobAhead, Queued
  <1> QED
    BY <1>2, <1>3, <1>4, <1>5, DockerSame, HandlerFreshSame DEF IInv, StrayLands, docker

LEMMA LoseLeaseKeeps ==
  ASSUME IInv, LoseLease
  PROVE  IInv'
  <1>1. TypeOK'
    BY Bounds DEF LoseLease, NothingRegistered, Fails, docker, IInv, TypeOK
  <1>2. PortsPast' /\ NotWatching' /\ LabelsObeyed'
    BY DEF LoseLease, NothingRegistered, docker, IInv, PortsPast, NotWatching, LabelsObeyed
  <1>3. RightAhead'
    <2> SUFFICES ASSUME agent' = "watching", NEW c \in Ctr \ unsure'
                 PROVE  \/ Right(c)' \/ Queued(c)' \/ work'["handler"].ctr = c
                        \/ JobAhead(c)'
      BY DEF RightAhead
    <2>1. c \notin unsure /\ registered[c] = Absent /\ registered'[c] = Absent
      BY DEF LoseLease, NothingRegistered
    <2> QED
      BY <2>1, RightIs DEF LoseLease, docker, IInv, RightAhead, JobAhead, Queued
  <1> QED
    BY <1>1, <1>2, <1>3, DockerSame, HandlerFreshSame DEF IInv, LoseLease, docker

(* The startup job.  What it leaves behind is unsure or ahead. *)
LEMMA JobListKeeps ==
  ASSUME IInv, JobList
  PROVE  IInv'
  <1>1. TypeOK'
    BY DEF JobList, Listed, docker, IInv, TypeOK
  <1>2. PortsPast' /\ NotWatching' /\ LabelsObeyed'
    BY LabelsSame DEF JobList, Running, docker, IInv, PortsPast, NotWatching
  <1>3. RightAhead'
    BY RightIs DEF JobList, Listed, docker, IInv, RightAhead, JobAhead, Queued
  <1> QED
    BY <1>1, <1>2, <1>3, DockerSame, HandlerFreshSame DEF IInv, JobList, docker

(* An inspection shows the container as it is. *)
LEMMA InspectShows ==
  ASSUME IInv, NEW g \in Goroutine, NEW c \in Ctr, Inspect(g, c)
  PROVE  /\ work' \in [Goroutine -> Inspected \cup {Idle}]
         /\ \A h \in Goroutine \ {g} : work'[h] = work[h]
         /\ ctr[c] = "gone" => work' = work
         /\ ctr[c] # "gone" => /\ work'[g].ctr = c /\ work'[g].ports = PortsOf(c)
                               /\ PortsOf(c) <= starts[c]
                               /\ PortsOf(c) \in Nat
  <1>1. PortsOf(c) \in Ports /\ PortsOf(c) \in Nat /\ PortsOf(c) <= starts[c]
    BY Types DEF PortsOf, IInv, TypeOK
  <1>2. [ctr |-> c, ports |-> PortsOf(c)] \in Inspected
    BY <1>1 DEF Inspected
  <1> QED
    BY <1>1, <1>2 DEF Inspect, IInv, TypeOK

LEMMA JobInspectKeeps ==
  ASSUME IInv, NEW c \in Ctr, JobInspect(c)
  PROVE  IInv'
  <1>1. "job" \in Goroutine /\ "handler" \in Goroutine /\ Inspect("job", c)
    BY DEF JobInspect, Goroutine
  <1>2. work'["handler"] = work["handler"]
    BY <1>1, InspectShows
  <1>3. TypeOK'
    BY <1>1, InspectShows DEF JobInspect, docker, IInv, TypeOK
  <1>4. PortsPast'
    <2>1. \A g \in Goroutine : work'[g] # Idle => work'[g].ports <= starts[work'[g].ctr]
      BY <1>1, InspectShows DEF IInv, PortsPast
    <2> QED
      BY <2>1 DEF JobInspect, docker, IInv, PortsPast
  <1>5. NotWatching' /\ LabelsObeyed'
    BY LabelsSame DEF JobInspect, Running, docker, IInv, NotWatching
  <1>6. RightAhead'
    <2> SUFFICES ASSUME agent' = "watching", NEW d \in Ctr \ unsure'
                 PROVE  \/ Right(d)' \/ Queued(d)' \/ work'["handler"].ctr = d
                        \/ JobAhead(d)'
      BY DEF RightAhead
    <2>1. \/ Right(d) \/ Queued(d) \/ work["handler"].ctr = d \/ JobAhead(d)
      BY DEF JobInspect, IInv, RightAhead
    <2>2. CASE JobAhead(d)
      <3>1. ctr[d] = "up" /\ d \in todo
        BY <2>2, SentinelAssumption DEF JobInspect, JobAhead, Idle
      <3>2. ctr[c] # "gone"
        BY <3>1 DEF JobInspect
      <3>3. CASE d = c
        BY <1>1, <3>1, <3>2, <3>3, InspectShows DEF JobInspect, docker, JobAhead, PortsOf
      <3>4. CASE d # c
        BY <3>1, <3>2, <3>4 DEF JobInspect, docker, JobAhead
      <3> QED
        BY <3>3, <3>4
    <2>3. CASE Right(d) \/ Queued(d) \/ work["handler"].ctr = d
      BY <1>2, <2>3, RightIs DEF JobInspect, docker, Queued
    <2> QED
      BY <2>1, <2>2, <2>3
  <1> QED
    BY <1>2, <1>3, <1>4, <1>5, <1>6, DockerSame, HandlerFreshSame
    DEF IInv, JobInspect, docker

LEMMA JobInspectFailsKeeps ==
  ASSUME IInv, JobInspectFails
  PROVE  IInv'
  <1>1. TypeOK'
    BY Bounds DEF JobInspectFails, Fails, docker, IInv, TypeOK
  <1>2. PortsPast' /\ NotWatching' /\ LabelsObeyed'
    BY LabelsSame DEF JobInspectFails, Running, docker, IInv, PortsPast, NotWatching
  <1>3. RightAhead'
    BY RightIs, SentinelAssumption
    DEF JobInspectFails, docker, IInv, RightAhead, JobAhead, Queued, Idle
  <1> QED
    BY <1>1, <1>2, <1>3, DockerSame, HandlerFreshSame DEF IInv, JobInspectFails, docker

(* The handler takes an event. *)
LEMMA TailTypes ==
  ASSUME TypeOK, events # <<>>
  PROVE  Tail(events) \in Seq([action : Action, ctr : Ctr])
  <1>1. events \in Seq(Event)
    BY EventTypes
  <1>2. Tail(events) \in Seq(Event)
    BY <1>1
  <1> QED
    BY <1>2 DEF Event

LEMMA HandleStartKeeps ==
  ASSUME IInv, HandleStart, NEW c \in Ctr, c = Head(events).ctr
  PROVE  IInv'
  <1>1. /\ Running /\ events # <<>> /\ work["handler"] = Idle
        /\ Head(events).action \in {"create", "start"}
        /\ events' = Tail(events)
        /\ UNCHANGED <<label, ctr, starts, stopping, agent, job, todo, registered, stray, exits>>
    BY DEF HandleStart, HandlerReady
  <1>2. "handler" \in Goroutine /\ "job" \in Goroutine /\ "job" # "handler"
    BY DEF Goroutine
  <1>3. CASE Inspect("handler", c) /\ UNCHANGED <<unsure, fails>>
    <2>1. TypeOK'
      BY <1>1, <1>2, <1>3, InspectShows, TailTypes DEF IInv, TypeOK
    <2>2. PortsPast'
      <3>1. \A g \in Goroutine : work'[g] # Idle => work'[g].ports <= starts[work'[g].ctr]
        BY <1>1, <1>2, <1>3, InspectShows DEF IInv, PortsPast
      <3> QED
        BY <1>1, <3>1 DEF IInv, PortsPast
    <2>3. NotWatching' /\ Coherent' /\ LabelsObeyed'
      BY <1>1, LabelsSame DEF Running, IInv, NotWatching, Coherent
    <2>4. ASSUME agent = "watching"
          PROVE  /\ LastEventTells'
                 /\ Queued(c)' \/ Tells(Head(events).action, c)
                 /\ \A d \in Ctr : d # c => Queued(d)' = Queued(d)
      BY <1>1, <2>4, QueueShrinks DEF IInv
    <2>5. ASSUME agent = "watching", ~Queued(c)'
          PROVE  \/ ctr[c] = "up"
                 \/ ctr[c] \in {"created", "gone"} /\ starts[c] = 0
      BY <1>1, <2>4, <2>5 DEF Tells
    <2>6. HandlerFresh'
      <3> SUFFICES ASSUME agent = "watching", NEW d \in Ctr, work'["handler"].ctr = d,
                          ~Queued(d)'
                   PROVE  Fresh(d)'
        BY <1>1 DEF HandlerFresh
      <3>1. d = c /\ ctr[d] # "gone" /\ work'["handler"].ports = PortsOf(d)
        BY <1>1, <1>2, <1>3, InspectShows, SentinelAssumption DEF Idle
      <3> QED
        BY <1>1, <2>5, <3>1 DEF Fresh, PortsOf
    <2>7. RightAhead'
      <3> SUFFICES ASSUME agent = "watching", NEW d \in Ctr \ unsure,
                          ~Queued(d)', work'["handler"].ctr # d
                   PROVE  Right(d)' \/ JobAhead(d)'
        BY <1>1, <1>3 DEF RightAhead
      <3>1. work'["job"] = work["job"]
        BY <1>1, <1>2, <1>3, InspectShows
      <3>2. CASE d = c
        <4>1. ctr[d] = "gone" /\ starts[d] = 0
          BY <1>1, <1>2, <1>3, <2>5, <3>2, InspectShows
        <4>2. registered[d] = Absent \/ registered[d] = 0
          BY <4>1, Types DEF IInv, PortsPast
        <4> QED
          BY <1>1, <4>1, <4>2, RightIs
      <3>3. CASE d # c
        <4>1. Right(d) \/ JobAhead(d)
          BY <1>1, <2>4, <3>3, SentinelAssumption DEF IInv, RightAhead, Idle
        <4> QED
          BY <1>1, <3>1, <4>1, RightIs DEF JobAhead
      <3> QED
        BY <3>2, <3>3
    <2>8. LastEventTells'
      BY <1>1, <2>4 DEF LastEventTells
    <2> QED
      BY <2>1, <2>2, <2>3, <2>6, <2>7, <2>8 DEF IInv
  <1>4. CASE Fails /\ unsure' = unsure \cup {c} /\ UNCHANGED work
    <2>1. TypeOK'
      BY <1>1, <1>4, TailTypes, Bounds DEF IInv, TypeOK, Fails
    <2>2. PortsPast' /\ NotWatching' /\ Coherent' /\ LabelsObeyed'
      BY <1>1, <1>4, LabelsSame DEF Running, IInv, PortsPast, NotWatching, Coherent
    <2>3. ASSUME agent = "watching"
          PROVE  LastEventTells' /\ \A d \in Ctr : d # c => Queued(d)' = Queued(d)
      BY <1>1, <2>3, QueueShrinks DEF IInv
    <2>4. HandlerFresh'
      BY <1>1, <1>4, SentinelAssumption DEF HandlerFresh, Idle
    <2>5. RightAhead'
      BY <1>1, <1>4, <2>3, RightIs DEF IInv, RightAhead, JobAhead
    <2>6. LastEventTells'
      BY <1>1, <2>3 DEF LastEventTells
    <2> QED
      BY <2>1, <2>2, <2>4, <2>5, <2>6 DEF IInv
  <1> QED
    BY <1>3, <1>4 DEF HandleStart

LEMMA HandleEndKeeps ==
  ASSUME IInv, HandleEnd, NEW c \in Ctr, c = Head(events).ctr
  PROVE  IInv'
  <1> DEFINE end == [ctr |-> c, ports |-> Absent]
             action == Head(events).action
  <1>1. /\ Running /\ events # <<>> /\ work["handler"] = Idle
        /\ action \in {"die", "stop"}
        /\ events' = Tail(events)
        /\ UNCHANGED <<label, ctr, starts, stopping, agent, job, todo, work, exits>>
    BY DEF HandleEnd, HandlerReady
  <1>2. \/ /\ registered' = [registered EXCEPT ![c] = Absent]
           /\ unsure' = IF Overtaken(action, c) THEN unsure \cup {c} ELSE unsure \ {c}
           /\ UNCHANGED <<stray, fails>>
        \/ CallFails(end)
        \/ label[c] = "none" /\ UNCHANGED <<registered, stray, unsure, fails>>
    BY DEF HandleEnd, CallsDeregister, Deregisters
  <1>3. /\ end \in Call /\ end.ctr = c /\ end.ports = Absent
    BY <1>1 DEF Call
  <1> HIDE DEF end, action
  (* What happens to the registry. *)
  <1>4. /\ registered' \in [Ctr -> Ports \cup {Absent}]
        /\ \A d \in Ctr : registered'[d] \in {registered[d], Absent}
        /\ \A d \in Ctr \ {c} : registered'[d] = registered[d]
        /\ c \notin unsure' => registered'[c] = Absent
        /\ unsure' \in SUBSET Ctr /\ unsure \ {c} = unsure' \ {c}
    <2>1. label[c] = "none" => registered[c] = Absent
      BY DEF IInv, LabelsObeyed
    <2> QED
      BY <1>2, <1>3, <2>1 DEF CallFails, IInv, TypeOK
  <1>5. /\ stray' \in SUBSET Call /\ fails' \in 0 .. MaxFails
        /\ \A call \in stray' : call \in stray \/ call.ports = Absent
    BY <1>2, <1>3, Bounds DEF CallFails, Fails, IInv, TypeOK
  <1>6. TypeOK'
    BY <1>1, <1>4, <1>5, TailTypes DEF IInv, TypeOK
  <1>7. PortsPast' /\ LabelsObeyed'
    BY <1>1, <1>4, <1>5 DEF IInv, PortsPast, LabelsObeyed
  <1>8. NotWatching' /\ Coherent' /\ HandlerFresh'
    BY <1>1, SentinelAssumption
    DEF Running, IInv, NotWatching, Coherent, HandlerFresh, Idle
  <1>9. ASSUME agent = "watching"
        PROVE  /\ LastEventTells'
               /\ action # "stop" => Queued(c)' \/ Tells(action, c)
               /\ \A d \in Ctr : d # c => Queued(d)' = Queued(d)
    BY <1>1, <1>9, QueueShrinks DEF IInv, action
  <1>10. RightAhead'
    <2> SUFFICES ASSUME agent = "watching", NEW d \in Ctr \ unsure', ~Queued(d)'
                 PROVE  Right(d)' \/ JobAhead(d)'
      BY <1>1 DEF RightAhead
    <2>1. CASE d = c /\ ctr[c] = "up"
      <3>1. action = "stop"
        BY <1>1, <1>9, <2>1 DEF Tells
      <3>2. (~CallFails(end) /\ ~Overtaken(action, c)) \/ label[c] = "none"
        BY <1>2, <1>3, <2>1 DEF CallFails
      <3>3. Overtaken(action, c)
        BY <2>1, <3>1 DEF Overtaken
      <3>4. label[c] = "none" /\ c \notin unsure
        BY <1>2, <1>3, <2>1, <3>3 DEF CallFails
      <3>5. ~Queued(c)
        BY <1>1, <2>1, <3>1, QueueShrinks DEF IInv, action
      <3>6. Right(c) \/ JobAhead(c)
        BY <1>1, <3>4, <3>5, SentinelAssumption DEF IInv, RightAhead, Idle
      <3>7. registered'[c] = registered[c]
        BY <1>4, <2>1, <3>4 DEF IInv, LabelsObeyed
      <3> QED
        BY <1>1, <2>1, <3>6, <3>7, RightIs DEF JobAhead
    <2>2. CASE d = c /\ ctr[c] # "up"
      BY <1>1, <1>4, <2>2, RightIs
    <2>3. CASE d # c
      <3>1. d \notin unsure /\ registered'[d] = registered[d]
        BY <1>4, <2>3
      <3>2. Right(d) \/ JobAhead(d)
        BY <1>1, <1>9, <2>3, <3>1, SentinelAssumption DEF IInv, RightAhead, Idle
      <3> QED
        BY <1>1, <3>1, <3>2, RightIs DEF JobAhead
    <2> QED
      BY <2>1, <2>2, <2>3
  <1>11. LastEventTells'
    BY <1>1, <1>9 DEF LastEventTells
  <1> QED
    BY <1>6, <1>7, <1>8, <1>10, <1>11 DEF IInv

(* Docker.  A container that changes has its event queued, or is gone for good. *)
LEMMA DockerMoves ==
  ASSUME IInv, NEW c \in Ctr, agent' = agent,
         Create(c) \/ Start(c) \/ Die(c) \/ LogStop(c) \/ Remove(c)
  PROVE  /\ stopping' \in SUBSET Ctr
         /\ ctr' \in [Ctr -> {"none", "created", "up", "down", "gone"}]
         /\ starts' \in [Ctr -> Ports]
         /\ events' \in Seq([action : Action, ctr : Ctr])
         /\ Coherent'
         /\ \A d \in Ctr : starts[d] <= starts'[d]
         /\ \A d \in Ctr \ {c} : ctr'[d] = ctr[d] /\ starts'[d] = starts[d]
         /\ ~Running => events' = events
         /\ agent = "watching" =>
               /\ LastEventTells'
               /\ \A d \in Ctr \ {c} : Queued(d)' = Queued(d)
               /\ \/ Queued(c)'
                  \/ /\ Queued(c)' = Queued(c) /\ starts' = starts
                     /\ \/ ctr[c] # "up" /\ ctr'[c] = "gone" /\ Remove(c)
                        \/ ctr' = ctr
  <1> USE Types DEF IInv
  <1>1. ASSUME NEW action \in Action, Emit(action, c)
        PROVE  /\ events' \in Seq([action : Action, ctr : Ctr])
               /\ ~Running => events' = events
    <2>1. events \in Seq(Event) /\ [action |-> action, ctr |-> c] \in Event
      BY EventTypes DEF Event
    <2>2. Append(events, [action |-> action, ctr |-> c]) \in Seq(Event)
      BY <2>1
    <2>3. events' \in Seq(Event)
      BY <1>1, <2>1, <2>2 DEF Emit
    <2> QED
      BY <1>1, <2>3 DEF Emit, Event
  <1>2. ASSUME NEW action \in {"create", "start", "die"}, Emit(action, c),
               Tells(action, c)', agent = "watching",
               \A d \in Ctr \ {c} : ctr'[d] = ctr[d] /\ starts'[d] = starts[d]
        PROVE  /\ LastEventTells' /\ Queued(c)'
               /\ \A d \in Ctr \ {c} : Queued(d)' = Queued(d)
    <2>1. events' = Append(events, [action |-> action, ctr |-> c])
      BY <1>2 DEF Emit, Running
    <2> QED
      BY <1>2, <2>1, QueueGrows
  <1>3. CASE Create(c)
    <2>1. /\ ctr' = [ctr EXCEPT ![c] = "created"] /\ starts' = starts
          /\ Emit("create", c) /\ ctr[c] = "none"
      BY <1>3 DEF Create
    <2>2. Tells("create", c)' /\ Coherent'
      BY <2>1 DEF Tells, Coherent, TypeOK
    <2>3. stopping' = stopping
      BY <1>3 DEF Create
    <2> QED
      BY <1>1, <1>2, <2>1, <2>2, <2>3 DEF TypeOK, Action
  <1>4. CASE Start(c)
    <2>1. /\ ctr' = [ctr EXCEPT ![c] = "up"] /\ starts' = [starts EXCEPT ![c] = @ + 1]
          /\ Emit("start", c) /\ starts[c] < MaxStarts
      BY <1>4 DEF Start
    <2>2. starts' \in [Ctr -> Ports]
      BY <2>1, Bounds DEF Ports, TypeOK
    <2>3. Tells("start", c)' /\ Coherent'
      BY <2>1 DEF Tells, Coherent, TypeOK
    <2>4. stopping' = stopping
      BY <1>4 DEF Start
    <2> QED
      BY <1>1, <1>2, <2>1, <2>2, <2>3, <2>4 DEF TypeOK, Action
  <1>5. CASE Die(c)
    <2>1. /\ ctr' = [ctr EXCEPT ![c] = "down"] /\ starts' = starts
          /\ Emit("die", c) /\ ctr[c] = "up"
      BY <1>5 DEF Die
    <2>2. Tells("die", c)' /\ Coherent'
      BY <2>1 DEF Tells, Coherent, TypeOK
    <2>3. stopping' \in SUBSET Ctr
      BY <1>5 DEF Die, TypeOK
    <2> QED
      BY <1>1, <1>2, <2>1, <2>2, <2>3 DEF TypeOK, Action
  <1>6. CASE LogStop(c)
    <2>1. UNCHANGED <<ctr, starts>> /\ Emit("stop", c) /\ stopping' \in SUBSET Ctr
      BY <1>6 DEF LogStop, TypeOK
    <2>2. Coherent'
      BY <2>1 DEF Coherent
    <2>3. ASSUME agent = "watching"
          PROVE  LastEventTells' /\ \A d \in Ctr : Queued(d)' = Queued(d)
      <3>1. events' = Append(events, [action |-> "stop", ctr |-> c])
        BY <2>1, <2>3 DEF Emit, Running
      <3> QED
        BY <2>1, <2>3, <3>1, StopQueued
    <2> QED
      BY <1>1, <2>1, <2>2, <2>3 DEF TypeOK, Action
  <1>7. CASE Remove(c)
    <2>1. /\ ctr' = [ctr EXCEPT ![c] = "gone"] /\ starts' = starts
          /\ ctr[c] = "up" => Emit("die", c)
          /\ ctr[c] # "up" => events' = events
          /\ stopping' = stopping
      BY <1>7 DEF Remove
    <2>2. Coherent'
      BY <2>1 DEF Coherent, TypeOK
    <2>3. CASE ctr[c] = "up"
      <3>1. Tells("die", c)'
        BY <2>1, <2>3 DEF Tells, Coherent, TypeOK
      <3> QED
        BY <1>1, <1>2, <2>1, <2>2, <2>3, <3>1 DEF TypeOK, Action
    <2>4. CASE ctr[c] # "up"
      <3>1. ASSUME agent = "watching" PROVE LastEventTells'
        <4>1. ASSUME NEW i \in DOMAIN events, Tells(events[i].action, events[i].ctr)
              PROVE  Tells(events[i].action, events[i].ctr)'
          BY <2>1, <2>4, <4>1 DEF Tells, TypeOK
        <4> QED
          BY <2>1, <2>4, <3>1, <4>1 DEF LastEventTells, Tells
      <3>2. \A d \in Ctr : Queued(d)' = Queued(d)
        BY <2>1, <2>4 DEF Queued
      <3> QED
        BY <1>7, <2>1, <2>2, <2>4, <3>1, <3>2 DEF TypeOK
    <2> QED
      BY <2>3, <2>4
  <1> QED
    BY <1>3, <1>4, <1>5, <1>6, <1>7

(* What has been inspected, is registered or is on its way stays past. *)
LEMMA PortsPastGrows ==
  ASSUME IInv, starts' \in [Ctr -> Ports], \A d \in Ctr : starts[d] <= starts'[d],
         registered' = registered, stray' = stray,
         \A g \in Goroutine : work'[g] \in {work[g], Idle}
  PROVE  PortsPast'
  <1>1. \A d \in Ctr : starts'[d] \in Nat
    BY Types DEF IInv
  <1>2. \A d \in Ctr : registered'[d] # Absent => registered'[d] <= starts'[d]
    BY <1>1, Types DEF IInv, PortsPast
  <1>3. \A g \in Goroutine : work'[g] # Idle => work'[g].ports <= starts'[work'[g].ctr]
    BY <1>1, Working, Types DEF IInv
  <1>4. ASSUME NEW call \in stray, call.ports # Absent
        PROVE  call.ports <= starts'[call.ctr]
    <2>1. call.ctr \in Ctr /\ call.ports \in Nat
      BY <1>4, Types DEF IInv, TypeOK, Call
    <2> QED
      BY <1>1, <1>4, <2>1, Types DEF IInv, PortsPast
  <1> QED
    BY <1>2, <1>3, <1>4 DEF PortsPast

LEMMA ContainerStepKeeps ==
  ASSUME IInv, ContainerStep
  PROVE  IInv'
  <1>1. PICK c \in Ctr : \/ Create(c) \/ Start(c) \/ Die(c) \/ LogStop(c)
                         \/ ctr[c] \in {"created", "down"} /\ Remove(c)
    BY DEF ContainerStep
  <1>2. UNCHANGED <<label, agent, job, todo, work, registered, stray, unsure, fails, exits>>
    BY DEF ContainerStep
  <1>3. Create(c) \/ Start(c) \/ Die(c) \/ LogStop(c) \/ Remove(c)
    BY <1>1
  <1>4. TypeOK' /\ Coherent'
    BY <1>2, <1>3, DockerMoves DEF IInv, TypeOK
  <1>5. PortsPast'
    BY <1>2, <1>3, DockerMoves, PortsPastGrows
  <1>6. NotWatching' /\ LabelsObeyed'
    BY <1>2, <1>3, DockerMoves, LabelsSame DEF IInv, NotWatching, Running
  <1>7. ASSUME agent = "watching"
        PROVE  /\ LastEventTells'
               /\ \A d \in Ctr \ {c} : /\ ctr'[d] = ctr[d] /\ starts'[d] = starts[d]
                                       /\ Queued(d)' = Queued(d)
               /\ \/ Queued(c)'
                  \/ /\ \/ ctr[c] \in {"created", "down"} /\ ctr'[c] = "gone"
                        \/ ctr'[c] = ctr[c]
                     /\ starts'[c] = starts[c] /\ Queued(c)' = Queued(c)
    <2>1. /\ LastEventTells'
          /\ \A d \in Ctr \ {c} : Queued(d)' = Queued(d)
          /\ \/ Queued(c)'
             \/ /\ Queued(c)' = Queued(c) /\ starts' = starts
                /\ \/ ctr[c] # "up" /\ ctr'[c] = "gone" /\ Remove(c)
                   \/ ctr' = ctr
      BY <1>2, <1>3, <1>7, DockerMoves
    <2>2. ctr'[c] = "gone" => ctr[c] \in {"created", "down"} \/ ctr' = ctr
      BY <1>1 DEF Create, Start, Die, LogStop, IInv, TypeOK
    <2> QED
      BY <1>2, <1>3, <2>1, <2>2, DockerMoves
  <1>8. HandlerFresh'
    <2> SUFFICES ASSUME agent = "watching", NEW d \in Ctr, work["handler"].ctr = d,
                        ~Queued(d)'
                 PROVE  Fresh(d)'
      BY <1>2 DEF HandlerFresh
    <2>1. Queued(d) \/ Fresh(d)
      BY DEF IInv, HandlerFresh
    <2> QED
      BY <1>2, <1>7, <2>1 DEF Fresh, IInv, TypeOK
  <1>9. RightAhead'
    <2> SUFFICES ASSUME agent = "watching", NEW d \in Ctr \ unsure, ~Queued(d)',
                        work["handler"].ctr # d
                 PROVE  Right(d)' \/ JobAhead(d)'
      BY <1>2 DEF RightAhead
    <2>1. CASE d = c
      <3>1. /\ \/ ctr[d] \in {"created", "down"} /\ ctr'[d] = "gone"
               \/ ctr'[d] = ctr[d]
            /\ starts'[d] = starts[d] /\ ~Queued(d)
        BY <1>7, <2>1
      <3>2. Right(d) \/ JobAhead(d)
        BY <3>1 DEF IInv, RightAhead
      <3> QED
        BY <1>2, <3>1, <3>2, RightIs DEF JobAhead
    <2>2. CASE d # c
      <3>1. ctr'[d] = ctr[d] /\ starts'[d] = starts[d] /\ ~Queued(d)
        BY <1>7, <2>2
      <3>2. Right(d) \/ JobAhead(d)
        BY <3>1 DEF IInv, RightAhead
      <3> QED
        BY <1>2, <3>1, <3>2, RightIs DEF JobAhead
    <2> QED
      BY <2>1, <2>2
  <1>10. LastEventTells'
    BY <1>2, <1>7 DEF LastEventTells
  <1> QED
    BY <1>4, <1>5, <1>6, <1>8, <1>9, <1>10 DEF IInv

(* The end of a goroutine's work on a container. *)
LEMMA FinishKeeps ==
  ASSUME IInv, NEW g \in Goroutine, Finish(g), NEW c \in Ctr, c = work[g].ctr
  PROVE  IInv'
  <1>1. /\ Running /\ work[g] # Idle
        /\ work' = [work EXCEPT ![g] = Idle]
        /\ UNCHANGED <<agent, job, todo, exits>>
        /\ Register(g) \/ RegisterFails(g) \/ Reject(g) \/ RejectFails(g)
        /\ label' = label
    BY DEF Finish, Register, RegisterFails, Reject, RejectFails, docker
  <1>2. /\ work' \in [Goroutine -> Inspected \cup {Idle}]
        /\ work'[g] = Idle
        /\ \A h \in Goroutine : work'[h] \in {work[h], Idle}
        /\ \A h \in Goroutine \ {g} : work'[h] = work[h]
        /\ "handler" \in Goroutine /\ "job" \in Goroutine
    BY <1>1 DEF IInv, TypeOK, Goroutine
  <1>3. NotWatching'
    BY <1>1 DEF Running, NotWatching
  <1>4. /\ work[g].ports \in Ports /\ work[g].ports \in Nat
        /\ work[g].ports <= starts[c] /\ work[g] \in Call
    BY <1>1, Working
  (* Another container loses nothing of what is ahead of it. *)
  <1>5. ASSUME NEW d \in Ctr \ {c}, ctr'[d] = ctr[d], starts'[d] = starts[d]
        PROVE  /\ work["handler"].ctr = d => work'["handler"] = work["handler"]
               /\ JobAhead(d) => JobAhead(d)'
    <2>1. work[g].ctr # d
      BY <1>5
    <2>2. \A h \in Goroutine : work[h].ctr = d => work'[h] = work[h]
      BY <1>2, <2>1
    <2> QED
      BY <1>1, <1>2, <1>5, <2>2 DEF JobAhead
  <1>6. ASSUME NEW d \in Ctr \ {c}, registered'[d] = registered[d], d \notin unsure,
               ctr'[d] = ctr[d], starts'[d] = starts[d], Queued(d)' = Queued(d),
               agent = "watching"
        PROVE  \/ Right(d)' \/ Queued(d)' \/ work'["handler"].ctr = d \/ JobAhead(d)'
    <2>1. Right(d) \/ Queued(d) \/ work["handler"].ctr = d \/ JobAhead(d)
      BY <1>6 DEF IInv, RightAhead
    <2> QED
      BY <1>1, <1>5, <1>6, <2>1, RightIs
  <1>7. CASE Register(g)
    <2>1. /\ c \in Trusted
          /\ \/ /\ label[c] = "valid"
                /\ registered' = [registered EXCEPT ![c] = work[g].ports]
                /\ unsure' = IF Outdated(g, c) THEN unsure \cup {c} ELSE unsure \ {c}
             \/ label[c] # "valid" /\ UNCHANGED <<registered, unsure>>
          /\ UNCHANGED <<label, ctr, starts, stopping, events, stray, fails>>
      BY <1>7 DEF Register, Registrable, docker
    <2>2. TypeOK'
      BY <1>1, <1>2, <1>4, <2>1 DEF IInv, TypeOK
    <2>3. PortsPast' /\ LabelsObeyed'
      BY <1>2, <1>4, <2>1 DEF IInv, TypeOK, PortsPast, LabelsObeyed
    <2>4. \A d \in Ctr : Queued(d)' = Queued(d)
      BY <2>1 DEF Queued
    <2>5. RightAhead'
      <3> SUFFICES ASSUME agent = "watching", NEW d \in Ctr \ unsure'
                   PROVE  \/ Right(d)' \/ Queued(d)' \/ work'["handler"].ctr = d
                          \/ JobAhead(d)'
        BY <1>1 DEF RightAhead
      <3>1. CASE d # c
        <4>1. d \notin unsure /\ registered'[d] = registered[d]
          BY <2>1, <3>1 DEF IInv, TypeOK
        <4> QED
          BY <1>6, <2>1, <2>4, <3>1, <4>1
      <3>2. CASE d = c /\ label[c] = "valid"
        <4>1. registered'[c] = work[g].ports /\ ~Outdated(g, c)
          BY <2>1, <3>2 DEF IInv, TypeOK
        <4>2. CASE g = "job"
          BY <1>1, <2>1, <3>2, <4>1, <4>2, RightIs DEF Outdated
        <4>3. CASE g = "handler"
          <5>1. Queued(c) \/ Fresh(c)
            BY <4>3 DEF IInv, HandlerFresh
          <5>2. Fresh(c) => Right(c)'
            BY <1>1, <1>4, <2>1, <3>2, <4>1, <4>3, RightIs DEF Fresh
          <5> QED
            BY <2>4, <3>2, <5>1, <5>2
        <4> QED
          BY <4>2, <4>3 DEF Goroutine
      (* Without the labels it is not registered, which is right while it runs. *)
      <3>3. CASE d = c /\ label[c] # "valid"
        <4>1. registered'[c] = Absent /\ registered[c] = Absent
          BY <2>1, <3>3 DEF IInv, LabelsObeyed
        <4> QED
          BY <2>1, <3>3, <4>1, RightIs
      <3> QED
        BY <3>1, <3>2, <3>3
    <2> QED
      BY <1>1, <1>2, <1>3, <2>1, <2>2, <2>3, <2>5, DockerSame, HandlerFreshSame DEF IInv
  <1>8. CASE RegisterFails(g) \/ RejectFails(g)
    <2>1. /\ UNCHANGED <<label, ctr, starts, stopping, events>>
          /\ unsure' = unsure \cup {c} /\ fails' \in 0 .. MaxFails
          /\ \/ UNCHANGED <<registered, stray>>
             \/ /\ label[c] = "valid"
                /\ \/ registered' = registered
                   \/ registered' = [registered EXCEPT ![c] = work[g].ports]
                /\ stray' \in {stray, stray \cup {work[g]}}
      BY <1>8, Bounds
      DEF RegisterFails, RejectFails, Registrable, CallFails, Fails, docker, IInv, TypeOK
    <2>2. TypeOK'
      BY <1>1, <1>2, <1>4, <2>1 DEF IInv, TypeOK
    <2>3. PortsPast' /\ LabelsObeyed'
      BY <1>2, <1>4, <2>1 DEF IInv, TypeOK, PortsPast, LabelsObeyed
    <2>4. \A d \in Ctr : Queued(d)' = Queued(d)
      BY <2>1 DEF Queued
    <2>5. \A d \in Ctr \ unsure' :
             d # c /\ d \notin unsure /\ registered'[d] = registered[d]
      BY <2>1 DEF IInv, TypeOK
    <2>6. RightAhead'
      BY <1>1, <1>6, <2>1, <2>4, <2>5 DEF RightAhead
    <2> QED
      BY <1>1, <1>2, <1>3, <2>1, <2>2, <2>3, <2>6, DockerSame, HandlerFreshSame DEF IInv
  <1>9. CASE Reject(g)
    <2>1. /\ Remove(c) /\ UNCHANGED <<label, registered, stray, unsure>>
          /\ fails' \in 0 .. MaxFails
      BY <1>9, Bounds DEF Reject, Fails, IInv, TypeOK
    <2>2. /\ TypeOK' /\ Coherent' /\ PortsPast' /\ LabelsObeyed'
      <3>1. Coherent' /\ PortsPast'
        BY <1>1, <1>2, <2>1, DockerMoves, PortsPastGrows
      <3> QED
        BY <1>1, <1>2, <2>1, <3>1, DockerMoves, LabelsSame DEF IInv, TypeOK
    <2>3. /\ \A d \in Ctr \ {c} : ctr'[d] = ctr[d] /\ starts'[d] = starts[d]
          /\ starts' = starts /\ ctr'[c] = "gone"
      BY <1>1, <2>1, DockerMoves DEF Remove, IInv, TypeOK
    <2>4. ASSUME agent = "watching"
          PROVE  /\ LastEventTells'
                 /\ \A d \in Ctr \ {c} : Queued(d)' = Queued(d)
                 /\ \/ Queued(c)'
                    \/ ctr[c] # "up" /\ Queued(c)' = Queued(c)
      <3>1. ctr'[c] = "gone"
        BY <2>3
      <3>2. ctr[c] = "up" => ctr' # ctr
        BY <3>1
      <3> QED
        BY <1>1, <2>1, <2>4, <3>2, DockerMoves
    <2>5. HandlerFresh'
      <3> SUFFICES ASSUME agent = "watching", NEW d \in Ctr, work'["handler"].ctr = d,
                          ~Queued(d)'
                   PROVE  Fresh(d)'
        BY <1>1 DEF HandlerFresh
      <3>1. work'["handler"] = work["handler"]
        BY <1>2, SentinelAssumption DEF Idle
      <3>2. Queued(d) \/ Fresh(d)
        BY <3>1 DEF IInv, HandlerFresh
      <3> QED
        BY <2>3, <2>4, <3>1, <3>2 DEF Fresh
    <2>6. RightAhead'
      <3> SUFFICES ASSUME agent = "watching", NEW d \in Ctr \ unsure
                   PROVE  \/ Right(d)' \/ Queued(d)' \/ work'["handler"].ctr = d
                          \/ JobAhead(d)'
        BY <1>1, <2>1 DEF RightAhead
      <3>1. CASE d # c
        BY <1>6, <2>1, <2>3, <2>4, <3>1
      <3>2. CASE d = c /\ ~Queued(c)'
        <4>1. ctr[c] # "up" /\ ~Queued(c)
          BY <2>4, <3>2
        <4>2. CASE work["handler"].ctr = c
          <5>1. starts[c] = 0
            BY <4>1, <4>2 DEF IInv, HandlerFresh, Fresh
          <5>2. registered[c] = Absent \/ registered[c] = 0
            BY <5>1, Types DEF IInv, PortsPast
          <5> QED
            BY <2>1, <2>3, <3>2, <5>1, <5>2, RightIs
        <4>3. CASE Right(c)
          BY <2>1, <2>3, <3>2, <4>1, <4>3, RightIs
        <4> QED
          BY <3>2, <4>1, <4>2, <4>3 DEF IInv, RightAhead, JobAhead
      <3> QED
        BY <3>1, <3>2
    <2>7. LastEventTells'
      BY <1>1, <2>4 DEF LastEventTells
    <2> QED
      BY <1>3, <2>2, <2>5, <2>6, <2>7 DEF IInv
  <1> QED
    BY <1>1, <1>7, <1>8, <1>9
-----------------------------------------------------------------------------
(* The theorems *)

(* The invariant is inductive. *)
LEMMA NextKeeps == IInv /\ [Next]_vars => IInv'
  <1> SUFFICES ASSUME IInv, [Next]_vars PROVE IInv'
    OBVIOUS
  <1>1. CASE ContainerStep
    BY <1>1, ContainerStepKeeps
  <1>2. ASSUME NEW g \in Goroutine, Finish(g) PROVE IInv'
    <2>1. work[g].ctr \in Ctr
      BY <1>2, Working DEF Finish
    <2> QED
      BY <1>2, <2>1, FinishKeeps
  <1>3. CASE HandleStart \/ HandleEnd
    <2>1. Head(events).ctr \in Ctr
      BY <1>3, EventTypes DEF HandleStart, HandleEnd, HandlerReady, IInv
    <2> QED
      BY <1>3, <2>1, HandleStartKeeps, HandleEndKeeps
  <1>4. CASE JobStep
    BY <1>4, JobListKeeps, JobInspectKeeps, JobInspectFailsKeeps DEF JobStep
  <1>5. CASE StartAgent \/ Watch \/ Interrupt \/ Exit
    BY <1>5, StartAgentKeeps, WatchKeeps, InterruptKeeps, ExitKeeps
  <1>6. CASE (\E call \in stray : StrayLands(call)) \/ LoseLease
    BY <1>6, StrayLandsKeeps, LoseLeaseKeeps
  <1>7. CASE UNCHANGED vars
    BY <1>7
    DEF vars, docker, IInv, TypeOK, Coherent, LabelsObeyed, PortsPast, NotWatching,
        LastEventTells, Tells, Queued, HandlerFresh, Fresh, RightAhead, Right, Registrable,
        JobAhead
  <1> QED
    BY <1>1, <1>2, <1>3, <1>4, <1>5, <1>6, <1>7 DEF Next

LEMMA Invariance == Spec => []IInv
  BY InitIInv, NextKeeps, PTL DEF Spec

(* The containers, the events, what each goroutine has inspected and what is        *)
(* registered stay well formed, whatever fails.                                     *)
THEOREM TypeCorrect == Spec => []TypeOK
  <1>1. IInv => TypeOK
    BY DEF IInv
  <1> QED
    BY <1>1, Invariance, PTL

(* When the agent has handled all it has to, the registry lists the accepted         *)
(* containers that run and have the labels for it, with their last ports, and no     *)
(* others, except for those that the agent is known to have wronged.                 *)
THEOREM SettledIsRight == Spec => []SettledRight
  <1>1. IInv => SettledRight
    <2> SUFFICES ASSUME IInv, Settled, NEW c \in Ctr \ unsure
                 PROVE  Right(c)
      BY DEF SettledRight
    <2>1. Right(c) \/ Queued(c) \/ work["handler"].ctr = c \/ JobAhead(c)
      BY DEF IInv, RightAhead, Settled
    <2>2. ~Queued(c)
      BY DEF Settled, Queued
    <2>3. work["handler"].ctr # c /\ work["job"].ctr # c
      BY SentinelAssumption DEF Settled, JobDone, Idle
    <2>4. ~JobAhead(c)
      BY <2>3 DEF Settled, JobDone, JobAhead
    <2> QED
      BY <2>1, <2>2, <2>3, <2>4
  <1> QED
    BY <1>1, Invariance, PTL
==============================================================================
