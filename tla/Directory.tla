------------------------------ MODULE Directory ------------------------------
(***************************************************************************)
(* What the registry promises its agents, whatever happens to etcd leases  *)
(* underneath: a directory of the services of every node in which          *)
(*                                                                         *)
(*   - every call takes effect at one instant between its invocation and   *)
(*     its answer, or not at all, and never when it answers "ok" without   *)
(*     having taken effect (the directory is linearizable);                *)
(*   - a node's services are lost all together, never one by one: the      *)
(*     directory forgets a whole node, because the node was reset or       *)
(*     because it stopped renewing its lease.                              *)
(*                                                                         *)
(* AgentAPI is shown to implement this specification.                      *)
(***************************************************************************)
EXTENDS Rpc

CONSTANT Absent   \* no service registered under this name

VARIABLES
    dir,      \* dir[n][k]: what node n has registered as service k
    phase,    \* how far each call has got
    req,      \* the request each running call carries
    answer    \* what the last call with this identity was told

vars == <<dir, phase, req, answer>>

Phase == {"idle", "pending", "applied"}

Answer == {"none", "ok", "error"}

TypeOK ==
    /\ dir \in [Node -> [Svc -> ServiceSpec \cup {Absent}]]
    /\ phase \in [Call -> Phase]
    /\ req \in [Call -> Request \cup {NoRequest}]
    /\ answer \in [Call -> Answer]

Nothing == [k \in Svc |-> Absent]

Init ==
    /\ dir = [n \in Node |-> Nothing]
    /\ phase = [c \in Call |-> "idle"]
    /\ req = [c \in Call |-> NoRequest]
    /\ answer = [c \in Call |-> "none"]

Invoke(c, r) ==
    /\ phase[c] = "idle"
    /\ phase' = [phase EXCEPT ![c] = "pending"]
    /\ req' = [req EXCEPT ![c] = r]
    /\ answer' = [answer EXCEPT ![c] = "none"]
    /\ UNCHANGED dir

\* The directory after request r of a call that names at most one service.
Effect(r) ==
    CASE r.op = "register"   -> [dir EXCEPT ![r.node][r.svc] = r.spec]
      [] r.op = "deregister" -> [dir EXCEPT ![r.node][r.svc] = Absent]
      [] r.op = "heartbeat"  -> dir

Execute(c) ==
    /\ phase[c] = "pending"
    /\ req[c].op # "reset"
    /\ phase' = [phase EXCEPT ![c] = "applied"]
    /\ dir' = Effect(req[c])
    /\ UNCHANGED <<req, answer>>

PendingResets(n) ==
    {c \in Call : phase[c] = "pending" /\ req[c] = [op |-> "reset", node |-> n]}

\* Node n is forgotten.  Any pending resets of n may take this as their effect;
\* with R = {} the node was lost.
Clear(n, R) ==
    /\ R \subseteq PendingResets(n)
    /\ dir' = [dir EXCEPT ![n] = Nothing]
    /\ phase' = [c \in Call |-> IF c \in R THEN "applied" ELSE phase[c]]
    /\ UNCHANGED <<req, answer>>

Return(c, a) ==
    /\ \/ phase[c] = "applied" /\ a \in {"ok", "error"}
       \/ phase[c] = "pending" /\ a = "error"
    /\ phase' = [phase EXCEPT ![c] = "idle"]
    /\ req' = [req EXCEPT ![c] = NoRequest]
    /\ answer' = [answer EXCEPT ![c] = a]
    /\ UNCHANGED dir

Next ==
    \/ \E c \in Call :
          \/ \E r \in Request : Invoke(c, r)
          \/ Execute(c)
          \/ \E a \in Answer : Return(c, a)
    \/ \E n \in Node, R \in SUBSET Call : Clear(n, R)

Spec == Init /\ [][Next]_vars
=============================================================================
