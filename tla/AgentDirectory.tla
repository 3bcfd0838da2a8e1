--------------------------- MODULE AgentDirectory ---------------------------
(***************************************************************************)
(* AgentAPI implements Directory: seen by their clients, the handlers act  *)
(* on one directory, atomically, although each takes several etcd          *)
(* requests and leases end underneath.                                     *)
(***************************************************************************)
EXTENDS AgentAPI

CONSTANT Absent

ASSUME AbsentAssumption == Absent \notin ServiceSpec

DirectoryView ==
    [n \in Node |-> [k \in Svc |->
        IF svcIndex[n][k] = NoEntry THEN Absent ELSE svcIndex[n][k].spec]]

\* A reset has had its effect as soon as the lease it read has ended, whoever
\* ended it: a service registered after that, under a new lease, survives it.
ResetOvertaken(c) ==
    /\ req[c] \in ResetRequest
    /\ pc[c] \in {"revoke", "done"}
    /\ lease[c] \in Lease \ live

Applied(c) ==
    \/ At(c, "done") /\ reply[c] \in {"ok", "unknown"}
    \/ ResetOvertaken(c)

Progress ==
    [c \in Call |-> IF At(c, "idle") THEN "idle"
                    ELSE IF Applied(c) THEN "applied" ELSE "pending"]

D == INSTANCE Directory WITH dir <- DirectoryView, phase <- Progress

\* What a reset knows: it holds a lease that was recorded, and as long as that lease is
\* alive it still is, since RecordLease replaces none that is.
ResetsSound ==
    /\ \A n \in Node : record[n].version # 0 => record[n].lease \in Lease
    /\ \A c \in Call :
          /\ pc[c] \in {"cas", "revoke"} => lease[c] \in Lease
          /\ pc[c] \in {"idle", "find"} => lease[c] = NoLease
          /\ req[c] \in ResetRequest /\ pc[c] \in {"revoke", "done"} /\ lease[c] \in live
                 => record[req[c].node].lease = lease[c]

\* Every behaviour of the handlers is one of the directory: each call takes
\* effect once, between its invocation and its answer, a call answered ok took
\* effect, and services vanish unasked only with all of their node's.
ImplementsDirectory == D!Spec
=============================================================================
