----------------------------- MODULE MCAgentAPI -----------------------------
(* Small instances of AgentAPI and of its refinement of Directory. *)
EXTENDS AgentDirectory, TLC

Symmetry == Permutations(Lease) \cup Permutations(Svc) \cup Permutations(Call) \cup Permutations(ServiceSpec)
                \cup Permutations(Node)
=============================================================================
