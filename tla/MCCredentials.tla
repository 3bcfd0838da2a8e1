--------------------------- MODULE MCCredentials ---------------------------
(* A datacenter whose name is shorter than "Agents".                         *)
EXTENDS Credentials

MCAgents == [length |-> 6, rank |-> 1]
MCDatacenter == [length |-> 4, rank |-> 2]
=============================================================================
