---------------------------- MODULE MCClusterJoin ----------------------------
(* A founder and two registries that join through it, as in the stacks.      *)
EXTENDS ClusterJoin

CONSTANTS r1, r2, r3

MCRegistry == {r1, r2, r3}
MCJoinUrl == [r \in MCRegistry |-> IF r = r1 THEN None ELSE r1]
=============================================================================
