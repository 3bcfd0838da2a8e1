--------------------------- MODULE MCObserverSync ---------------------------
(* Small instances of ObserverSync. *)
EXTENDS ObserverSync, TLC

Symmetry == Permutations(Svc) \cup Permutations(Port)
=============================================================================
