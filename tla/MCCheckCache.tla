---------------------------- MODULE MCCheckCache ----------------------------
(* Instances of CheckCache for TLC. *)
EXTENDS CheckCache, TLC

CONSTANTS p1, p2, topo, host

(* Two invocations at once. *)
Two == {p1, p2}
One == {p1}

(* Invocations are interchangeable. *)
Symmetry == Permutations(Procs)
=============================================================================
