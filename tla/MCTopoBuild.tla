---------------------------- MODULE MCTopoBuild ----------------------------
(* Instances of TopoBuild for TLC. *)
EXTENDS TopoBuild, TLC

CONSTANTS p1, p2, a, b

Plain == [audit |-> FALSE, java |-> FALSE, evidence |-> FALSE, check |-> FALSE,
          incremental |-> TRUE, clean |-> FALSE]
Java == [Plain EXCEPT !.java = TRUE]
Audit == [Plain EXCEPT !.audit = TRUE, !.java = TRUE, !.check = TRUE, !.clean = TRUE]

PlainRecipes == {Plain}

(* Two that use the frontend cache, each with a fingerprint of its own, and one
   that cleans it, has the lock and binds a check model. *)
AllRecipes == {Plain, Java, Audit}

(* Invocations are interchangeable. *)
Symmetry == Permutations(Procs)
=============================================================================
