----------------------------- MODULE MCFilePool -----------------------------
(* Instances of FilePool for TLC. *)
EXTENDS FilePool

(* Every call of fn may throw. *)
AnyFile == 0 .. N - 1
=============================================================================
