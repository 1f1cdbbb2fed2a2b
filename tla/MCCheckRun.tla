----------------------------- MODULE MCCheckRun -----------------------------
(* Small instances of CheckRun. *)
EXTENDS CheckRun

(* --check containment, and a --filter that matches no check. *)
SomeSelections == {{}, {"containment"}}
SomeOffs == {{}, {"containment", "purity"}}
=============================================================================
