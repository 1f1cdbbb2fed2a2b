---------------------------- MODULE MCAuditFacts ----------------------------
(* A small instance of AuditFacts: Topo.toml, a .topo file and a source. *)
EXTENDS AuditFacts, TLC

CONSTANTS a1, a2, toml, topo, src
TwoAudits == {a1, a2}
ThreeInputs == {toml, topo, src}
OneConfiguration == {toml}
OneDeclaration == {topo}
Symmetry == Permutations(TwoAudits)

(* Bounds: while two audits overlap one of the files is edited; a store that has
   been damaged, or more files edited, are met by one audit at a time. *)
OneEdit == \A f, g \in Inputs : f # g => input[f] = 0 \/ input[g] = 0
Alone == \E a \in Audits : at[a] = "idle" /\ exit[a] = Running
Bounded == IF damages = 0 THEN OneEdit \/ Alone ELSE OneEdit /\ Alone
=============================================================================
