---------------------------- MODULE MCAuditTrust ----------------------------
(* Small instances of AuditTrust. *)
EXTENDS AuditTrust, TLC

CONSTANTS r1, r2, a1, p1, d1

TwoReviewers == {r1, r2}
OneAuditor == {a1}
OneProject == {p1}
OneDep == {d1}
NothingDenied == {}

(* Reviewers are interchangeable. *)
Symmetry == Permutations(TwoReviewers)
=============================================================================
