---------------------------- MODULE TrustLedger ----------------------------
(***************************************************************************)
(* What the audit trust store of topo-check promises: a ledger of          *)
(* approvals that each trust command changes in one indivisible step, by   *)
(* its own effect and no other.  A command that reports success took       *)
(* effect exactly once; one that fails or dies did so or did not.          *)
(***************************************************************************)
CONSTANTS Reviewers, (* who run trust commands                             *)
          Keys,      (* what can be approved: a review or a dependency     *)
          Scopes     (* for whom: a project, or the user everywhere        *)

VARIABLES ledger,    (* the approvals in force                             *)
          request,   (* the command each reviewer is having executed       *)
          answer     (* the exit code of the reviewer's last command       *)

ledgerVars == <<ledger, request, answer>>

(* A command replaces what the ledger says of one key: by one approval, or,
   for a revocation, by nothing. *)
Command == [key : Keys, grant : {{}} \cup {{s} : s \in Scopes}]

Effect(c, l) == {a \in l : a.key # c.key}
                \cup {[key |-> c.key, scope |-> s] : s \in c.grant}

None == [state |-> "none"]
Asked(c) == [state |-> "asked", command |-> c]
Done == [state |-> "done"]

Init == /\ ledger = {}
        /\ request = [r \in Reviewers |-> None]
        /\ answer = [r \in Reviewers |-> 0]

Ask(r) == /\ request[r] = None
          /\ \E c \in Command : request' = [request EXCEPT ![r] = Asked(c)]
          /\ UNCHANGED <<ledger, answer>>

Commit(r) == /\ \E c \in Command : /\ request[r] = Asked(c)
                                   /\ ledger' = Effect(c, ledger)
             /\ request' = [request EXCEPT ![r] = Done]
             /\ UNCHANGED answer

Confirm(r) == /\ request[r] = Done
              /\ request' = [request EXCEPT ![r] = None]
              /\ answer' = [answer EXCEPT ![r] = 0]
              /\ UNCHANGED ledger

(* Refused, failed on the way, or failed after the fact. *)
Fail(r) == /\ request' = [request EXCEPT ![r] = None]
           /\ answer' = [answer EXCEPT ![r] = 2]
           /\ UNCHANGED ledger

Die(r) == /\ request' = [request EXCEPT ![r] = None]
          /\ UNCHANGED <<ledger, answer>>

Next == \E r \in Reviewers :
          Ask(r) \/ Commit(r) \/ Confirm(r) \/ Fail(r) \/ Die(r)

Spec == Init /\ [][Next]_ledgerVars
=============================================================================
