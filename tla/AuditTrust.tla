----------------------------- MODULE AuditTrust -----------------------------
(***************************************************************************)
(* The audit trust store of topo-check (tools/topo-check/AuditSupport.cpp, *)
(* updateAuditTrust, loadAuditTrust, writeJson) and the audits that read   *)
(* it (CheckRunner.cpp, the audit parts of run).                           *)
(*                                                                         *)
(* Reviewers accept the manual boundaries or a dependency of a saved       *)
(* report, or revoke a key; a command holds the store's lock file from     *)
(* before the store is loaded until after it has been replaced.  Audits    *)
(* read the store twice without the lock, before the checks and after      *)
(* them, and save a report.  Meanwhile the projects are edited; commands   *)
(* and audits overlap, fail and are killed.                                *)
(*                                                                         *)
(* External, modelled from their use here: FileLock (a lock of the         *)
(* operating system, gone with its process), atomicReplaceFile,            *)
(* verifyAuditSnapshot (do the digests in a report still describe the      *)
(* files?) and applyAuditTrust.  A review key is the sources it was        *)
(* computed from: a project and the version of its content.                *)
(***************************************************************************)
EXTENDS Naturals

CONSTANTS
  Reviewers,  (* invocations with a trust action                           *)
  Auditors,   (* invocations with --audit                                  *)
  Projects,   (* the subject projects that share the store                 *)
  MaxVersion, (* bound on a project's contents: 1 .. MaxVersion            *)
  Deps,       (* the keys of the dependencies the reports list             *)
  Denied,     (* what the projects' audit policies deny                    *)
  User,       (* the scope of an approval for every project                *)
  Missing,    (* a file that does not exist, an option that is not given   *)
  Free        (* the lock nobody holds                                     *)

ASSUME VersionAssumption == MaxVersion \in Nat \ {0}
ASSUME DeniedAssumption == Denied \subseteq Projects \X Deps
ASSUME DepsAssumption == Deps \cap (Projects \X (1 .. MaxVersion)) = {}
ASSUME FreeAssumption == Free \notin Reviewers
ASSUME UserAssumption == User \notin Projects

VARIABLES
  tree,     (* the content of each project                                 *)
  store,    (* trust.json                                                  *)
  lock,     (* who holds trust.json.lock                                   *)
  report,   (* the report last saved for each project                      *)
  reviewer, (* the running trust commands                                  *)
  answer,   (* the exit code of each reviewer's last command               *)
  audit,    (* the running audits                                          *)
  verdict,  (* history: what each auditor's last audit ended with          *)
  inForce   (* history: was the approval in force at some time since the
               audit verified that its sources are unchanged?              *)

vars == <<tree, store, lock, report, reviewer, answer, audit, verdict, inForce>>
storeVars == <<store, lock, reviewer, answer>>
auditVars == <<audit, verdict, inForce, report>>

-----------------------------------------------------------------------------
Version == 1 .. MaxVersion
Review == Projects \X Version
Keys == Review \cup Deps
Scopes == Projects \cup {User}

(* The store maps reviews and dependencies to whom they are accepted for. *)
Store == [reviews : SUBSET Review, dependencies : [Deps -> SUBSET Scopes]]
ASSUME MissingAssumption == Missing \notin Store

EmptyStore == [reviews |-> {}, dependencies |-> [d \in Deps |-> {}]]

(* loadAuditTrust: no file is an empty store. *)
Loaded == IF store = Missing THEN EmptyStore ELSE store

(* A saved report, as far as the trust commands look at it: which content of
   its project it is about.  Whether it passed does not matter to them. *)
Report == [version : Version]

(* What is asked for on the command line.  `from` is the project of the
   report given, which need not be the one selected with --project. *)
Options ==
  [verb : {"review"}, project : Projects, from : Projects, key : {Missing},
   user : {FALSE}]
  \cup [verb : {"dependency"}, project : Projects, from : Projects, key : Deps,
        user : BOOLEAN]
  \cup [verb : {"revoke"}, project : {Missing}, from : {Missing}, key : Keys,
        user : {FALSE}]

(* What it comes to: the key and whom it is granted for, or nobody. *)
Command == [key : Keys, grant : {{}} \cup {{s} : s \in Scopes}]

CommandOf(o, p) ==
  CASE o.verb = "revoke" -> [key |-> o.key, grant |-> {}]
    [] o.verb = "review" -> [key |-> <<o.from, p.version>>, grant |-> {o.from}]
    [] o.verb = "dependency" ->
         [key |-> o.key, grant |-> {IF o.user THEN User ELSE o.from}]

(* trust["reviews"][key] or trust["dependencies"][key] is assigned, or the
   key is erased from both. *)
ReviewsOnly(t, c) == [reviews |-> t.reviews \cup {c.key}]
Updated(t, c) ==
  [reviews |-> IF c.key \notin Deps /\ c.grant # {} THEN t.reviews \cup {c.key}
                                                    ELSE t.reviews \ {c.key},
   dependencies |-> [d \in Deps |-> IF d = c.key THEN c.grant
                                                 ELSE t.dependencies[d]]]

(* tryAcquire never blocks: the lock is had, or the command fails. *)
Ignored == TRUE
Available == lock = Free

(* The lock goes with the scope that holds it, or with the process. *)
Released(r) == lock' = IF lock = r THEN Free ELSE lock

(* verifyAuditSnapshot. *)
Current(p, v) == tree[p] = v

(* applyAuditTrust: the boundaries of this very content were accepted, and
   so was each dependency, for this project or for all. *)
Approved(t, p, v) ==
  /\ <<p, v>> \in t.reviews
  /\ \A d \in Deps : <<p, d>> \notin Denied
                     /\ t.dependencies[d] \cap {p, User} # {}

InForce(a, t) == Approved(t, audit[a].project, audit[a].version)

(* The decision at the end of the audit is made on the store as it is then. *)
FirstAnswerKept(a) == ~audit[a].errors
ReadAgain(a) == InForce(a, Loaded)

(* Where a running command or audit is, and what it knows. *)
CommandPlaces == {"idle", "lock", "load", "apply", "write", "protect"}
Managing == [at : CommandPlaces, options : Options \cup {Missing},
             trust : Store \cup {Missing}, report : Report \cup {Missing},
             command : Command \cup {Missing}]

AuditPlaces == {"idle", "first", "checks", "snapshot", "second", "save"}
Examining == [at : AuditPlaces, project : Projects \cup {Missing},
              version : Version \cup {Missing}, errors : BOOLEAN,
              declared : BOOLEAN, verified : BOOLEAN, passed : BOOLEAN]

Verdict == [code : {0, 1}, project : Projects, version : Version,
            verified : BOOLEAN, passed : BOOLEAN, inForce : BOOLEAN]

NoCommand == [at |-> "idle", options |-> Missing, trust |-> Missing,
              report |-> Missing, command |-> Missing]
NoAudit == [at |-> "idle", project |-> Missing, version |-> Missing,
            errors |-> FALSE, declared |-> FALSE, verified |-> FALSE,
            passed |-> FALSE]

Init == /\ tree = [p \in Projects |-> 1]
        /\ store = Missing
        /\ lock = Free
        /\ report = [p \in Projects |-> Missing]
        /\ reviewer = [r \in Reviewers |-> NoCommand]
        /\ answer = [r \in Reviewers |-> 0]
        /\ audit = [a \in Auditors |-> NoAudit]
        /\ verdict = [a \in Auditors |-> Missing]
        /\ inForce = [a \in Auditors |-> FALSE]

(* The developer edits a project. *)
Edit(p) ==
  /\ \E v \in Version \ {tree[p]} : tree' = [tree EXCEPT ![p] = v]
  /\ UNCHANGED <<storeVars, auditVars>>

-----------------------------------------------------------------------------
(* Trust commands: updateAuditTrust.                                       *)

Goes(r, place) == reviewer' = [reviewer EXCEPT ![r].at = place]

Exits(r, code) == /\ reviewer' = [reviewer EXCEPT ![r] = NoCommand]
                  /\ answer' = [answer EXCEPT ![r] = code]
                  /\ Released(r)

Start(r) ==
  /\ reviewer[r].at = "idle"
  /\ Goes(r, "lock")
  /\ UNCHANGED <<tree, store, lock, answer, auditVars>>

Acquire(r) ==
  /\ reviewer[r].at = "lock"
  /\ Available
  /\ lock' = r
  /\ Goes(r, "load")
  /\ UNCHANGED <<tree, store, answer, auditVars>>

Busy(r) ==
  /\ reviewer[r].at = "lock"
  /\ ~Available
  /\ Exits(r, 2)
  /\ UNCHANGED <<tree, store, auditVars>>

(* The store is loaded, then the report, unless a key is revoked.  (The options
   are given at the start; here is where they first make a difference.) *)
Load(r) ==
  /\ reviewer[r].at = "load"
  /\ \E o \in Options :
       /\ o.verb # "revoke" => report[o.from] # Missing
       /\ reviewer' = [reviewer EXCEPT
            ![r].at = "apply", ![r].options = o, ![r].trust = Loaded,
            ![r].report = IF o.verb = "revoke" THEN Missing ELSE report[o.from]]
  /\ UNCHANGED <<tree, store, lock, answer, auditVars>>

(* The report still describes its project, the project is the selected one
   and, for a dependency, its policy does not deny it. *)
Acceptable(o, p) ==
  /\ Current(o.from, p.version)
  /\ o.from = o.project
  /\ o.verb = "dependency" => <<o.from, o.key>> \notin Denied

(* What the command no longer needs is forgotten. *)
Apply(r) ==
  /\ reviewer[r].at = "apply"
  /\ LET o == reviewer[r].options
         p == reviewer[r].report
         c == CommandOf(o, p)
     IN /\ o.verb # "revoke" => Acceptable(o, p)
        /\ reviewer' = [reviewer EXCEPT ![r] = [NoCommand EXCEPT
             !.at = "write", !.command = c, !.trust = Updated(reviewer[r].trust, c)]]
  /\ UNCHANGED <<tree, store, lock, answer, auditVars>>

(* writeJson: a temporary file is written beside the store and renamed. *)
Replace(r) ==
  /\ reviewer[r].at = "write"
  /\ store' = reviewer[r].trust
  /\ reviewer' = [reviewer EXCEPT ![r] = [NoCommand EXCEPT !.at = "protect"]]
  /\ inForce' = [a \in Auditors |->
                   inForce[a] \/ (audit[a].at = "second" /\ InForce(a, store'))]
  /\ UNCHANGED <<tree, lock, answer, report, audit, verdict>>

Confirm(r) ==
  /\ reviewer[r].at = "protect"
  /\ Exits(r, 0)
  /\ UNCHANGED <<tree, store, auditVars>>

(* An exception: a path that is not protected, a file that cannot be read,
   parsed or written, a report that is missing or not Acceptable; after the
   replacement, permissions that cannot be set. *)
Fail(r) ==
  /\ reviewer[r].at \in {"lock", "load", "apply", "write", "protect"}
  /\ Exits(r, 2)
  /\ UNCHANGED <<tree, store, auditVars>>

Kill(r) ==
  /\ reviewer[r].at # "idle"
  /\ reviewer' = [reviewer EXCEPT ![r] = NoCommand]
  /\ Released(r)
  /\ UNCHANGED <<tree, store, answer, auditVars>>

-----------------------------------------------------------------------------
(* Audits: the audit parts of CheckRunner::run.                            *)

(* The facts are extracted, with the digests of the files they are about. *)
Analyse(a) ==
  /\ audit[a].at = "idle"
  /\ \E p \in Projects :
       audit' = [audit EXCEPT ![a] = [NoAudit EXCEPT
                   !.at = "first", !.project = p, !.version = tree[p]]]
  /\ verdict' = [verdict EXCEPT ![a] = Missing]
  /\ inForce' = [inForce EXCEPT ![a] = FALSE]
  /\ UNCHANGED <<tree, storeVars, report>>

(* The store is read for the first time. *)
FirstTrust(a) ==
  /\ audit[a].at = "first"
  /\ audit' = [audit EXCEPT ![a].at = "checks",
                            ![a].errors = ~InForce(a, Loaded)]
  /\ UNCHANGED <<tree, storeVars, verdict, inForce, report>>

(* The six checks and the provider's diagnostics. *)
Checks(a) ==
  /\ audit[a].at = "checks"
  /\ \E d \in BOOLEAN :
       audit' = [audit EXCEPT ![a].at = "snapshot", ![a].declared = d,
                              ![a].errors = @ \/ ~d]
  /\ UNCHANGED <<tree, storeVars, verdict, inForce, report>>

(* The files are digested again: have they changed under the audit? *)
Snapshot(a) ==
  /\ audit[a].at = "snapshot"
  /\ LET ok == Current(audit[a].project, audit[a].version) IN
       audit' = [audit EXCEPT ![a].at = "second", ![a].verified = ok,
                              ![a].errors = @ \/ ~ok]
  /\ inForce' = [inForce EXCEPT ![a] = InForce(a, Loaded)]
  /\ UNCHANGED <<tree, storeVars, verdict, report>>

(* The store is read again and decides with the checks; whether a snapshot
   that was not verified keeps a report from passing is up to
   applyAuditTrust. *)
SecondTrust(a) ==
  /\ audit[a].at = "second"
  /\ \E blocked \in BOOLEAN :
       /\ audit[a].verified => ~blocked
       /\ LET ok == ReadAgain(a) /\ audit[a].declared /\ ~blocked IN
            audit' = [audit EXCEPT ![a].at = "save", ![a].passed = ok,
                                   ![a].errors = @ \/ ~ok]
  /\ UNCHANGED <<tree, storeVars, verdict, inForce, report>>

(* The report is saved and the exit code follows from the errors. *)
Save(a) ==
  /\ audit[a].at = "save"
  /\ LET n == audit[a] IN
       /\ report' = [report EXCEPT ![n.project] = [version |-> n.version]]
       /\ verdict' = [verdict EXCEPT ![a] =
                        [code |-> IF n.errors THEN 1 ELSE 0, project |-> n.project,
                         version |-> n.version, verified |-> n.verified,
                         passed |-> n.passed, inForce |-> inForce[a]]]
  /\ audit' = [audit EXCEPT ![a] = NoAudit]
  /\ inForce' = [inForce EXCEPT ![a] = FALSE]
  /\ UNCHANGED <<tree, storeVars>>

(* The audit ends with an exception or is killed: exit 2 or none at all. *)
Abandon(a) ==
  /\ audit[a].at # "idle"
  /\ audit' = [audit EXCEPT ![a] = NoAudit]
  /\ inForce' = [inForce EXCEPT ![a] = FALSE]
  /\ UNCHANGED <<tree, storeVars, verdict, report>>

-----------------------------------------------------------------------------
Manage(r) == \/ Start(r) \/ Acquire(r) \/ Busy(r) \/ Load(r) \/ Apply(r)
             \/ Replace(r) \/ Confirm(r) \/ Fail(r)

Examine(a) == \/ Analyse(a) \/ FirstTrust(a) \/ Checks(a) \/ Snapshot(a)
              \/ SecondTrust(a) \/ Save(a) \/ Abandon(a)

Next == \/ \E p \in Projects : Edit(p)
        \/ \E r \in Reviewers : Manage(r) \/ Kill(r)
        \/ \E a \in Auditors : Examine(a)

Spec == Init /\ [][Next]_vars

-----------------------------------------------------------------------------
(* Type correctness of the store, its lock, the commands and the audits. *)
TypeOK ==
  /\ tree \in [Projects -> Version]
  /\ store \in Store \cup {Missing}
  /\ lock \in Reviewers \cup {Free}
  /\ report \in [Projects -> Report \cup {Missing}]
  /\ reviewer \in [Reviewers -> Managing]
  /\ answer \in [Reviewers -> {0, 2}]
  /\ audit \in [Auditors -> Examining]
  /\ verdict \in [Auditors -> Verdict \cup {Missing}]
  /\ inForce \in [Auditors -> BOOLEAN]

(* An audit that exits 0 was of the sources as they were when it verified
   them, saved a report that passed, and its approval was in force at some
   time after that verification: a revocation that was complete before then
   and was never taken back fails the audit. *)
PassIsApproved ==
  \A a \in Auditors :
    verdict[a] # Missing /\ verdict[a].code = 0 =>
      verdict[a].verified /\ verdict[a].passed /\ verdict[a].inForce

(* The store is the ledger it promises to be: each command is one atomic
   step of it, and concurrent commands never undo one another. *)
LedgerOf(t) == {[key |-> k, scope |-> k[1]] : k \in t.reviews}
               \cup {a \in [key : Deps, scope : Scopes] :
                       a.scope \in t.dependencies[a.key]}

RequestOf(r) ==
  CASE reviewer[r].at = "write" ->
         [state |-> "asked", command |-> reviewer[r].command]
    [] reviewer[r].at = "protect" -> [state |-> "done"]
    [] OTHER -> [state |-> "none"]

Ledger == INSTANCE TrustLedger WITH
            ledger <- LedgerOf(Loaded),
            request <- [r \in Reviewers |-> RequestOf(r)]
LedgerSpec == Ledger!Spec
=============================================================================
