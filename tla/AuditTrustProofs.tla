-------------------------- MODULE AuditTrustProofs --------------------------
(***************************************************************************)
(* Proofs about AuditTrust for any number of reviewers, auditors,          *)
(* projects, versions and dependencies: type correctness, the lock, what a *)
(* passing audit means, and that the store implements TrustLedger.         *)
(***************************************************************************)
EXTENDS AuditTrust, TLAPS

(* The reviewer that is inside the critical section holds the lock. *)
Inside == {"load", "apply", "write", "protect"}

LockHeld == \A r \in Reviewers : reviewer[r].at \in Inside <=> lock = r

(* What the command has been given, by the time it needs it. *)
Informed ==
  \A r \in Reviewers :
    /\ reviewer[r].at = "apply" =>
         /\ reviewer[r].options \in Options
         /\ reviewer[r].trust \in Store
         /\ reviewer[r].options.verb # "revoke" => reviewer[r].report \in Report
    /\ reviewer[r].at = "write" => /\ reviewer[r].command \in Command
                                   /\ reviewer[r].trust \in Store

(* A review is only ever granted to the project it is of. *)
OwnScope(c) == c.key \in Review => c.grant \subseteq {c.key[1]}

(* The copy a command works on is the store as it is. *)
CopyIsCurrent ==
  \A r \in Reviewers :
    /\ reviewer[r].at = "apply" => reviewer[r].trust = Loaded
    /\ reviewer[r].at = "write" =>
         /\ OwnScope(reviewer[r].command)
         /\ reviewer[r].trust = Updated(Loaded, reviewer[r].command)

(* An audit that is running is of something. *)
Subjects ==
  \A a \in Auditors : audit[a].at # "idle" =>
    audit[a].project \in Projects /\ audit[a].version \in Version

(* What an audit without errors has established so far, and what the last
   one had when it ended. *)
Decided ==
  \A a \in Auditors :
    /\ audit[a].at = "second" => /\ audit[a].errors \/ audit[a].verified
                                 /\ InForce(a, Loaded) => inForce[a]
    /\ audit[a].at = "save" =>
         audit[a].errors \/ (audit[a].verified /\ audit[a].passed /\ inForce[a])

StoreInv == TypeOK /\ LockHeld /\ Informed /\ CopyIsCurrent
AuditInv == Subjects /\ Decided /\ PassIsApproved
IInv == StoreInv /\ AuditInv

-----------------------------------------------------------------------------
LEMMA LoadedType == ASSUME TypeOK PROVE Loaded \in Store
  BY DEF TypeOK, Loaded, EmptyStore, Store

LEMMA UpdatedType ==
  ASSUME NEW t \in Store, NEW c \in Command PROVE Updated(t, c) \in Store
  BY DEF Updated, Store, Command, Keys

(* A command line and the report it names come to a command that keeps to
   its own scope. *)
LEMMA CommandType ==
  ASSUME NEW o \in Options, NEW p, o.verb # "revoke" => p \in Report
  PROVE  CommandOf(o, p) \in Command /\ OwnScope(CommandOf(o, p))
<1>1. CASE o.verb = "revoke"
  BY <1>1 DEF CommandOf, Command, Options, OwnScope, Keys
<1>2. CASE o.verb = "review"
  <2>1. o.from \in Projects /\ p.version \in Version
    BY <1>2 DEF Options, Report
  <2>2. CommandOf(o, p) = [key |-> <<o.from, p.version>>, grant |-> {o.from}]
    BY <1>2 DEF CommandOf
  <2> QED BY <2>1, <2>2 DEF Command, Keys, Review, Scopes, OwnScope
<1>3. CASE o.verb = "dependency"
  <2>1. o.from \in Projects /\ o.key \in Deps
    BY <1>3 DEF Options
  <2>2. CommandOf(o, p) = [key |-> o.key,
                           grant |-> {IF o.user THEN User ELSE o.from}]
    BY <1>3 DEF CommandOf
  <2> QED BY <2>1, <2>2, DepsAssumption
          DEF Command, Keys, Scopes, OwnScope, Review, Version
<1> QED BY <1>1, <1>2, <1>3 DEF Options

-----------------------------------------------------------------------------
LEMMA InitInv == Init => IInv
<1> SUFFICES ASSUME Init PROVE IInv
  OBVIOUS
<1>1. NoCommand \in Managing /\ NoAudit \in Examining
  BY DEF NoCommand, Managing, CommandPlaces, NoAudit, Examining, AuditPlaces
<1>2. TypeOK
  BY <1>1, VersionAssumption DEF Init, TypeOK, Version
<1>3. \A r \in Reviewers : reviewer[r].at = "idle"
  BY DEF Init, NoCommand
<1>4. \A a \in Auditors : audit[a].at = "idle"
  BY DEF Init, NoAudit
<1> QED BY <1>2, <1>3, <1>4, FreeAssumption
        DEF Init, IInv, StoreInv, AuditInv, LockHeld, Informed, CopyIsCurrent,
            Subjects, Decided, PassIsApproved, Inside

LEMMA EditStep == ASSUME StoreInv, NEW p \in Projects, Edit(p) PROVE StoreInv'
  BY DEF StoreInv, TypeOK, LockHeld, Informed, CopyIsCurrent, Loaded, Edit,
         storeVars, auditVars

LEMMA StartStep == ASSUME StoreInv, NEW r \in Reviewers, Start(r) PROVE StoreInv'
<1>1. TypeOK'
  <2>1. reviewer[r] \in Managing
    BY DEF StoreInv, TypeOK
  <2>2. [reviewer[r] EXCEPT !.at = "lock"] \in Managing
    BY <2>1 DEF Managing, CommandPlaces
  <2> QED BY <2>2 DEF StoreInv, TypeOK, Start, Goes, auditVars
<1>2. LockHeld'
  BY DEF StoreInv, TypeOK, Managing, LockHeld, Start, Goes, Inside
<1>3. Informed'
  BY DEF StoreInv, TypeOK, Informed, Start, Goes
<1>4. CopyIsCurrent'
  BY DEF StoreInv, TypeOK, CopyIsCurrent, Start, Goes, Loaded
<1> QED BY <1>1, <1>2, <1>3, <1>4 DEF StoreInv

LEMMA AcquireStep == ASSUME StoreInv, NEW r \in Reviewers, Acquire(r) PROVE StoreInv'
<1>1. TypeOK'
  <2>1. reviewer[r] \in Managing
    BY DEF StoreInv, TypeOK
  <2>2. [reviewer[r] EXCEPT !.at = "load"] \in Managing
    BY <2>1 DEF Managing, CommandPlaces
  <2> QED BY <2>2 DEF StoreInv, TypeOK, Acquire, Goes, auditVars
<1>2. LockHeld'
  BY FreeAssumption DEF StoreInv, TypeOK, LockHeld, Acquire, Goes, Available, Inside
<1>3. Informed'
  BY DEF StoreInv, TypeOK, Informed, Acquire, Goes
<1>4. CopyIsCurrent'
  BY DEF StoreInv, TypeOK, CopyIsCurrent, Acquire, Goes, Loaded
<1> QED BY <1>1, <1>2, <1>3, <1>4 DEF StoreInv

LEMMA LoadStep == ASSUME StoreInv, NEW r \in Reviewers, Load(r) PROVE StoreInv'
<1>1. Loaded \in Store /\ reviewer[r].at = "load"
  BY LoadedType DEF StoreInv, Load
<1>a. PICK o \in Options :
       /\ o.verb # "revoke" => report[o.from] # Missing
       /\ reviewer' = [reviewer EXCEPT
            ![r].at = "apply", ![r].options = o, ![r].trust = Loaded,
            ![r].report = IF o.verb = "revoke" THEN Missing ELSE report[o.from]]
  BY DEF Load
<1>2. o.verb # "revoke" => report[o.from] \in Report
  <2>1. SUFFICES ASSUME o.verb # "revoke" PROVE report[o.from] \in Report
    OBVIOUS
  <2>2. o.from \in Projects
    BY <2>1 DEF Options
  <2>3. report[o.from] # Missing
    BY <2>1, <1>a
  <2> QED BY <2>2, <2>3 DEF StoreInv, TypeOK
<1> DEFINE rep == IF o.verb = "revoke" THEN Missing ELSE report[o.from]
<1>3. rep \in Report \cup {Missing} /\ (o.verb # "revoke" => rep \in Report)
  BY <1>2
<1>4. reviewer' = [reviewer EXCEPT ![r].at = "apply", ![r].options = o,
                                   ![r].trust = Loaded, ![r].report = rep]
  BY <1>a
<1>5. UNCHANGED <<tree, store, lock, answer, auditVars>>
  BY DEF Load
<1>b. o \in Options
  BY <1>a
<1> HIDE DEF rep
<1>6. TypeOK'
  <2>1. [reviewer[r] EXCEPT !.at = "apply", !.options = o, !.trust = Loaded,
                            !.report = rep] \in Managing
    <3>1. reviewer[r] \in Managing
      BY DEF StoreInv, TypeOK
    <3> QED BY <1>1, <1>3, <1>b, <3>1 DEF Managing, CommandPlaces
  <2> QED BY <2>1, <1>4, <1>5 DEF StoreInv, TypeOK, auditVars
<1>7. LockHeld'
  BY <1>1, <1>4, <1>5 DEF StoreInv, TypeOK, LockHeld, Inside
<1>8. Informed'
  BY <1>1, <1>3, <1>4, <1>5, <1>b DEF StoreInv, TypeOK, Informed
<1>9. CopyIsCurrent'
  BY <1>4, <1>5 DEF StoreInv, TypeOK, CopyIsCurrent, Loaded
<1> QED BY <1>6, <1>7, <1>8, <1>9 DEF StoreInv

LEMMA ApplyStep == ASSUME StoreInv, NEW r \in Reviewers, Apply(r) PROVE StoreInv'
<1> DEFINE c == CommandOf(reviewer[r].options, reviewer[r].report)
           t == Updated(reviewer[r].trust, c)
<1>1. /\ reviewer[r].at = "apply"
      /\ reviewer[r].options \in Options
      /\ reviewer[r].trust \in Store
      /\ reviewer[r].trust = Loaded
      /\ reviewer[r].options.verb # "revoke" => reviewer[r].report \in Report
  BY DEF Apply, StoreInv, Informed, CopyIsCurrent
<1>2. c \in Command /\ OwnScope(c) /\ t \in Store
  BY <1>1, CommandType, UpdatedType
<1>3. reviewer' = [reviewer EXCEPT ![r] = [NoCommand EXCEPT
                     !.at = "write", !.command = c, !.trust = t]]
  BY DEF Apply
<1>4. UNCHANGED <<tree, store, lock, answer, auditVars>>
  BY DEF Apply
<1>5. t = Updated(Loaded, c) /\ Loaded' = Loaded
  BY <1>1, <1>4 DEF Loaded
<1> HIDE DEF c, t
<1>6. TypeOK'
  <2>1. [NoCommand EXCEPT !.at = "write", !.command = c, !.trust = t] \in Managing
    BY <1>2 DEF NoCommand, Managing, CommandPlaces
  <2> QED BY <2>1, <1>3, <1>4 DEF StoreInv, TypeOK, auditVars
<1>7. LockHeld'
  BY <1>1, <1>3, <1>4 DEF StoreInv, TypeOK, LockHeld, Inside, NoCommand
<1>8. Informed'
  BY <1>2, <1>3, <1>4 DEF StoreInv, TypeOK, Informed
<1>9. CopyIsCurrent'
  <2> SUFFICES ASSUME NEW s \in Reviewers
               PROVE /\ reviewer'[s].at = "apply" => reviewer'[s].trust = Loaded'
                     /\ reviewer'[s].at = "write" =>
                          /\ OwnScope(reviewer'[s].command)
                          /\ reviewer'[s].trust = Updated(Loaded', reviewer'[s].command)
    BY DEF CopyIsCurrent, OwnScope, Updated
  <2>1. CASE s = r
    <3>1. /\ reviewer'[s].at = "write"
          /\ reviewer'[s].command = c
          /\ reviewer'[s].trust = t
      BY <2>1, <1>3 DEF StoreInv, TypeOK
    <3> QED BY <3>1, <1>2, <1>5
  <2>2. CASE s # r
    <3>1. reviewer'[s] = reviewer[s]
      BY <2>2, <1>3 DEF StoreInv, TypeOK
    <3> QED BY <3>1, <1>5 DEF StoreInv, CopyIsCurrent
  <2> QED BY <2>1, <2>2
<1> QED BY <1>6, <1>7, <1>8, <1>9 DEF StoreInv

(* While one command writes the store no other has a copy of it. *)
LEMMA ReplaceStep == ASSUME StoreInv, NEW r \in Reviewers, Replace(r) PROVE StoreInv'
<1>1. reviewer[r].at = "write" /\ reviewer[r].trust \in Store
  BY DEF Replace, StoreInv, Informed
<1>2. /\ reviewer' = [reviewer EXCEPT ![r] = [NoCommand EXCEPT !.at = "protect"]]
      /\ store' = reviewer[r].trust
      /\ UNCHANGED <<tree, lock, answer, report, audit, verdict>>
      /\ inForce' \in [Auditors -> BOOLEAN]
  BY DEF Replace, Goes, StoreInv, TypeOK
<1>3. TypeOK'
  <2>1. [NoCommand EXCEPT !.at = "protect"] \in Managing
    BY DEF NoCommand, Managing, CommandPlaces
  <2> QED BY <1>1, <1>2, <2>1 DEF StoreInv, TypeOK
<1>4. LockHeld'
  BY <1>1, <1>2 DEF StoreInv, TypeOK, LockHeld, Inside, NoCommand
<1>5. Informed'
  BY <1>2 DEF StoreInv, TypeOK, Informed, NoCommand
<1>6. \A s \in Reviewers : reviewer'[s].at \notin {"apply", "write"}
  BY <1>1, <1>2 DEF StoreInv, TypeOK, LockHeld, Inside, NoCommand
<1>7. CopyIsCurrent'
  BY <1>6 DEF CopyIsCurrent
<1> QED BY <1>3, <1>4, <1>5, <1>7 DEF StoreInv

LEMMA EndStep ==
  ASSUME StoreInv, NEW r \in Reviewers,
         reviewer' = [reviewer EXCEPT ![r] = NoCommand],
         answer' \in [Reviewers -> {0, 2}],
         Released(r), UNCHANGED <<tree, store, auditVars>>
  PROVE  StoreInv'
<1>1. TypeOK'
  <2>1. NoCommand \in Managing
    BY DEF Managing, CommandPlaces, NoCommand
  <2> QED BY <2>1 DEF StoreInv, TypeOK, Released, auditVars
<1>2. LockHeld'
  BY FreeAssumption DEF StoreInv, TypeOK, LockHeld, Released, Inside, NoCommand
<1>3. Informed'
  BY DEF StoreInv, TypeOK, Informed, NoCommand
<1>4. CopyIsCurrent'
  BY DEF StoreInv, TypeOK, CopyIsCurrent, NoCommand, Loaded
<1> QED BY <1>1, <1>2, <1>3, <1>4 DEF StoreInv

LEMMA ExitStep ==
  ASSUME StoreInv, NEW r \in Reviewers, Busy(r) \/ Confirm(r) \/ Fail(r) \/ Kill(r)
  PROVE  StoreInv'
<1>1. answer' \in [Reviewers -> {0, 2}]
  BY DEF StoreInv, TypeOK, Busy, Confirm, Fail, Kill, Exits
<1> QED BY <1>1, EndStep DEF Busy, Confirm, Fail, Kill, Exits

LEMMA ExamineType ==
  ASSUME TypeOK, NEW a \in Auditors, NEW n \in Examining,
         audit' = [audit EXCEPT ![a] = n],
         verdict' \in [Auditors -> Verdict \cup {Missing}],
         inForce' \in [Auditors -> BOOLEAN],
         report' \in [Projects -> Report \cup {Missing}],
         UNCHANGED <<tree, storeVars>>
  PROVE  TypeOK'
  BY DEF TypeOK, storeVars

LEMMA ExamineStore == ASSUME IInv, NEW a \in Auditors, Examine(a) PROVE StoreInv'
<1> DEFINE n == audit[a]
<1>1. UNCHANGED <<tree, storeVars>>
  BY DEF Examine, Analyse, FirstTrust, Checks, Snapshot, SecondTrust, Save, Abandon
<1>2. LockHeld' /\ Informed' /\ CopyIsCurrent'
  BY <1>1 DEF IInv, StoreInv, LockHeld, Informed, CopyIsCurrent, Loaded, storeVars
<1>3. /\ TypeOK
      /\ n \in Examining
      /\ verdict \in [Auditors -> Verdict \cup {Missing}]
      /\ inForce \in [Auditors -> BOOLEAN]
      /\ report \in [Projects -> Report \cup {Missing}]
  BY DEF IInv, StoreInv, TypeOK
<1>4. NoAudit \in Examining
  BY DEF NoAudit, Examining, AuditPlaces
<1>5. InForce(a, Loaded) \in BOOLEAN /\ ReadAgain(a) \in BOOLEAN
  BY DEF ReadAgain, InForce, Approved
<1>6. TypeOK'
  <2>1. CASE Analyse(a)
    <3>1. PICK p \in Projects :
            audit' = [audit EXCEPT ![a] = [NoAudit EXCEPT
                        !.at = "first", !.project = p, !.version = tree[p]]]
      BY <2>1 DEF Analyse
    <3>2. [NoAudit EXCEPT !.at = "first", !.project = p, !.version = tree[p]]
            \in Examining
      BY <1>3 DEF TypeOK, NoAudit, Examining, AuditPlaces
    <3> QED BY <2>1, <3>1, <3>2, <1>1, <1>3, ExamineType DEF Analyse
  <2>2. CASE FirstTrust(a)
    <3>1. [n EXCEPT !.at = "checks", !.errors = ~InForce(a, Loaded)] \in Examining
      BY <1>3, <1>5 DEF Examining, AuditPlaces
    <3>2. audit' = [audit EXCEPT ![a] = [n EXCEPT
                      !.at = "checks", !.errors = ~InForce(a, Loaded)]]
      BY <2>2 DEF FirstTrust, TypeOK
    <3> QED BY <2>2, <3>1, <3>2, <1>1, <1>3, ExamineType DEF FirstTrust
  <2>3. CASE Checks(a)
    <3>1. PICK d \in BOOLEAN :
            audit' = [audit EXCEPT ![a].at = "snapshot", ![a].declared = d,
                                   ![a].errors = @ \/ ~d]
      BY <2>3 DEF Checks
    <3>2. [n EXCEPT !.at = "snapshot", !.declared = d, !.errors = @ \/ ~d]
            \in Examining
      BY <1>3 DEF Examining, AuditPlaces
    <3>3. audit' = [audit EXCEPT ![a] = [n EXCEPT
                      !.at = "snapshot", !.declared = d, !.errors = @ \/ ~d]]
      BY <3>1 DEF TypeOK
    <3> QED BY <2>3, <3>2, <3>3, <1>1, <1>3, ExamineType DEF Checks
  <2>4. CASE Snapshot(a)
    <3> DEFINE ok == Current(audit[a].project, audit[a].version)
    <3>1. ok \in BOOLEAN
      BY DEF Current
    <3>2. [n EXCEPT !.at = "second", !.verified = ok, !.errors = @ \/ ~ok]
            \in Examining
      BY <1>3, <3>1 DEF Examining, AuditPlaces
    <3>3. audit' = [audit EXCEPT ![a] = [n EXCEPT
                      !.at = "second", !.verified = ok, !.errors = @ \/ ~ok]]
      BY <2>4 DEF Snapshot, TypeOK
    <3> QED BY <2>4, <3>2, <3>3, <1>1, <1>3, <1>5, ExamineType DEF Snapshot
  <2>5. CASE SecondTrust(a)
    <3>1. PICK b \in BOOLEAN :
            LET ok == ReadAgain(a) /\ audit[a].declared /\ ~b
            IN audit' = [audit EXCEPT ![a].at = "save", ![a].passed = ok,
                                      ![a].errors = @ \/ ~ok]
      BY <2>5 DEF SecondTrust
    <3> DEFINE ok == ReadAgain(a) /\ audit[a].declared /\ ~b
    <3>2. ok \in BOOLEAN
      BY <1>3, <1>5 DEF Examining
    <3>3. [n EXCEPT !.at = "save", !.passed = ok, !.errors = @ \/ ~ok]
            \in Examining
      BY <1>3, <3>2 DEF Examining, AuditPlaces
    <3>4. audit' = [audit EXCEPT ![a] = [n EXCEPT
                      !.at = "save", !.passed = ok, !.errors = @ \/ ~ok]]
      BY <3>1 DEF TypeOK
    <3> QED BY <2>5, <3>3, <3>4, <1>1, <1>3, ExamineType DEF SecondTrust
  <2>6. CASE Save(a)
    <3>1. n.project \in Projects /\ n.version \in Version /\ n.passed \in BOOLEAN
      BY <2>6, <1>3 DEF Save, IInv, AuditInv, Subjects, Examining
    <3> DEFINE v == [code |-> IF n.errors THEN 1 ELSE 0, project |-> n.project,
                     version |-> n.version, verified |-> n.verified,
                     passed |-> n.passed, inForce |-> inForce[a]]
    <3>2. v \in Verdict
      BY <3>1, <1>3 DEF Verdict, Examining
    <3>3. verdict' = [verdict EXCEPT ![a] = v]
      BY <2>6 DEF Save
    <3> HIDE DEF v
    <3>4. verdict' \in [Auditors -> Verdict \cup {Missing}]
      BY <3>2, <3>3, <1>3
    <3> QED BY <2>6, <3>1, <3>4, <1>1, <1>3, <1>4, ExamineType DEF Save, Report
  <2>7. CASE Abandon(a)
    BY <2>7, <1>1, <1>3, <1>4, ExamineType DEF Abandon
  <2> QED BY <2>1, <2>2, <2>3, <2>4, <2>5, <2>6, <2>7 DEF Examine
<1> QED BY <1>2, <1>6 DEF StoreInv

(* What an audit knows changes with its own steps ... *)
LEMMA ExamineAudit == ASSUME IInv, NEW a \in Auditors, Examine(a) PROVE AuditInv'
<1>1. /\ audit \in [Auditors -> Examining]
      /\ audit[a] \in Examining
      /\ inForce \in [Auditors -> BOOLEAN]
      /\ verdict \in [Auditors -> Verdict \cup {Missing}]
      /\ tree \in [Projects -> Version]
      /\ Subjects /\ Decided /\ PassIsApproved
  BY DEF IInv, StoreInv, AuditInv, TypeOK
<1>2. Loaded' = Loaded
  BY DEF Examine, Analyse, FirstTrust, Checks, Snapshot, SecondTrust, Save,
         Abandon, Loaded, storeVars
<1>3. \A b \in Auditors \ {a} : audit'[b] = audit[b] /\ inForce'[b] = inForce[b]
  BY <1>1 DEF Examine, Analyse, FirstTrust, Checks, Snapshot, SecondTrust, Save,
              Abandon
<1>4. \A b \in Auditors \ {a} : InForce(b, Loaded)' <=> InForce(b, Loaded)
  BY <1>2, <1>3 DEF InForce, Approved
<1>5. \A b \in Auditors \ {a} :
        /\ audit'[b].at # "idle" =>
             audit'[b].project \in Projects /\ audit'[b].version \in Version
        /\ audit'[b].at = "second" => /\ audit'[b].errors \/ audit'[b].verified
                                      /\ InForce(b, Loaded)' => inForce'[b]
        /\ audit'[b].at = "save" =>
             audit'[b].errors \/ (audit'[b].verified /\ audit'[b].passed /\ inForce'[b])
  BY <1>1, <1>3, <1>4 DEF Subjects, Decided
<1>6. CASE Analyse(a)
  <2>1. /\ audit'[a].at = "first"
        /\ audit'[a].project \in Projects
        /\ audit'[a].version \in Version
    BY <1>1, <1>6 DEF Analyse, NoAudit
  <2>2. PassIsApproved'
    BY <1>1, <1>6 DEF Analyse, PassIsApproved
  <2> QED BY <1>5, <2>1, <2>2 DEF AuditInv, Subjects, Decided
<1>7. CASE FirstTrust(a) \/ Checks(a)
  <2>1. /\ audit'[a].at \in {"checks", "snapshot"}
        /\ audit[a].at # "idle"
        /\ audit'[a].project = audit[a].project
        /\ audit'[a].version = audit[a].version
        /\ verdict' = verdict
    <3>1. CASE FirstTrust(a)
      BY <1>1, <3>1 DEF FirstTrust, Examining
    <3>2. CASE Checks(a)
      BY <1>1, <3>2 DEF Checks, Examining
    <3> QED BY <1>7, <3>1, <3>2
  <2>2. audit'[a].project \in Projects /\ audit'[a].version \in Version
    BY <1>1, <2>1 DEF Subjects
  <2>3. PassIsApproved'
    BY <1>1, <2>1 DEF PassIsApproved
  <2> QED BY <1>5, <2>1, <2>2, <2>3 DEF AuditInv, Subjects, Decided
<1>8. CASE Snapshot(a)
  <2> DEFINE ok == Current(audit[a].project, audit[a].version)
  <2>1. /\ audit'[a].at = "second"
        /\ audit[a].at # "idle"
        /\ audit'[a].project = audit[a].project
        /\ audit'[a].version = audit[a].version
        /\ audit'[a].verified = ok
        /\ audit'[a].errors = (audit[a].errors \/ ~ok)
        /\ inForce'[a] = InForce(a, Loaded)
        /\ verdict' = verdict
    BY <1>1, <1>8 DEF Snapshot, Examining
  <2>2. audit'[a].project \in Projects /\ audit'[a].version \in Version
    BY <1>1, <2>1 DEF Subjects
  <2>3. audit'[a].errors \/ audit'[a].verified
    BY <2>1
  <2>4. InForce(a, Loaded)' => inForce'[a]
    BY <1>2, <2>1 DEF InForce, Approved
  <2>5. PassIsApproved'
    BY <1>1, <2>1 DEF PassIsApproved
  <2> QED BY <1>5, <2>1, <2>2, <2>3, <2>4, <2>5 DEF AuditInv, Subjects, Decided
<1>9. CASE SecondTrust(a)
  <2>1. PICK blocked \in BOOLEAN :
          LET ok == ReadAgain(a) /\ audit[a].declared /\ ~blocked
          IN audit' = [audit EXCEPT ![a].at = "save", ![a].passed = ok,
                                    ![a].errors = @ \/ ~ok]
    BY <1>9 DEF SecondTrust
  <2> DEFINE ok == ReadAgain(a) /\ audit[a].declared /\ ~blocked
  <2>2. /\ audit'[a].at = "save"
        /\ audit[a].at = "second"
        /\ audit'[a].project = audit[a].project
        /\ audit'[a].version = audit[a].version
        /\ audit'[a].verified = audit[a].verified
        /\ audit'[a].passed = ok
        /\ audit'[a].errors = (audit[a].errors \/ ~ok)
        /\ UNCHANGED <<verdict, inForce>>
    BY <1>1, <1>9, <2>1 DEF SecondTrust, Examining
  <2>3. audit'[a].project \in Projects /\ audit'[a].version \in Version
    BY <1>1, <2>2 DEF Subjects
  <2>4. ok => inForce[a]
    BY <1>1, <2>2 DEF ReadAgain, Decided
  <2>5. audit'[a].errors \/ (audit'[a].verified /\ audit'[a].passed /\ inForce'[a])
    BY <1>1, <2>2, <2>4 DEF Decided
  <2>6. PassIsApproved'
    BY <1>1, <2>2 DEF PassIsApproved
  <2> QED BY <1>5, <2>2, <2>3, <2>5, <2>6 DEF AuditInv, Subjects, Decided
<1>10. CASE Save(a)
  <2>1. audit'[a].at = "idle"
    BY <1>1, <1>10 DEF Save, NoAudit
  <2>2. /\ audit[a].at = "save"
        /\ verdict' = [verdict EXCEPT ![a] =
             [code |-> IF audit[a].errors THEN 1 ELSE 0,
              project |-> audit[a].project, version |-> audit[a].version,
              verified |-> audit[a].verified, passed |-> audit[a].passed,
              inForce |-> inForce[a]]]
    BY <1>10 DEF Save
  <2>3. audit[a].errors \/ (audit[a].verified /\ audit[a].passed /\ inForce[a])
    BY <1>1, <2>2 DEF Decided
  <2>4. PassIsApproved'
    <3> SUFFICES ASSUME NEW b \in Auditors,
                        verdict'[b] # Missing, verdict'[b].code = 0
                 PROVE  /\ verdict'[b].verified
                        /\ verdict'[b].passed
                        /\ verdict'[b].inForce
      BY DEF PassIsApproved
    <3>1. CASE b = a
      BY <1>1, <2>2, <2>3, <3>1 DEF Examining
    <3>2. CASE b # a
      BY <1>1, <2>2, <3>2 DEF PassIsApproved
    <3> QED BY <3>1, <3>2
  <2> QED BY <1>5, <2>1, <2>4 DEF AuditInv, Subjects, Decided
<1>11. CASE Abandon(a)
  <2>1. audit'[a].at = "idle" /\ verdict' = verdict
    BY <1>1, <1>11 DEF Abandon, NoAudit
  <2>2. PassIsApproved'
    BY <1>1, <2>1 DEF PassIsApproved
  <2> QED BY <1>5, <2>1, <2>2 DEF AuditInv, Subjects, Decided
<1> QED BY <1>6, <1>7, <1>8, <1>9, <1>10, <1>11 DEF Examine

(* ... and when the store is replaced between its verification and its
   second look at the store. *)
LEMMA ReplaceAudit == ASSUME IInv, NEW r \in Reviewers, Replace(r) PROVE AuditInv'
<1>1. /\ inForce' = [a \in Auditors |->
                       inForce[a] \/ (audit[a].at = "second" /\ InForce(a, store'))]
      /\ store' = reviewer[r].trust
      /\ reviewer[r].at = "write"
      /\ UNCHANGED <<audit, verdict>>
  BY DEF Replace
<1>2. Subjects' /\ PassIsApproved'
  BY <1>1 DEF IInv, AuditInv, Subjects, PassIsApproved
<1>3. ASSUME NEW a \in Auditors, audit[a].at = "second"
      PROVE  InForce(a, Loaded)' => inForce'[a]
  <2>1. CASE store' = Missing
    BY <2>1 DEF InForce, Approved, Loaded, EmptyStore
  <2>2. CASE store' # Missing
    BY <1>1, <1>3, <2>2 DEF InForce, Approved, Loaded
  <2> QED BY <2>1, <2>2
<1>4. \A a \in Auditors : inForce[a] => inForce'[a]
  BY <1>1
<1>5. Decided'
  BY <1>1, <1>3, <1>4 DEF IInv, AuditInv, Decided
<1> QED BY <1>2, <1>5 DEF AuditInv

LEMMA OtherAudit ==
  ASSUME IInv, UNCHANGED <<store, audit, verdict, inForce>> PROVE AuditInv'
  BY DEF IInv, AuditInv, Subjects, Decided, PassIsApproved, InForce, Approved, Loaded

-----------------------------------------------------------------------------
THEOREM Inductive == IInv /\ [Next]_vars => IInv'
<1> SUFFICES ASSUME IInv, [Next]_vars PROVE IInv'
  OBVIOUS
<1> USE DEF IInv
<1>1. CASE UNCHANGED vars
  <2>1. StoreInv'
    BY <1>1 DEF vars, StoreInv, TypeOK, LockHeld, Informed, CopyIsCurrent, Loaded
  <2> QED BY <1>1, <2>1, OtherAudit DEF vars
<1>2. ASSUME NEW p \in Projects, Edit(p) PROVE IInv'
  BY <1>2, EditStep, OtherAudit DEF Edit, storeVars, auditVars
<1>3. ASSUME NEW r \in Reviewers, Manage(r) \/ Kill(r) PROVE IInv'
  <2>1. CASE Replace(r)
    BY <2>1, ReplaceStep, ReplaceAudit
  <2>2. CASE Start(r)
    BY <2>2, StartStep, OtherAudit DEF Start, auditVars
  <2>3. CASE Acquire(r)
    BY <2>3, AcquireStep, OtherAudit DEF Acquire, auditVars
  <2>4. CASE Load(r)
    BY <2>4, LoadStep, OtherAudit DEF Load, auditVars
  <2>5. CASE Apply(r)
    BY <2>5, ApplyStep, OtherAudit DEF Apply, auditVars
  <2>6. CASE Busy(r) \/ Confirm(r) \/ Fail(r) \/ Kill(r)
    BY <2>6, ExitStep, OtherAudit DEF Busy, Confirm, Fail, Kill, auditVars
  <2> QED BY <1>3, <2>1, <2>2, <2>3, <2>4, <2>5, <2>6 DEF Manage
<1>4. ASSUME NEW a \in Auditors, Examine(a) PROVE IInv'
  BY <1>4, ExamineStore, ExamineAudit
<1> QED BY <1>1, <1>2, <1>3, <1>4 DEF Next

THEOREM Invariant == Spec => []IInv
  BY InitInv, Inductive, PTL DEF Spec

(* Every variable keeps its type. *)
THEOREM TypeCorrect == Spec => []TypeOK
<1>1. IInv => TypeOK
  BY DEF IInv, StoreInv
<1> QED BY <1>1, Invariant, PTL

(* An audit that exits 0 verified the sources it is about, saved a report
   that passed, and found an approval that was in force after that. *)
THEOREM PassesAreApproved == Spec => []PassIsApproved
<1>1. IInv => PassIsApproved
  BY DEF IInv, AuditInv
<1> QED BY <1>1, Invariant, PTL

-----------------------------------------------------------------------------
(* Refinement of the ledger.                                               *)

LEMMA EmptyLedger == LedgerOf(EmptyStore) = {}
  BY DEF LedgerOf, EmptyStore

(* What a command does to the store is what it does to the ledger. *)
LEMMA UpdateIsEffect ==
  ASSUME NEW t \in Store, NEW c \in Command, OwnScope(c)
  PROVE  LedgerOf(Updated(t, c)) = Ledger!Effect(c, LedgerOf(t))
<1> DEFINE u == Updated(t, c)
           granted == {[key |-> c.key, scope |-> s] : s \in c.grant}
<1>1. t.reviews \subseteq Review /\ t.dependencies \in [Deps -> SUBSET Scopes]
  BY DEF Store
<1>2. /\ c.key \in Keys
      /\ c.grant \subseteq Scopes
      /\ c.grant = {} \/ \E s \in Scopes : c.grant = {s}
  BY DEF Command
<1>3. Review \cap Deps = {}
  BY DepsAssumption DEF Review, Version
<1>4. CASE c.key \in Deps
  <2>1. u.reviews = t.reviews
    BY <1>1, <1>3, <1>4 DEF Updated
  <2>2. u.dependencies = [d \in Deps |-> IF d = c.key THEN c.grant ELSE t.dependencies[d]]
    BY DEF Updated
  <2>3. \A k \in t.reviews : k # c.key
    BY <1>1, <1>3, <1>4
  <2>4. {a \in [key : Deps, scope : Scopes] : a.scope \in u.dependencies[a.key]}
          = {a \in [key : Deps, scope : Scopes] :
               a.key # c.key /\ a.scope \in t.dependencies[a.key]} \cup granted
    BY <1>1, <1>2, <1>4, <2>2
  <2> HIDE DEF u
  <2> QED BY <2>1, <2>3, <2>4 DEF LedgerOf, Ledger!Effect, u
<1>5. CASE c.key \in Review
  <2>1. u.dependencies = t.dependencies
    BY <1>1, <1>3, <1>5 DEF Updated
  <2>2. u.reviews = IF c.grant # {} THEN t.reviews \cup {c.key}
                                    ELSE t.reviews \ {c.key}
    BY <1>3, <1>5 DEF Updated
  <2>3. c.grant # {} => c.grant = {c.key[1]}
    BY <1>2, <1>5 DEF OwnScope
  <2>4. \A d \in Deps : d # c.key
    BY <1>3, <1>5
  <2>5. {[key |-> k, scope |-> k[1]] : k \in u.reviews}
          = {a \in {[key |-> k, scope |-> k[1]] : k \in t.reviews} : a.key # c.key}
            \cup granted
    BY <2>2, <2>3
  <2> HIDE DEF u
  <2> QED BY <2>1, <2>4, <2>5 DEF LedgerOf, Ledger!Effect, u
<1> QED BY <1>2, <1>4, <1>5 DEF Keys

THEOREM Implements == Spec => LedgerSpec
<1>1. Init => Ledger!Init
  <2> SUFFICES ASSUME Init PROVE Ledger!Init
    OBVIOUS
  <2>1. Loaded = EmptyStore
    BY DEF Init, Loaded
  <2>2. \A r \in Reviewers : RequestOf(r) = [state |-> "none"]
    BY DEF Init, RequestOf, NoCommand
  <2> QED BY <2>1, <2>2, EmptyLedger DEF Init, Ledger!Init, Ledger!None
<1>2. IInv /\ IInv' /\ [Next]_vars => [Ledger!Next]_(Ledger!ledgerVars)
  <2> SUFFICES ASSUME IInv, IInv', [Next]_vars
               PROVE  [Ledger!Next]_(Ledger!ledgerVars)
    OBVIOUS
  <2> DEFINE ledger == LedgerOf(Loaded)
             request == [r \in Reviewers |-> RequestOf(r)]
  <2>1. ASSUME UNCHANGED <<store, reviewer, answer>>
        PROVE  UNCHANGED Ledger!ledgerVars
    BY <2>1 DEF Ledger!ledgerVars, Loaded, LedgerOf, RequestOf
  <2>2. CASE UNCHANGED vars
    BY <2>1, <2>2 DEF vars
  <2>3. ASSUME NEW p \in Projects, Edit(p) PROVE UNCHANGED Ledger!ledgerVars
    BY <2>1, <2>3 DEF Edit, storeVars
  <2>4. ASSUME NEW a \in Auditors, Examine(a) PROVE UNCHANGED Ledger!ledgerVars
    BY <2>1, <2>4 DEF Examine, Analyse, FirstTrust, Checks, Snapshot, SecondTrust,
                      Save, Abandon, storeVars
  <2>5. ASSUME NEW r \in Reviewers, Manage(r) \/ Kill(r)
        PROVE  [Ledger!Next]_(Ledger!ledgerVars)
    <3>1. /\ reviewer \in [Reviewers -> Managing]
          /\ reviewer' \in [Reviewers -> Managing]
          /\ answer \in [Reviewers -> {0, 2}]
      BY DEF IInv, StoreInv, TypeOK
    <3>2. CASE Start(r) \/ Acquire(r) \/ Load(r)
      <4>1. RequestOf(r)' = RequestOf(r)
        <5>1. CASE Start(r)
          BY <3>1, <5>1 DEF Start, Goes, RequestOf, Managing
        <5>2. CASE Acquire(r)
          BY <3>1, <5>2 DEF Acquire, Goes, RequestOf, Managing
        <5>3. CASE Load(r)
          BY <3>1, <5>3 DEF Load, RequestOf, Managing
        <5> QED BY <3>2, <5>1, <5>2, <5>3
      <4>2. \A s \in Reviewers \ {r} : reviewer'[s] = reviewer[s]
        BY <3>1, <3>2 DEF Start, Acquire, Load, Goes
      <4>3. request' = request
        BY <4>1, <4>2 DEF RequestOf
      <4>4. store' = store /\ answer' = answer
        BY <3>2 DEF Start, Acquire, Load
      <4> QED BY <4>3, <4>4 DEF Ledger!ledgerVars, Loaded, LedgerOf
    <3>3. CASE Apply(r)
      <4>1. /\ reviewer[r].at = "apply"
            /\ reviewer'[r].at = "write"
            /\ \A s \in Reviewers \ {r} : reviewer'[s] = reviewer[s]
            /\ UNCHANGED <<store, answer>>
        BY <3>1, <3>3 DEF Apply, NoCommand, Managing
      <4>2. reviewer'[r].command \in Command
        BY <4>1 DEF IInv, StoreInv, Informed
      <4>3. RequestOf(r) = Ledger!None
        BY <4>1 DEF RequestOf, Ledger!None
      <4>4. RequestOf(r)' = Ledger!Asked(reviewer'[r].command)
        BY <4>1 DEF RequestOf, Ledger!Asked
      <4>5. request' = [request EXCEPT ![r] = RequestOf(r)']
        BY <4>1 DEF RequestOf
      <4>6. ledger' = ledger
        BY <4>1 DEF Loaded, LedgerOf
      <4>7. Ledger!Ask(r)
        BY <4>1, <4>2, <4>3, <4>4, <4>5, <4>6
           DEF Ledger!Ask, Ledger!Command, Command
      <4> QED BY <4>7 DEF Ledger!Next
    <3>4. CASE Replace(r)
      <4>1. /\ reviewer[r].at = "write"
            /\ reviewer'[r].at = "protect"
            /\ \A s \in Reviewers \ {r} : reviewer'[s] = reviewer[s]
            /\ store' = reviewer[r].trust
            /\ UNCHANGED answer
        BY <3>1, <3>4 DEF Replace, NoCommand, Managing
      <4> DEFINE c == reviewer[r].command
      <4>2. /\ c \in Command
            /\ OwnScope(c)
            /\ reviewer[r].trust = Updated(Loaded, c)
            /\ Loaded \in Store
        BY <4>1, LoadedType DEF IInv, StoreInv, Informed, CopyIsCurrent
      <4>3. Loaded' = Updated(Loaded, c)
        <5>1. store' \in Store
          BY <4>1, <4>2, UpdatedType
        <5> QED BY <4>1, <4>2, <5>1, MissingAssumption DEF Loaded
      <4>4. ledger' = Ledger!Effect(c, ledger)
        BY <4>2, <4>3, UpdateIsEffect
      <4>5. RequestOf(r) = Ledger!Asked(c) /\ RequestOf(r)' = Ledger!Done
        BY <4>1 DEF RequestOf, Ledger!Asked, Ledger!Done
      <4>6. request' = [request EXCEPT ![r] = Ledger!Done]
        BY <4>1, <4>5 DEF RequestOf
      <4>7. Ledger!Commit(r)
        BY <4>1, <4>2, <4>4, <4>5, <4>6 DEF Ledger!Commit, Ledger!Command, Command
      <4> QED BY <4>7 DEF Ledger!Next
    <3>5. ASSUME reviewer' = [reviewer EXCEPT ![r] = NoCommand], store' = store
          PROVE  /\ request' = [request EXCEPT ![r] = Ledger!None]
                 /\ ledger' = ledger
      <4>1. /\ RequestOf(r)' = Ledger!None
            /\ \A s \in Reviewers \ {r} : reviewer'[s] = reviewer[s]
        BY <3>1, <3>5 DEF RequestOf, NoCommand, Ledger!None
      <4> QED BY <3>5, <4>1 DEF RequestOf, Loaded, LedgerOf
    <3>6. CASE Confirm(r)
      <4>1. RequestOf(r) = Ledger!Done
        BY <3>6 DEF Confirm, RequestOf, Ledger!Done
      <4>2. Ledger!Confirm(r)
        BY <3>5, <3>6, <4>1 DEF Confirm, Exits, Ledger!Confirm
      <4> QED BY <4>2 DEF Ledger!Next
    <3>7. CASE Busy(r) \/ Fail(r)
      <4>1. Ledger!Fail(r)
        BY <3>5, <3>7 DEF Busy, Fail, Exits, Ledger!Fail
      <4> QED BY <4>1 DEF Ledger!Next
    <3>8. CASE Kill(r)
      <4>1. Ledger!Die(r)
        BY <3>5, <3>8 DEF Kill, Ledger!Die
      <4> QED BY <4>1 DEF Ledger!Next
    <3> QED BY <2>5, <3>2, <3>3, <3>4, <3>6, <3>7, <3>8 DEF Manage
  <2> QED BY <2>2, <2>3, <2>4, <2>5 DEF Next
<1> QED BY <1>1, <1>2, Invariant, PTL DEF Spec, LedgerSpec, Ledger!Spec
=============================================================================
