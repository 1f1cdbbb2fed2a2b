-------------------------- MODULE AuditFactsProofs --------------------------
(***************************************************************************)
(* Proofs about AuditFacts, for any number of audits, inputs, edits and    *)
(* damages.                                                                *)
(*                                                                         *)
(* Versions only grow, and an audit reads every input but the             *)
(* configuration three times: for its identity, for its facts, and for the *)
(* comparison (Ordered).  If the first and the third reading are the same, *)
(* so is the second one (Agreement); so what is stored under an identity   *)
(* is of that identity, and its digest says so whatever is done to it      *)
(* afterwards (Truth).  The configuration is read before the first of      *)
(* them, which is why nothing is said of it here.                          *)
(***************************************************************************)
EXTENDS AuditFacts, TLAPS

(* The inputs that are read after the identity is digested. *)
Late == Inputs \ Configuration

(* The three readings of an audit come one after the other. *)
Ordered ==
  \A a \in Audits, f \in Inputs :
    /\ identity[a][f] <= input[f]
    /\ f \in Late /\ facts[a][f] # Unread =>
         identity[a][f] <= facts[a][f] /\ facts[a][f] <= input[f]
    /\ current[a][f] # Unread =>
         /\ facts[a][f] # Unread
         /\ f \in Late => facts[a][f] <= current[a][f]
         /\ current[a][f] <= input[f]

(* What an audit has where it is. *)
Agreed(a) == /\ current[a] = identity[a]
             /\ \A f \in Late : facts[a][f] = identity[a][f]
Progress ==
  \A a \in Audits :
    /\ at[a] \in {"config", "identity", "lookup"} =>
         facts[a] = Nothing /\ current[a] = Nothing /\ status[a] # "hit"
    /\ at[a] = "analyse" => identity[a] \in Identities \cup {Nothing}
    /\ at[a] \in {"recheck", "save", "stage"} => Whole(facts[a])
    /\ at[a] \in {"save", "stage"} => Agreed(a)
    /\ at[a] = "end" /\ ~unresolved[a] /\ identity[a] # Nothing => Agreed(a)
    /\ status[a] = "hit" => identity[a] \in Identities
    /\ at[a] # "idle" => exit[a] = Running

(* An entry, wherever it lies, was sealed with the facts of its identity. *)
Truth == \A id \in Identities : store[id] # NoEntry =>
           \A f \in Late : store[id].digest[f] = store[id].identity[f]

Inv == /\ TypeOK /\ Ordered /\ Progress /\ Truth
       /\ HitIsFresh /\ PassIsOfItsInputs

(* A reading without a gap is one of versions. *)
LEMMA WholeReading ==
  ASSUME NEW r \in Readings, Whole(r)
  PROVE  r \in Identities
BY DEF Readings, Identities, Whole, Unread

(* No identity is none: there is an input. *)
LEMMA NothingIsNoIdentity == Nothing \notin Identities
<1>1. PICK f \in Inputs : TRUE
  BY InputsAssumption
<1>2. Nothing[f] = -1
  BY <1>1 DEF Nothing, Unread
<1> QED
  BY <1>1, <1>2 DEF Identities, Versions

(* An entry that is taken for an identity holds that identity's facts. *)
LEMMA UsableIsTrue ==
  ASSUME Truth, NEW id \in Identities, Usable(id)
  PROVE  \A f \in Late : store[id].facts[f] = id[f]
BY DEF Truth, Usable, IsOf, Sealed

(* Equal first and last readings agree with what was read between them. *)
LEMMA Agreement ==
  ASSUME TypeOK, Ordered, NEW a \in Audits, Whole(current[a]), Same(a)
  PROVE  Agreed(a)
<1>1. \A f \in Late : facts[a][f] = identity[a][f]
  <2> SUFFICES ASSUME NEW f \in Late PROVE facts[a][f] = identity[a][f]
    OBVIOUS
  <2>1. /\ f \in Inputs
        /\ identity[a][f] \in Int /\ facts[a][f] \in Int /\ current[a][f] \in Int
        /\ current[a][f] # Unread
    BY DEF Late, TypeOK, Readings, Versions, Unread, Whole
  <2> QED
    BY <2>1 DEF Ordered, Same
<1> QED
  BY <1>1 DEF Agreed, Same

(* The invariant holds at first ... *)
LEMMA InvInit == Init => Inv
<1> SUFFICES ASSUME Init PROVE Inv
  OBVIOUS
<1> USE DEF Init, Nothing, Configurations, Unconfigured, Readings, Identities, Versions, Unread, Running
<1>1. TypeOK
  BY MaxVersionAssumption, MaxDamageAssumption DEF TypeOK, Places
<1>2. Ordered
  BY DEF Ordered
<1>3. Progress /\ HitIsFresh /\ PassIsOfItsInputs
  BY DEF Progress, HitIsFresh, PassIsOfItsInputs
<1>4. Truth
  BY DEF Truth
<1> QED
  BY <1>1, <1>2, <1>3, <1>4 DEF Inv

-----------------------------------------------------------------------------
(* ... and every step keeps each of its parts. *)
LEMMA StartKeeps ==
  ASSUME Inv, NEW a \in Audits, Start(a)
  PROVE  Inv'
<1> USE DEF Inv, Start, Fresh, Goes, files
<1>1. TypeOK'
  BY DEF TypeOK, Configurations, Unconfigured, Readings, Identities, Versions, Unread,
         Running, Places, Nothing, NoEntry, Entry
<1>2. Ordered'
  BY DEF Ordered, TypeOK, Readings, Identities, Versions, Unread, Nothing, Progress, Whole
<1>3. Progress'
  BY DEF Progress, Agreed, TypeOK, Whole
<1>4. Truth'
  BY DEF Truth
<1>5. HitIsFresh'
  BY DEF HitIsFresh, Progress, TypeOK
<1>6. PassIsOfItsInputs'
  BY DEF PassIsOfItsInputs, Progress, Agreed, Late, TypeOK, Running
<1> QED
  BY <1>1, <1>2, <1>3, <1>4, <1>5, <1>6

LEMMA ConfigureKeeps ==
  ASSUME Inv, NEW a \in Audits, Configure(a)
  PROVE  Inv'
<1> USE DEF Inv, Configure, files
<1>a. PICK f \in Configuration : config' = [config EXCEPT ![a][f] = input[f]]
  OBVIOUS
<1>b. config' \in [Audits -> Configurations]
  BY <1>a, InputsAssumption DEF TypeOK, Configurations, Identities
<1>1. TypeOK'
  BY <1>b DEF TypeOK
<1> QED
  BY <1>1 DEF Ordered, Progress, Agreed, Truth, Whole, HitIsFresh, PassIsOfItsInputs

LEMMA ConfiguredKeeps ==
  ASSUME Inv, NEW a \in Audits, Configured(a)
  PROVE  Inv'
<1> USE DEF Inv, Configured, Goes, files
<1>1. TypeOK'
  BY DEF TypeOK, Places
<1>2. Progress'
  BY DEF Progress, Agreed, TypeOK, Whole
<1> QED
  BY <1>1, <1>2 DEF Ordered, Agreed, Truth, HitIsFresh, PassIsOfItsInputs

LEMMA DigestKeeps ==
  ASSUME Inv, NEW a \in Audits, Digest(a)
  PROVE  Inv'
<1> USE DEF Inv, Digest, Goes, files
<1>a. PICK f \in Inputs : identity' = [identity EXCEPT ![a][f] = input[f]]
  OBVIOUS
<1>b. identity' \in [Audits -> Readings]
  BY <1>a DEF TypeOK, Readings, Identities
<1>1. TypeOK'
  BY <1>b DEF TypeOK
<1>2. Ordered'
  BY DEF Ordered, TypeOK, Readings, Identities, Versions, Unread, Nothing, Progress, Whole
<1>3. Progress'
  BY DEF Progress, Agreed, TypeOK, Whole
<1>4. Truth'
  BY DEF Truth
<1>5. HitIsFresh'
  BY DEF HitIsFresh, Progress, TypeOK
<1>6. PassIsOfItsInputs'
  BY DEF PassIsOfItsInputs, Progress, Agreed, Late, TypeOK, Running
<1> QED
  BY <1>1, <1>2, <1>3, <1>4, <1>5, <1>6

LEMMA NoIdentityKeeps ==
  ASSUME Inv, NEW a \in Audits, NoIdentity(a)
  PROVE  Inv'
<1> USE DEF Inv, NoIdentity, Goes, files
<1>1. TypeOK'
  BY DEF TypeOK, Configurations, Unconfigured, Readings, Identities, Versions, Unread,
         Running, Places, Nothing, NoEntry, Entry
<1>2. Ordered'
  BY DEF Ordered, TypeOK, Readings, Identities, Versions, Unread, Nothing, Progress, Whole
<1>3. Progress'
  BY DEF Progress, Agreed, TypeOK, Whole
<1>4. Truth'
  BY DEF Truth
<1>5. HitIsFresh'
  BY DEF HitIsFresh, Progress, TypeOK
<1>6. PassIsOfItsInputs'
  BY DEF PassIsOfItsInputs, Progress, Agreed, Late, TypeOK, Running
<1> QED
  BY <1>1, <1>2, <1>3, <1>4, <1>5, <1>6

LEMMA DigestedKeeps ==
  ASSUME Inv, NEW a \in Audits, Digested(a)
  PROVE  Inv'
<1> USE DEF Inv, Digested, Goes, files
<1>a. identity[a] \in Identities
  BY WholeReading DEF TypeOK
<1>1. TypeOK'
  BY <1>a DEF TypeOK, Places
<1>2. Ordered'
  BY DEF Ordered, TypeOK, Readings, Identities, Versions, Unread, Nothing, Progress, Whole
<1>3. Progress'
  BY <1>a DEF Progress, Agreed, TypeOK, Whole
<1>4. Truth'
  BY DEF Truth
<1>5. HitIsFresh'
  BY DEF HitIsFresh, Progress, TypeOK
<1>6. PassIsOfItsInputs'
  BY DEF PassIsOfItsInputs, Progress, Agreed, Late, TypeOK, Running
<1> QED
  BY <1>1, <1>2, <1>3, <1>4, <1>5, <1>6

LEMMA HitKeeps ==
  ASSUME Inv, NEW a \in Audits, Hit(a)
  PROVE  Inv'
<1> USE DEF Inv, Hit, Goes, files
<1> DEFINE new == Restored(store[identity[a]])
<1>a. /\ identity[a] \in Identities /\ store[identity[a]] \in Entry
      /\ facts' = [facts EXCEPT ![a] = new]
  BY DEF TypeOK, Usable
<1>b. \A f \in Late : store[identity[a]].facts[f] = identity[a][f]
  BY <1>a, UsableIsTrue
<1>c. \A f \in Inputs : new[f] = IF f \in Declarations THEN Unread
                                   ELSE store[identity[a]].facts[f]
  BY DEF Restored
<1>d. new \in Readings
  BY <1>a DEF Restored, Readings, Entry, Identities
<1>e. \A f \in Late : new[f] \in {Unread, identity[a][f]}
  BY <1>b, <1>c DEF Late
<1>f. /\ \A f \in Inputs : facts'[a][f] = new[f]
      /\ \A b \in Audits \ {a} : facts'[b] = facts[b]
      /\ current[a] = Nothing
  BY <1>a DEF TypeOK, Progress
<1> HIDE DEF new
<1>1. TypeOK'
  BY <1>a, <1>d DEF TypeOK, Places
<1>2. Ordered'
  <2> SUFFICES ASSUME NEW f \in Inputs
               PROVE  /\ f \in Late /\ new[f] # Unread =>
                           identity[a][f] <= new[f] /\ new[f] <= input[f]
                      /\ current[a][f] = Unread
    BY <1>f DEF Ordered
  <2>1. identity[a][f] <= input[f] /\ identity[a][f] \in Int
    BY <1>a DEF Ordered, Identities, Versions
  <2> QED
    BY <2>1, <1>e, <1>f DEF Nothing
<1>3. Progress'
  BY <1>a, <1>f DEF Progress, Agreed, TypeOK, Whole
<1>4. Truth'
  BY DEF Truth
<1>5. HitIsFresh'
  BY <1>b, <1>c, <1>f DEF HitIsFresh, Late, TypeOK
<1>6. PassIsOfItsInputs'
  BY <1>f DEF PassIsOfItsInputs, Progress, Agreed, Late, TypeOK, Running
<1> QED
  BY <1>1, <1>2, <1>3, <1>4, <1>5, <1>6

LEMMA MissKeeps ==
  ASSUME Inv, NEW a \in Audits, Miss(a)
  PROVE  Inv'
<1> USE DEF Inv, Miss, Goes, files
<1>1. TypeOK'
  BY DEF TypeOK, Configurations, Unconfigured, Readings, Identities, Versions, Unread,
         Running, Places, Nothing, NoEntry, Entry
<1>2. Ordered'
  BY DEF Ordered, TypeOK, Readings, Identities, Versions, Unread, Nothing, Progress, Whole
<1>3. Progress'
  BY DEF Progress, Agreed, TypeOK, Whole
<1>4. Truth'
  BY DEF Truth
<1>5. HitIsFresh'
  BY DEF HitIsFresh, Progress, TypeOK
<1>6. PassIsOfItsInputs'
  BY DEF PassIsOfItsInputs, Progress, Agreed, Late, TypeOK, Running
<1> QED
  BY <1>1, <1>2, <1>3, <1>4, <1>5, <1>6

LEMMA ImportThrowsKeeps ==
  ASSUME Inv, NEW a \in Audits, ImportThrows(a)
  PROVE  Inv'
<1> USE DEF Inv, ImportThrows, Goes, files
<1>1. TypeOK'
  BY DEF TypeOK, Configurations, Unconfigured, Readings, Identities, Versions, Unread,
         Running, Places, Nothing, NoEntry, Entry
<1>2. Ordered'
  BY DEF Ordered, TypeOK, Readings, Identities, Versions, Unread, Nothing, Progress, Whole
<1>3. Progress'
  BY DEF Progress, Agreed, TypeOK, Whole
<1>4. Truth'
  BY DEF Truth
<1>5. HitIsFresh'
  BY DEF HitIsFresh, Progress, TypeOK
<1>6. PassIsOfItsInputs'
  BY DEF PassIsOfItsInputs, Progress, Agreed, Late, TypeOK, Running
<1> QED
  BY <1>1, <1>2, <1>3, <1>4, <1>5, <1>6

LEMMA AnalyseKeeps ==
  ASSUME Inv, NEW a \in Audits, Analyse(a)
  PROVE  Inv'
<1> USE DEF Inv, Analyse, files
<1>a. PICK f \in Inputs :
        /\ facts[a][f] = Unread
        /\ facts' = [facts EXCEPT ![a][f] =
                       IF f \in Configuration THEN config[a][f] ELSE input[f]]
  OBVIOUS
<1> DEFINE v == IF f \in Configuration THEN config[a][f] ELSE input[f]
<1>b. /\ v \in Versions \cup {Unread}
      /\ f \in Late => v = input[f]
  BY DEF TypeOK, Configurations, Identities, Late
<1>c. /\ facts' = [facts EXCEPT ![a][f] = v]
      /\ facts' \in [Audits -> Readings]
  BY <1>a, <1>b DEF TypeOK, Readings
<1>d. /\ facts'[a][f] = v
      /\ \A g \in Inputs \ {f} : facts'[a][g] = facts[a][g]
      /\ \A b \in Audits \ {a} : facts'[b] = facts[b]
  BY <1>c DEF TypeOK, Readings
<1>e. current[a][f] = Unread
  BY <1>a DEF Ordered
<1> HIDE DEF v
<1>1. TypeOK'
  BY <1>c DEF TypeOK
<1>2. Ordered'
  <2> SUFFICES /\ f \in Late /\ v # Unread => identity[a][f] <= v /\ v <= input[f]
    BY <1>d, <1>e DEF Ordered
  <2>1. input[f] \in Int /\ identity[a][f] <= input[f]
    BY DEF TypeOK, Identities, Versions, Ordered
  <2> QED
    BY <2>1, <1>b
<1>3. Progress'
  BY <1>d DEF Progress, Agreed, TypeOK, Whole
<1>4. Truth'
  BY DEF Truth
<1>5. HitIsFresh'
  <2>1. status[a] = "hit" /\ f \in Inputs \ (Configuration \cup Declarations) =>
          identity[a] \in Identities /\ facts[a][f] = identity[a][f]
    BY DEF HitIsFresh, Progress
  <2>2. \A id \in Identities : id[f] # Unread
    BY DEF Identities, Versions, Unread
  <2> QED
    BY <1>a, <1>d, <2>1, <2>2 DEF HitIsFresh
<1>6. PassIsOfItsInputs'
  BY <1>d DEF PassIsOfItsInputs, Progress, Agreed, Late, TypeOK, Running
<1> QED
  BY <1>1, <1>2, <1>3, <1>4, <1>5, <1>6

LEMMA CheckedKeeps ==
  ASSUME Inv, NEW a \in Audits, Checked(a)
  PROVE  Inv'
<1> USE DEF Inv, Checked, Goes, files
<1>a. identity[a] # Nothing => identity[a] \in Identities
  BY DEF Progress
<1>1. TypeOK'
  BY <1>a DEF TypeOK, Places
<1>2. Ordered'
  BY DEF Ordered, TypeOK, Readings, Identities, Versions, Unread, Nothing, Progress, Whole
<1>3. Progress'
  BY DEF Progress, Agreed, TypeOK, Whole
<1>4. Truth'
  BY DEF Truth
<1>5. HitIsFresh'
  BY DEF HitIsFresh, Progress, TypeOK
<1>6. PassIsOfItsInputs'
  BY DEF PassIsOfItsInputs, Progress, Agreed, Late, TypeOK, Running
<1> QED
  BY <1>1, <1>2, <1>3, <1>4, <1>5, <1>6

LEMMA DigestAgainKeeps ==
  ASSUME Inv, NEW a \in Audits, DigestAgain(a)
  PROVE  Inv'
<1> USE DEF Inv, DigestAgain, Goes, files
<1>a. PICK f \in Inputs : current' = [current EXCEPT ![a][f] = input[f]]
  OBVIOUS
<1>b. current' \in [Audits -> Readings]
  BY <1>a DEF TypeOK, Readings, Identities
<1>1. TypeOK'
  BY <1>b DEF TypeOK
<1>2. Ordered'
  BY DEF Ordered, TypeOK, Readings, Identities, Versions, Unread, Nothing, Progress, Whole
<1>3. Progress'
  BY DEF Progress, Agreed, TypeOK, Whole
<1>4. Truth'
  BY DEF Truth
<1>5. HitIsFresh'
  BY DEF HitIsFresh, Progress, TypeOK
<1>6. PassIsOfItsInputs'
  BY DEF PassIsOfItsInputs, Progress, Agreed, Late, TypeOK, Running
<1> QED
  BY <1>1, <1>2, <1>3, <1>4, <1>5, <1>6

LEMMA AgreeKeeps ==
  ASSUME Inv, NEW a \in Audits, Agree(a)
  PROVE  Inv'
<1> USE DEF Inv, Agree, Goes, files
<1>a. Agreed(a)
  BY Agreement
<1>1. TypeOK'
  BY DEF TypeOK, Configurations, Unconfigured, Readings, Identities, Versions, Unread,
         Running, Places, Nothing, NoEntry, Entry
<1>2. Ordered'
  BY DEF Ordered, TypeOK, Readings, Identities, Versions, Unread, Nothing, Progress, Whole
<1>3. Progress'
  BY <1>a DEF Progress, Agreed, TypeOK, Whole
<1>4. Truth'
  BY DEF Truth
<1>5. HitIsFresh'
  BY DEF HitIsFresh, Progress, TypeOK
<1>6. PassIsOfItsInputs'
  BY DEF PassIsOfItsInputs, Progress, Agreed, Late, TypeOK, Running
<1> QED
  BY <1>1, <1>2, <1>3, <1>4, <1>5, <1>6

LEMMA SpoilKeeps ==
  ASSUME Inv, NEW a \in Audits, Spoil(a)
  PROVE  Inv'
<1> USE DEF Inv, Spoil, Goes, files
<1>1. TypeOK'
  BY DEF TypeOK, Configurations, Unconfigured, Readings, Identities, Versions, Unread,
         Running, Places, Nothing, NoEntry, Entry
<1>2. Ordered'
  BY DEF Ordered, TypeOK, Readings, Identities, Versions, Unread, Nothing, Progress, Whole
<1>3. Progress'
  BY DEF Progress, Agreed, TypeOK, Whole
<1>4. Truth'
  BY DEF Truth
<1>5. HitIsFresh'
  BY DEF HitIsFresh, Progress, TypeOK
<1>6. PassIsOfItsInputs'
  BY DEF PassIsOfItsInputs, Progress, Agreed, Late, TypeOK, Running
<1> QED
  BY <1>1, <1>2, <1>3, <1>4, <1>5, <1>6

LEMMA StageKeeps ==
  ASSUME Inv, NEW a \in Audits, Stage(a)
  PROVE  Inv'
<1> USE DEF Inv, Stage, Staged, Goes
<1>1. TypeOK'
  BY DEF TypeOK, Configurations, Unconfigured, Readings, Identities, Versions, Unread,
         Running, Places, Nothing, NoEntry, Entry
<1>2. Ordered'
  BY DEF Ordered, TypeOK, Readings, Identities, Versions, Unread, Nothing, Progress, Whole
<1>3. Progress'
  BY DEF Progress, Agreed, TypeOK, Whole
<1>4. Truth'
  BY DEF Truth
<1>5. HitIsFresh'
  BY DEF HitIsFresh, Progress, TypeOK
<1>6. PassIsOfItsInputs'
  BY DEF PassIsOfItsInputs, Progress, Agreed, Late, TypeOK, Running
<1> QED
  BY <1>1, <1>2, <1>3, <1>4, <1>5, <1>6

LEMMA ReplaceKeeps ==
  ASSUME Inv, NEW a \in Audits, Replace(a)
  PROVE  Inv'
<1> USE DEF Inv, Replace, EntryOf, Goes
<1>a. /\ identity[a] \in Identities /\ facts[a] \in Identities
      /\ \A f \in Late : facts[a][f] = identity[a][f]
  BY WholeReading DEF TypeOK, Progress, Agreed
<1>b. EntryOf(a) \in Entry
  BY <1>a DEF Entry
<1>1. TypeOK'
  BY <1>a, <1>b DEF TypeOK, Places
<1>2. Ordered'
  BY DEF Ordered, TypeOK, Readings, Identities, Versions, Unread, Nothing, Progress, Whole
<1>3. Progress'
  BY DEF Progress, Agreed, TypeOK, Whole
<1>4. Truth'
  BY <1>a DEF Truth, TypeOK
<1>5. HitIsFresh'
  BY DEF HitIsFresh, Progress, TypeOK
<1>6. PassIsOfItsInputs'
  BY DEF PassIsOfItsInputs, Progress, Agreed, Late, TypeOK, Running
<1> QED
  BY <1>1, <1>2, <1>3, <1>4, <1>5, <1>6

LEMMA NotStoredKeeps ==
  ASSUME Inv, NEW a \in Audits, NotStored(a)
  PROVE  Inv'
<1> USE DEF Inv, NotStored, Goes, files
<1>1. TypeOK'
  BY DEF TypeOK, Configurations, Unconfigured, Readings, Identities, Versions, Unread,
         Running, Places, Nothing, NoEntry, Entry
<1>2. Ordered'
  BY DEF Ordered, TypeOK, Readings, Identities, Versions, Unread, Nothing, Progress, Whole
<1>3. Progress'
  BY DEF Progress, Agreed, TypeOK, Whole
<1>4. Truth'
  BY DEF Truth
<1>5. HitIsFresh'
  BY DEF HitIsFresh, Progress, TypeOK
<1>6. PassIsOfItsInputs'
  BY DEF PassIsOfItsInputs, Progress, Agreed, Late, TypeOK, Running
<1> QED
  BY <1>1, <1>2, <1>3, <1>4, <1>5, <1>6

LEMMA PassKeeps ==
  ASSUME Inv, NEW a \in Audits, Pass(a)
  PROVE  Inv'
<1> USE DEF Inv, Pass, Goes, files
<1>1. TypeOK'
  BY DEF TypeOK, Configurations, Unconfigured, Readings, Identities, Versions, Unread,
         Running, Places, Nothing, NoEntry, Entry
<1>2. Ordered'
  BY DEF Ordered, TypeOK, Readings, Identities, Versions, Unread, Nothing, Progress, Whole
<1>3. Progress'
  BY DEF Progress, Agreed, TypeOK, Whole
<1>4. Truth'
  BY DEF Truth
<1>5. HitIsFresh'
  BY DEF HitIsFresh, Progress, TypeOK
<1>6. PassIsOfItsInputs'
  BY DEF PassIsOfItsInputs, Progress, Agreed, Late, TypeOK, Running
<1> QED
  BY <1>1, <1>2, <1>3, <1>4, <1>5, <1>6

LEMMA FailKeeps ==
  ASSUME Inv, NEW a \in Audits, Fail(a)
  PROVE  Inv'
<1> USE DEF Inv, Fail, Gone, Fresh, Goes, files
<1>1. TypeOK'
  BY DEF TypeOK, Configurations, Unconfigured, Readings, Identities, Versions, Unread,
         Running, Places, Nothing, NoEntry, Entry
<1>2. Ordered'
  BY DEF Ordered, TypeOK, Readings, Identities, Versions, Unread, Nothing, Progress, Whole
<1>3. Progress'
  BY DEF Progress, Agreed, TypeOK, Whole
<1>4. Truth'
  BY DEF Truth
<1>5. HitIsFresh'
  BY DEF HitIsFresh, Progress, TypeOK
<1>6. PassIsOfItsInputs'
  BY DEF PassIsOfItsInputs, Progress, Agreed, Late, TypeOK, Running
<1> QED
  BY <1>1, <1>2, <1>3, <1>4, <1>5, <1>6

LEMMA AbandonKeeps ==
  ASSUME Inv, NEW a \in Audits, Abandon(a)
  PROVE  Inv'
<1> USE DEF Inv, Abandon, Gone, Fresh, Goes, files
<1>1. TypeOK'
  BY DEF TypeOK, Configurations, Unconfigured, Readings, Identities, Versions, Unread,
         Running, Places, Nothing, NoEntry, Entry
<1>2. Ordered'
  BY DEF Ordered, TypeOK, Readings, Identities, Versions, Unread, Nothing, Progress, Whole
<1>3. Progress'
  BY DEF Progress, Agreed, TypeOK, Whole
<1>4. Truth'
  BY DEF Truth
<1>5. HitIsFresh'
  BY DEF HitIsFresh, Progress, TypeOK
<1>6. PassIsOfItsInputs'
  BY DEF PassIsOfItsInputs, Progress, Agreed, Late, TypeOK, Running
<1> QED
  BY <1>1, <1>2, <1>3, <1>4, <1>5, <1>6

LEMMA KillKeeps ==
  ASSUME Inv, NEW a \in Audits, Kill(a)
  PROVE  Inv'
<1> USE DEF Inv, Kill, Gone, Fresh, Goes, files
<1>1. TypeOK'
  BY DEF TypeOK, Configurations, Unconfigured, Readings, Identities, Versions, Unread,
         Running, Places, Nothing, NoEntry, Entry
<1>2. Ordered'
  BY DEF Ordered, TypeOK, Readings, Identities, Versions, Unread, Nothing, Progress, Whole
<1>3. Progress'
  BY DEF Progress, Agreed, TypeOK, Whole
<1>4. Truth'
  BY DEF Truth
<1>5. HitIsFresh'
  BY DEF HitIsFresh, Progress, TypeOK
<1>6. PassIsOfItsInputs'
  BY DEF PassIsOfItsInputs, Progress, Agreed, Late, TypeOK, Running
<1> QED
  BY <1>1, <1>2, <1>3, <1>4, <1>5, <1>6

LEMMA EditKeeps ==
  ASSUME Inv, NEW g \in Inputs, Edit(g)
  PROVE  Inv'
<1> USE DEF Inv, Edit, audit
<1>1. TypeOK'
  BY MaxVersionAssumption DEF TypeOK, Identities, Versions
<1>2. Ordered'
  <2> SUFFICES ASSUME NEW a \in Audits, NEW f \in Inputs
               PROVE  /\ identity[a][f] <= input'[f]
                      /\ f \in Late /\ facts[a][f] # Unread => facts[a][f] <= input'[f]
                      /\ current[a][f] # Unread => current[a][f] <= input'[f]
    BY DEF Ordered
  <2>1. input[f] <= input'[f] /\ input[f] \in Int /\ input'[f] \in Int
    BY DEF TypeOK, Identities, Versions
  <2>2. /\ identity[a][f] \in Int /\ facts[a][f] \in Int /\ current[a][f] \in Int
    BY DEF TypeOK, Readings, Versions, Unread
  <2> QED
    BY <2>1, <2>2 DEF Ordered
<1>3. Progress' /\ HitIsFresh' /\ PassIsOfItsInputs'
  BY DEF Progress, Agreed, Late, Whole, HitIsFresh, PassIsOfItsInputs
<1>4. Truth'
  BY DEF Truth
<1> QED
  BY <1>1, <1>2, <1>3, <1>4

LEMMA DamageKeeps ==
  ASSUME Inv, NEW id \in Identities, Damage(id)
  PROVE  Inv'
<1> USE DEF Inv, Damage, audit
<1>1. PICK other \in Identities : store' \in {[store EXCEPT ![id].facts = other],
                                            [store EXCEPT ![other] = store[id]]}
  OBVIOUS
<1>2. store[id] \in Entry
  BY DEF TypeOK
<1>3. TypeOK'
  BY <1>1, <1>2, MaxDamageAssumption DEF TypeOK, Entry
<1>4. Truth'
  BY <1>1, <1>2 DEF Truth, TypeOK, Entry
<1>5. Ordered' /\ Progress' /\ HitIsFresh' /\ PassIsOfItsInputs'
  BY DEF Ordered, Progress, Agreed, Whole, HitIsFresh, PassIsOfItsInputs
<1> QED
  BY <1>3, <1>4, <1>5

LEMMA StutterKeeps == Inv /\ UNCHANGED vars => Inv'
BY DEF Inv, vars, files, audit, TypeOK, Ordered, Progress, Agreed, Whole, Truth,
       HitIsFresh, PassIsOfItsInputs

LEMMA InvNext == Inv /\ [Next]_vars => Inv'
<1> SUFFICES ASSUME Inv, [Next]_vars PROVE Inv'
  OBVIOUS
<1>1. CASE UNCHANGED vars
  BY <1>1, StutterKeeps
<1>2. ASSUME NEW a \in Audits, Before(a) PROVE Inv'
  BY <1>2, StartKeeps, ConfigureKeeps, ConfiguredKeeps, DigestKeeps, NoIdentityKeeps, DigestedKeeps, HitKeeps,
     MissKeeps, ImportThrowsKeeps DEF Before
<1>3. ASSUME NEW a \in Audits, After(a) PROVE Inv'
  BY <1>3, AnalyseKeeps, CheckedKeeps, DigestAgainKeeps, AgreeKeeps, SpoilKeeps,
     StageKeeps, ReplaceKeeps, NotStoredKeeps, PassKeeps, FailKeeps, AbandonKeeps
  DEF After
<1>4. ASSUME NEW a \in Audits, Kill(a) PROVE Inv'
  BY <1>4, KillKeeps
<1>5. ASSUME NEW f \in Inputs, Edit(f) PROVE Inv'
  BY <1>5, EditKeeps
<1>6. ASSUME NEW id \in Identities, Damage(id) PROVE Inv'
  BY <1>6, DamageKeeps
<1> QED
  BY <1>1, <1>2, <1>3, <1>4, <1>5, <1>6 DEF Next

THEOREM Invariance == Spec => []Inv
BY InvInit, InvNext, PTL DEF Spec

-----------------------------------------------------------------------------
(* Every variable of the audits and of the store keeps its type, for any number
   of audits and inputs, and an identity that is looked up is complete. *)
THEOREM TypeCorrect == Spec => []TypeOK
<1>1. Inv => TypeOK
  BY DEF Inv
<1> QED
  BY <1>1, Invariance, PTL

(* Facts that are restored are of the inputs that were digested, but for the
   configuration, of which HitIsFresh does not speak. *)
THEOREM HitsAreFresh == Spec => []HitIsFresh
<1>1. Inv => HitIsFresh
  BY DEF Inv
<1> QED
  BY <1>1, Invariance, PTL

(* An audit with an identity that passes is of one state of the inputs it reads
   after its first digest; those it reads before are left out, as an edit of
   Topo.toml in between goes unseen (PassIsOfItsConfiguration fails). *)
THEOREM PassesAreOfTheirInputs == Spec => []PassIsOfItsInputs
<1>1. Inv => PassIsOfItsInputs
  BY DEF Inv
<1> QED
  BY <1>1, Invariance, PTL

(* No step but damage takes away what could be restored. *)
LEMMA StoreGrows ==
  ASSUME Inv, [Next]_vars, damages' = damages, NEW id \in Identities, Usable(id)
  PROVE  Usable(id)'
<1> USE DEF Usable, IsOf, Sealed
<1>1. CASE store' = store
  BY <1>1
<1>2. ASSUME NEW a \in Audits, Replace(a) PROVE Usable(id)'
  <2>1. identity[a] \in Identities /\ identity[a] # Nothing
    BY <1>2, NothingIsNoIdentity DEF Inv, TypeOK, Replace
  <2>2. EntryOf(a) # NoEntry
    BY <2>1 DEF EntryOf, NoEntry
  <2>3. store' = [store EXCEPT ![identity[a]] = EntryOf(a)]
    BY <1>2 DEF Replace
  <2>4. CASE id = identity[a]
    <3>1. store'[id] = EntryOf(a)
      BY <2>3, <2>4 DEF Inv, TypeOK
    <3> QED
      BY <3>1, <2>2, <2>4 DEF EntryOf
  <2>5. CASE id # identity[a]
    <3>1. store'[id] = store[id]
      BY <2>3, <2>5 DEF Inv, TypeOK
    <3> QED
      BY <3>1
  <2> QED
    BY <2>4, <2>5
<1>3. ASSUME NEW i \in Identities, Damage(i) PROVE FALSE
  BY <1>3 DEF Damage, Inv, TypeOK
<1>4. ASSUME NEW a \in Audits, Before(a) \/ Kill(a) PROVE store' = store
  BY <1>4 DEF Before, Start, Configure, Configured, Digest, NoIdentity, Digested, Hit, Miss, ImportThrows,
              Kill, files
<1>5. ASSUME NEW a \in Audits, After(a) PROVE store' = store \/ Replace(a)
  BY <1>5 DEF After, Analyse, Checked, DigestAgain, Agree, Spoil, Stage, Staged,
              NotStored, Pass, Fail, Abandon, files
<1>6. ASSUME NEW f \in Inputs, Edit(f) PROVE store' = store
  BY <1>6 DEF Edit
<1>7. UNCHANGED vars => store' = store
  BY DEF vars, files
<1> QED
  BY <1>1, <1>2, <1>3, <1>4, <1>5, <1>6, <1>7 DEF Next

(* Whatever saves, fails or dies: what could be restored still can. *)
THEOREM EntriesAreKept == Spec => EntriesSurvive
<1>1. Inv /\ [Next]_vars =>
        [damages' = damages => \A id \in Identities : Usable(id) => Usable(id)']_vars
  BY StoreGrows
<1> QED
  BY <1>1, Invariance, PTL DEF Spec, EntriesSurvive
=============================================================================
