----------------------------- MODULE AuditFacts -----------------------------
(***************************************************************************)
(* The audit facts cache of topo-check: CheckRunner::loadConfig and run,   *)
(* and loadAuditFactsCache and saveAuditFactsCache of AuditSupport.cpp.    *)
(*                                                                         *)
(* An audit reads its configuration, digests its inputs (the configuration *)
(* again, .topo files, policy, evidence, what the provider names), takes   *)
(* the facts stored under that identity or analyses the inputs itself,     *)
(* checks, digests the inputs again and, if they are as they were, stores  *)
(* the facts for other audits.  Audits overlap, the inputs are edited      *)
(* meanwhile, an audit may be killed anywhere and what is stored may be    *)
(* damaged.                                                                *)
(*                                                                         *)
(* An input is known by its version; a version does not come back (an edit *)
(* that is undone within one audit is seen by neither digest).  A digest   *)
(* has no collisions, so what it is of stands for it.                      *)
(***************************************************************************)
EXTENDS Integers

CONSTANTS
  Audits,      (* processes that run topo-check --audit, again and again   *)
  Inputs,      (* the files an identity binds, among them ...              *)
  Configuration, (* ... what is read before: Topo.toml, the build model    *)
  Declarations,  (* ... what no facts are kept of: .topo, policy, evidence *)
  MaxVersion,  (* bound: how often a file is edited                        *)
  MaxDamage    (* bound: how often the store is damaged                    *)

ASSUME InputsAssumption ==
  /\ Inputs # {} (* Topo.toml is one *)
  /\ Configuration \subseteq Inputs
  /\ Declarations \subseteq Inputs \ Configuration
ASSUME MaxVersionAssumption == MaxVersion \in Nat
ASSUME MaxDamageAssumption == MaxDamage \in Nat

VARIABLES
  input,       (* the version of each file                                 *)
  store,       (* auditCacheDir: the entry under each key, or NoEntry      *)
  damages,     (* how often the store has been damaged                     *)
  at,          (* where an audit is                                        *)
  config,      (* the configuration it goes by                             *)
  identity,    (* auditCacheIdentity_: what was digested before ...        *)
  facts,       (* ... what the facts it reports are of ...                 *)
  current,     (* ... and what was digested afterwards                     *)
  status,      (* auditCacheStatus_                                        *)
  unresolved,  (* the report's `unresolved` got an entry from the cache    *)
  exit         (* the exit code of the last audit                          *)

files == <<input, store, damages>>
audit == <<at, config, identity, facts, current, status, unresolved, exit>>
vars == <<files, audit>>

Unread == -1
Versions == 0 .. MaxVersion
Identities == [Inputs -> Versions]
Readings == [Inputs -> Versions \cup {Unread}]
Nothing == [f \in Inputs |-> Unread]
Configurations == [Configuration -> Versions \cup {Unread}]
Unconfigured == [f \in Configuration |-> Unread]
NoEntry == [identity |-> Nothing, facts |-> Nothing, digest |-> Nothing]
Entry == [identity : Identities, facts : Identities, digest : Identities]
Running == -1

Places == {"idle", "config", "identity", "lookup", "analyse", "recheck", "save", "stage", "end"}

Begun(r) == \E f \in Inputs : r[f] # Unread
Whole(r) == \A f \in Inputs : r[f] # Unread

(* An entry that loadAuditFactsCache takes for identity id. *)
Unsealed(e) == TRUE
Sealed(e) == e.digest = e.facts
Anyones(e, id) == TRUE
IsOf(e, id) == e.identity = id
Usable(id) == /\ store[id] # NoEntry
              /\ IsOf(store[id], id)
              /\ Sealed(store[id])

EntryOf(a) == [identity |-> identity[a], facts |-> facts[a], digest |-> facts[a]]

Init ==
  /\ input = [f \in Inputs |-> 0]
  /\ store = [id \in Identities |-> NoEntry]
  /\ damages = 0
  /\ at = [a \in Audits |-> "idle"]
  /\ config = [a \in Audits |-> Unconfigured]
  /\ identity = [a \in Audits |-> Nothing]
  /\ facts = [a \in Audits |-> Nothing]
  /\ current = [a \in Audits |-> Nothing]
  /\ status = [a \in Audits |-> "disabled"]
  /\ unresolved = [a \in Audits |-> FALSE]
  /\ exit = [a \in Audits |-> Running]

Goes(a, place) == at' = [at EXCEPT ![a] = place]

(* The members of a CheckRunner that is made, or is gone. *)
Fresh(a) == /\ config' = [config EXCEPT ![a] = Unconfigured]
            /\ identity' = [identity EXCEPT ![a] = Nothing]
            /\ facts' = [facts EXCEPT ![a] = Nothing]
            /\ current' = [current EXCEPT ![a] = Nothing]
            /\ unresolved' = [unresolved EXCEPT ![a] = FALSE]
Gone(a) == /\ Fresh(a)
           /\ status' = [status EXCEPT ![a] = "disabled"]

-----------------------------------------------------------------------------
(* loadConfig: Topo.toml and the build model are parsed, or the run is over ... *)
Start(a) ==
  /\ at[a] = "idle"
  /\ Goes(a, "config")
  /\ Fresh(a)
  /\ \E on \in {"bypass", "disabled"} : status' = [status EXCEPT ![a] = on]
  /\ exit' = [exit EXCEPT ![a] = Running]
  /\ UNCHANGED files

Configure(a) ==
  /\ at[a] = "config"
  /\ \E f \in Configuration : config[a][f] = Unread
                              /\ config' = [config EXCEPT ![a][f] = input[f]]
  /\ UNCHANGED <<files, at, identity, facts, current, status, unresolved, exit>>

Configured(a) ==
  /\ at[a] = "config"
  /\ \A f \in Configuration : config[a][f] # Unread
  /\ Goes(a, "identity")
  /\ UNCHANGED <<files, config, identity, facts, current, status, unresolved, exit>>

(* ... the identity is digested file by file ... *)
Digest(a) ==
  /\ at[a] = "identity"
  /\ \E f \in Inputs : identity[a][f] = Unread
                       /\ identity' = [identity EXCEPT ![a][f] = input[f]]
  /\ UNCHANGED <<files, at, config, facts, current, status, unresolved, exit>>

(* ... or there is none: the provider has no identity, or an input cannot be
   digested ... *)
NoIdentity(a) ==
  /\ at[a] = "identity"
  /\ identity' = [identity EXCEPT ![a] = Nothing]
  /\ Goes(a, "analyse")
  /\ UNCHANGED <<files, config, facts, current, status, unresolved, exit>>

Digested(a) ==
  /\ at[a] = "identity"
  /\ Whole(identity[a])
  /\ Goes(a, IF status[a] = "bypass" THEN "lookup" ELSE "analyse")
  /\ UNCHANGED <<files, config, identity, facts, current, status, unresolved, exit>>

(* ... and the facts stored under it are restored ... *)
Restored(e) == [f \in Inputs |-> IF f \in Declarations THEN Unread ELSE e.facts[f]]
Hit(a) ==
  /\ at[a] = "lookup"
  /\ Usable(identity[a])
  /\ facts' = [facts EXCEPT ![a] = Restored(store[identity[a]])]
  /\ status' = [status EXCEPT ![a] = "hit"]
  /\ Goes(a, "analyse")
  /\ UNCHANGED <<files, config, identity, current, unresolved, exit>>

(* ... or not: there are none, the directory or the file is not protected, the
   provider rejects them; when it throws the status stays "bypass". *)
Miss(a) ==
  /\ at[a] = "lookup"
  /\ status' = [status EXCEPT ![a] = "miss"]
  /\ Goes(a, "analyse")
  /\ UNCHANGED <<files, config, identity, facts, current, unresolved, exit>>

ImportThrows(a) ==
  /\ at[a] = "lookup"
  /\ Usable(identity[a])
  /\ Goes(a, "analyse")
  /\ UNCHANGED <<files, config, identity, facts, current, status, unresolved, exit>>

-----------------------------------------------------------------------------
(* run: what there are no facts of is read, file by file, as the configuration
   says, which is not read again; report, trust and checks follow. *)
Analyse(a) ==
  /\ at[a] = "analyse"
  /\ \E f \in Inputs :
       /\ facts[a][f] = Unread
       /\ facts' = [facts EXCEPT ![a][f] =
                      IF f \in Configuration THEN config[a][f] ELSE input[f]]
  /\ UNCHANGED <<files, at, config, identity, current, status, unresolved, exit>>

Checked(a) ==
  /\ at[a] = "analyse"
  /\ Whole(facts[a])
  /\ Goes(a, IF identity[a] = Nothing THEN "end" ELSE "recheck")
  /\ UNCHANGED <<files, config, identity, facts, current, status, unresolved, exit>>

(* The inputs are digested again ... *)
DigestAgain(a) ==
  /\ at[a] = "recheck"
  /\ \E f \in Inputs : current[a][f] = Unread
                       /\ current' = [current EXCEPT ![a][f] = input[f]]
  /\ UNCHANGED <<files, at, config, identity, facts, status, unresolved, exit>>

NeverDiffer(a) == TRUE
Same(a) == current[a] = identity[a]
Agree(a) ==
  /\ at[a] = "recheck"
  /\ Whole(current[a])
  /\ Same(a)
  /\ Goes(a, IF status[a] = "miss" THEN "save" ELSE "end")
  /\ UNCHANGED <<files, config, identity, facts, current, status, unresolved, exit>>

(* ... and if they differ, if one cannot be digested or the provider cannot
   export its facts, the audit has not passed. *)
Spoil(a) ==
  /\ \/ at[a] = "recheck" /\ (Whole(current[a]) => ~Same(a))
     \/ at[a] = "save"
  /\ unresolved' = [unresolved EXCEPT ![a] = TRUE]
  /\ Goes(a, "end")
  /\ UNCHANGED <<files, config, identity, facts, current, status, exit>>

-----------------------------------------------------------------------------
(* saveAuditFactsCache: the temporary file is written under the lock of the
   key, which is held until the entry is replaced ... *)
Available(a) == \A b \in Audits \ {a} : at[b] = "stage" => identity[b] # identity[a]

InPlace(a) == [store EXCEPT ![identity[a]] =
  [identity |-> identity[a], facts |-> facts[a], digest |-> [f \in Inputs |-> MaxVersion]]]
Staged(a) == store

Stage(a) ==
  /\ at[a] = "save"
  /\ Available(a)
  /\ store' = Staged(a)
  /\ Goes(a, "stage")
  /\ UNCHANGED <<input, damages, config, identity, facts, current, status,
                 unresolved, exit>>

Replace(a) ==
  /\ at[a] = "stage"
  /\ store' = [store EXCEPT ![identity[a]] = EntryOf(a)]
  /\ Goes(a, "end")
  /\ UNCHANGED <<input, damages, config, identity, facts, current, status,
                 unresolved, exit>>

(* ... or nothing is stored, and the audit goes on: the facts are incomplete,
   the lock is taken, something is not protected or cannot be written. *)
NotStored(a) ==
  /\ at[a] \in {"save", "stage"}
  /\ Goes(a, "end")
  /\ UNCHANGED <<files, config, identity, facts, current, status, unresolved, exit>>

(* The snapshot, trust and declarations decide what is left to decide.  (What
   a passing audit had is kept for the properties.) *)
Pass(a) ==
  /\ at[a] = "end"
  /\ ~unresolved[a]
  /\ Goes(a, "idle")
  /\ exit' = [exit EXCEPT ![a] = 0]
  /\ UNCHANGED <<files, config, identity, facts, current, status, unresolved>>

Fail(a) ==
  /\ at[a] = "end"
  /\ Goes(a, "idle")
  /\ Gone(a)
  /\ exit' = [exit EXCEPT ![a] = 1]
  /\ UNCHANGED files

(* main: a configuration or a frontend that fails, or an exception other than
   the cache's own. *)
Abandon(a) ==
  /\ at[a] \in {"config", "analyse", "end"}
  /\ Goes(a, "idle")
  /\ Gone(a)
  /\ exit' = [exit EXCEPT ![a] = 2]
  /\ UNCHANGED files

Kill(a) ==
  /\ at[a] # "idle"
  /\ Goes(a, "idle")
  /\ Gone(a)
  /\ UNCHANGED <<files, exit>>

-----------------------------------------------------------------------------
(* A file is edited; an entry's facts are altered, or it gets under another
   key. *)
Edit(f) ==
  /\ input[f] < MaxVersion
  /\ input' = [input EXCEPT ![f] = @ + 1]
  /\ UNCHANGED <<store, damages, audit>>

Damage(id) ==
  /\ store[id] # NoEntry
  /\ damages < MaxDamage
  /\ damages' = damages + 1
  /\ \E other \in Identities : store' \in {[store EXCEPT ![id].facts = other],
                                           [store EXCEPT ![other] = store[id]]}
  /\ UNCHANGED <<input, audit>>

Before(a) == \/ Start(a) \/ Configure(a) \/ Configured(a) \/ Digest(a) \/ NoIdentity(a) \/ Digested(a)
             \/ Hit(a) \/ Miss(a) \/ ImportThrows(a)
After(a) == \/ Analyse(a) \/ Checked(a) \/ DigestAgain(a) \/ Agree(a) \/ Spoil(a)
            \/ Stage(a) \/ Replace(a) \/ NotStored(a) \/ Pass(a) \/ Fail(a) \/ Abandon(a)

Next == \/ \E a \in Audits : Before(a) \/ After(a) \/ Kill(a)
        \/ \E f \in Inputs : Edit(f)
        \/ \E id \in Identities : Damage(id)

Spec == Init /\ [][Next]_vars
-----------------------------------------------------------------------------
(* Type correctness; an identity that is looked up or stored is complete. *)
TypeOK ==
  /\ input \in Identities
  /\ store \in [Identities -> Entry \cup {NoEntry}]
  /\ damages \in 0 .. MaxDamage
  /\ at \in [Audits -> Places]
  /\ config \in [Audits -> Configurations]
  /\ identity \in [Audits -> Readings]
  /\ facts \in [Audits -> Readings]
  /\ current \in [Audits -> Readings]
  /\ status \in [Audits -> {"disabled", "bypass", "miss", "hit"}]
  /\ unresolved \in [Audits -> BOOLEAN]
  /\ exit \in [Audits -> {Running, 0, 1, 2}]
  /\ \A a \in Audits : at[a] \in {"lookup", "recheck", "save", "stage"} =>
       identity[a] \in Identities

(* Facts that are restored are those that an analysis of the inputs just
   digested gives, however the audits that stored them overlapped, were edited
   under or died, and whatever has been done to the store since.  (Not so the
   configuration they were gained under: see PassIsOfItsConfiguration.) *)
HitIsFresh ==
  \A a \in Audits : status[a] = "hit" =>
    \A f \in Inputs \ (Configuration \cup Declarations) : facts[a][f] = identity[a][f]

(* An audit that had an identity and exits 0 reports on one state of the inputs
   it read after its first digest: each was digested, analysed and digested
   again with the same contents, or its facts restored for them, and never
   before it was edited and after. *)
PassIsOfItsInputs ==
  \A a \in Audits : exit[a] = 0 /\ identity[a] # Nothing =>
    /\ current[a] = identity[a]
    /\ \A f \in Inputs \ Configuration : facts[a][f] = identity[a][f]

(* "analysis input identity changed during audit" is an error: an audit that
   exits 0 went by the Topo.toml and the build model that its identity is of,
   and so did the one whose facts it restored.  It does not hold: both files
   are parsed before the identity is digested. *)
PassIsOfItsConfiguration ==
  \A a \in Audits : exit[a] = 0 /\ identity[a] # Nothing =>
    \A f \in Configuration : config[a][f] = identity[a][f] /\ facts[a][f] = identity[a][f]

(* What can be reused stays so: no audit that saves, fails or dies at any point
   takes away or spoils an entry that could be restored. *)
EntriesSurvive ==
  [][damages' = damages => \A id \in Identities : Usable(id) => Usable(id)']_vars
=============================================================================
