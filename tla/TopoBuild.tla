----------------------------- MODULE TopoBuild -----------------------------
(***************************************************************************)
(* topo-build on one project (tools/topo-build/main.cpp, main): several    *)
(* invocations at once share the frontend cache under .topo-cache, which   *)
(* is three files that are written one after the other, and audit builds   *)
(* of one target share a directory of intermediates.  The declarations     *)
(* come from the cache or from the .topo files, the declaration check runs *)
(* in between, and the backend is handed a request file.                   *)
(*                                                                         *)
(* The cache's functions, the file lock, topo-check and the backend tools  *)
(* are external.  A file's modification time is its version: an edit makes *)
(* a new one.  The modules reachable from a root are one file here.        *)
(***************************************************************************)
EXTENDS Integers

CONSTANTS
  Procs,             (* the invocations, each with a process id            *)
  Roots,             (* the root .topo files, one target each              *)
  Recipes,           (* the configurations that are built                  *)
  MaxVersion,        (* bound: edits of each root's files                  *)
  MaxOverwrites,     (* bound: check models overwritten by someone else    *)
  EditsDuringBuild,  (* are files edited while a build runs?               *)
  FailedSaveKeepsOld, (* may a cache file that is not saved survive as was? *)
  Absent             (* there is no file, or none that loads               *)

(* The command line and Topo.toml, as far as the steps of a build depend on
   them: an audit, a Java project, native evidence asked for, whether the check
   runs, whether the cache is used, --clean-cache. *)
Recipe == [audit : BOOLEAN, java : BOOLEAN, evidence : BOOLEAN, check : BOOLEAN,
           incremental : BOOLEAN, clean : BOOLEAN]

(* An audit requires the check. *)
Accepted(r) == r.audit => r.check

ASSUME RecipesAssumption ==
  Recipes \subseteq {r \in Recipe : Accepted(r)}
ASSUME BoundsAssumption ==
  MaxVersion \in Nat /\ MaxOverwrites \in Nat
ASSUME FlagsAssumption ==
  EditsDuringBuild \in BOOLEAN /\ FailedSaveKeepsOld \in BOOLEAN
ASSUME NamesAssumption ==
  Procs \cap Roots = {} /\ Absent \notin Procs \cup Roots
ASSUME AbsentAssumption ==
  Absent \notin Nat

VARIABLES
  version,    (* the version of each root's .topo files                    *)
  cache,      (* the three files of .topo-cache                            *)
  dir,        (* the directories of intermediates                          *)
  lock,       (* the build lock of each target's audit directory           *)
  overwrites, (* how often a check model was overwritten                   *)
  at,         (* where each invocation is                                  *)
  build       (* what each invocation has in memory                        *)

vars == <<version, cache, dir, lock, overwrites, at, build>>

-----------------------------------------------------------------------------
(* Parsed declarations, named for the files they come from. *)
Declared == [root : Roots, version : 0 .. MaxVersion]
Current(t) == [root |-> t, version |-> version[t]]

(* What a manifest records: the files' times and the configuration's
   fingerprint, of which the language is one ingredient. *)
Manifest == [of : Declared, java : BOOLEAN]
NoCache == [symbols |-> Absent, visibility |-> Absent, manifest |-> Absent]

(* A check model is told by what was written over it last, 0 if nothing was: a
   content that was overwritten does not come back. *)
Model == 0 .. MaxOverwrites
Request == [by : Procs, model : Model \cup {Absent}]
NoDir == [request |-> Absent, model |-> Absent, sources |-> Absent]

(* Retained intermediates are not taken from ordinary cache records. *)
KeepsTemps(r) == r.audit \/ r.evidence
Incremental(r) == r.incremental /\ ~KeepsTemps(r)

(* The backend is asked for its capabilities, and with a check for the model it
   will compile. *)
Probes(r) == r.audit \/ r.evidence \/ (r.java /\ r.check)
BindsModel(r) == Probes(r) /\ r.check

(* The sources that are checked: a Java project's are those of the model, which
   has directories resolved, any other's those of the configuration. *)
SourcesOfModel(r) == r.java /\ BindsModel(r)
Selected(p, model) ==
  [by |-> p,
   model |-> IF SourcesOfModel(build[p].recipe) THEN model ELSE Absent]

(* The directory of intermediates: the target's in an audit, else one of this
   process alone. *)
WithoutPid(p) == build[p].root
Dir(p) == IF build[p].recipe.audit THEN build[p].root ELSE p

(* What the manifest of this build says ... *)
WithoutFingerprint(p) == [of |-> Current(build[p].root)]
NewManifest(p) == [of |-> Current(build[p].root), java |-> build[p].recipe.java]

(* ... and whether the one that was loaded is of these files and this
   configuration. *)
SameConfig(p) == build[p].manifest.java = build[p].recipe.java
Valid(p) == /\ build[p].manifest.of = Current(build[p].root)
            /\ SameConfig(p)

(* Is the check model the one that was bound into the request? *)
NeverLooked(p) == TRUE
Unchanged(p) == dir[Dir(p)].model = build[p].bound

(* What may be on disk after `new` was saved over `old`. *)
Saved(old, new) == {new, Absent} \cup IF FailedSaveKeepsOld THEN {old} ELSE {}

Idle == [recipe |-> Absent, root |-> Absent, manifest |-> Absent,
         symbols |-> Absent, visibility |-> Absent, bound |-> Absent,
         checked |-> Absent, selected |-> Absent, ran |-> Absent]

Places == {"idle", "open", "lock", "resolve", "loadSymbols", "loadVisibility",
           "parse", "saveSymbols", "saveVisibility", "saveManifest", "request",
           "probe", "bind", "select", "check", "verify", "dispatch", "backend"}

(* Places where the code has an early return with an error. *)
Fallible == {"open", "lock", "resolve", "parse", "request", "probe", "bind",
             "select", "check", "verify", "backend"}

Init == /\ version = [t \in Roots |-> 0]
        /\ cache = NoCache
        /\ dir = [d \in Procs \cup Roots |-> NoDir]
        /\ lock = [t \in Roots |-> Absent]
        /\ overwrites = 0
        /\ at = [p \in Procs |-> "idle"]
        /\ build = [p \in Procs |-> Idle]

Goes(p, place) == at' = [at EXCEPT ![p] = place]

(* The invocation is over; the lock goes with its process. *)
Exits(p) == /\ Goes(p, "idle")
            /\ build' = [build EXCEPT ![p] = Idle]
            /\ lock' = [t \in Roots |-> IF lock[t] = p THEN Absent ELSE lock[t]]

-----------------------------------------------------------------------------
(* An accepted configuration; then the cache is cleaned if that was asked for
   and the manifest is loaded. *)
Start(p) ==
  /\ at[p] = "idle"
  /\ \E r \in Recipes, t \in Roots :
       build' = [build EXCEPT ![p].recipe = r, ![p].root = t]
  /\ Goes(p, "open")
  /\ UNCHANGED <<version, cache, dir, lock, overwrites>>

Open(p) ==
  LET r == build[p].recipe
      found == IF r.clean THEN NoCache ELSE cache
  IN /\ at[p] = "open"
     /\ cache' = found
     /\ build' = [build EXCEPT ![p].manifest =
                     IF Incremental(r) THEN found.manifest ELSE Absent]
     /\ Goes(p, IF r.audit THEN "lock"
                ELSE IF Incremental(r) /\ found.manifest # Absent THEN "resolve"
                ELSE "parse")
     /\ UNCHANGED <<version, dir, lock, overwrites>>

(* Audit builds of one target take turns: who comes second gives up. *)
Ignored(t) == TRUE
Available(t) == lock[t] = Absent

Acquire(p) ==
  /\ at[p] = "lock"
  /\ Available(build[p].root)
  /\ lock' = [lock EXCEPT ![build[p].root] = p]
  /\ Goes(p, "parse")
  /\ UNCHANGED <<version, cache, dir, overwrites, build>>

Busy(p) ==
  /\ at[p] = "lock"
  /\ ~Available(build[p].root)
  /\ Exits(p)
  /\ UNCHANGED <<version, cache, dir, overwrites>>

(* The frontend cache is used when the manifest matches and both other files
   load, each read in a step of its own. *)
Resolve(p) ==
  /\ at[p] = "resolve"
  /\ Goes(p, IF Valid(p) THEN "loadSymbols" ELSE "parse")
  /\ build' = [build EXCEPT ![p].manifest = Absent]
  /\ UNCHANGED <<version, cache, dir, lock, overwrites>>

LoadSymbols(p) ==
  /\ at[p] = "loadSymbols"
  /\ build' = [build EXCEPT ![p].symbols = cache.symbols]
  /\ Goes(p, IF cache.symbols = Absent THEN "parse" ELSE "loadVisibility")
  /\ UNCHANGED <<version, cache, dir, lock, overwrites>>

LoadVisibility(p) ==
  /\ at[p] = "loadVisibility"
  /\ build' = [build EXCEPT ![p].visibility = cache.visibility]
  /\ Goes(p, IF cache.visibility = Absent THEN "parse" ELSE "saveManifest")
  /\ UNCHANGED <<version, cache, dir, lock, overwrites>>

(* The full frontend reads the files. *)
Parse(p) ==
  LET now == Current(build[p].root)
  IN /\ at[p] = "parse"
     /\ build' = [build EXCEPT ![p].symbols = now, ![p].visibility = now]
     /\ Goes(p, IF Incremental(build[p].recipe) THEN "saveSymbols" ELSE "request")
     /\ UNCHANGED <<version, cache, dir, lock, overwrites>>

(* Symbols and visibility go to the cache after a full frontend, the manifest
   after a cache hit too, with the times the files have by now.  Nothing stops
   for a save that fails. *)
SaveSymbols(p) ==
  /\ at[p] = "saveSymbols"
  /\ \E left \in Saved(cache.symbols, build[p].symbols) :
       cache' = [cache EXCEPT !.symbols = left]
  /\ Goes(p, "saveVisibility")
  /\ UNCHANGED <<version, dir, lock, overwrites, build>>

SaveVisibility(p) ==
  /\ at[p] = "saveVisibility"
  /\ \E left \in Saved(cache.visibility, build[p].visibility) :
       cache' = [cache EXCEPT !.visibility = left]
  /\ Goes(p, "saveManifest")
  /\ UNCHANGED <<version, dir, lock, overwrites, build>>

SaveManifest(p) ==
  /\ at[p] = "saveManifest"
  /\ \E left \in Saved(cache.manifest, NewManifest(p)) :
       cache' = [cache EXCEPT !.manifest = left]
  /\ Goes(p, "request")
  /\ UNCHANGED <<version, dir, lock, overwrites, build>>

-----------------------------------------------------------------------------
(* The request is written over whatever the directory holds. *)
WriteRequest(p) ==
  /\ at[p] = "request"
  /\ dir' = [dir EXCEPT ![Dir(p)].request = [by |-> p, model |-> Absent]]
  /\ Goes(p, IF Probes(build[p].recipe) THEN "probe" ELSE "select")
  /\ UNCHANGED <<version, cache, lock, overwrites, build>>

(* The backend says what it can do and generates the check model ... *)
Probe(p) ==
  /\ at[p] = "probe"
  /\ IF BindsModel(build[p].recipe)
     THEN /\ dir' = [dir EXCEPT ![Dir(p)].model = 0]
          /\ Goes(p, "bind")
     ELSE Goes(p, "select") /\ UNCHANGED dir
  /\ UNCHANGED <<version, cache, lock, overwrites, build>>

(* ... whose digest is bound into the request. *)
Bind(p) ==
  LET model == dir[Dir(p)].model
  IN /\ at[p] = "bind"
     /\ model # Absent
     /\ build' = [build EXCEPT ![p].bound = model]
     /\ dir' = [dir EXCEPT ![Dir(p)].request = [by |-> p, model |-> model]]
     /\ Goes(p, "select")
     /\ UNCHANGED <<version, cache, lock, overwrites>>

(* The sources to check are written out for topo-check. *)
Select(p) ==
  LET model == dir[Dir(p)].model
  IN /\ at[p] = "select"
     /\ build[p].recipe.check
     /\ SourcesOfModel(build[p].recipe) => model # Absent
     /\ dir' = [dir EXCEPT ![Dir(p)].sources = Selected(p, model)]
     /\ Goes(p, "check")
     /\ UNCHANGED <<version, cache, lock, overwrites, build>>

(* topo-check reads them, and the model it is given, if one was bound. *)
Check(p) ==
  LET model == IF BindsModel(build[p].recipe) THEN dir[Dir(p)].model ELSE Absent
  IN /\ at[p] = "check"
     /\ build' = [build EXCEPT ![p].checked = model,
                               ![p].selected = dir[Dir(p)].sources]
     /\ Goes(p, "verify")
     /\ UNCHANGED <<version, cache, dir, lock, overwrites>>

NoCheck(p) ==
  /\ at[p] = "select"
  /\ ~build[p].recipe.check
  /\ Goes(p, "dispatch")
  /\ UNCHANGED <<version, cache, dir, lock, overwrites, build>>

(* The check has passed, on the model that is still there. *)
Verify(p) ==
  /\ at[p] = "verify"
  /\ BindsModel(build[p].recipe) => Unchanged(p)
  /\ Goes(p, "dispatch")
  /\ UNCHANGED <<version, cache, dir, lock, overwrites, build>>

(* The backend reads the request. *)
Dispatch(p) ==
  /\ at[p] = "dispatch"
  /\ build' = [build EXCEPT ![p].ran = dir[Dir(p)].request]
  /\ Goes(p, "backend")
  /\ UNCHANGED <<version, cache, dir, lock, overwrites>>

(* Ordinary intermediates are removed after a build that succeeded. *)
Complete(p) ==
  /\ at[p] = "backend"
  /\ dir' = IF KeepsTemps(build[p].recipe) THEN dir
            ELSE [dir EXCEPT ![Dir(p)] = NoDir]
  /\ Exits(p)
  /\ UNCHANGED <<version, cache, overwrites>>

-----------------------------------------------------------------------------
(* A file that does not parse, a directory or request that cannot be written, a
   tool that is not found or that fails, a model that cannot be read or has
   changed, a check that does not pass: the build returns at once and leaves its
   files where they are. *)
Fail(p) ==
  /\ at[p] \in Fallible
  /\ Exits(p)
  /\ UNCHANGED <<version, cache, dir, overwrites>>

Kill(p) ==
  /\ at[p] # "idle"
  /\ Exits(p)
  /\ UNCHANGED <<version, cache, dir, overwrites>>

Edit(t) ==
  /\ EditsDuringBuild \/ \A p \in Procs : at[p] = "idle"
  /\ version[t] < MaxVersion
  /\ version' = [version EXCEPT ![t] = @ + 1]
  /\ UNCHANGED <<cache, dir, lock, overwrites, at, build>>

(* Somebody else writes another check model over one that is there. *)
Overwrite(d) ==
  /\ overwrites < MaxOverwrites
  /\ dir[d].model # Absent
  /\ overwrites' = overwrites + 1
  /\ dir' = [dir EXCEPT ![d].model = overwrites + 1]
  /\ UNCHANGED <<version, cache, lock, at, build>>

Frontend(p) ==
  \/ Start(p) \/ Open(p) \/ Acquire(p) \/ Busy(p)
  \/ Resolve(p) \/ LoadSymbols(p) \/ LoadVisibility(p) \/ Parse(p)
  \/ SaveSymbols(p) \/ SaveVisibility(p) \/ SaveManifest(p)

Backend(p) ==
  \/ WriteRequest(p) \/ Probe(p) \/ Bind(p)
  \/ Select(p) \/ Check(p) \/ NoCheck(p) \/ Verify(p)
  \/ Dispatch(p) \/ Complete(p)

Next ==
  \/ \E p \in Procs : Frontend(p) \/ Backend(p) \/ Fail(p) \/ Kill(p)
  \/ \E t \in Roots : Edit(t)
  \/ \E d \in Procs \cup Roots : Overwrite(d)

Spec == Init /\ [][Next]_vars

-----------------------------------------------------------------------------
(* Every variable has its type. *)
TypeOK ==
  /\ version \in [Roots -> 0 .. MaxVersion]
  /\ cache \in [symbols : Declared \cup {Absent},
                visibility : Declared \cup {Absent},
                manifest : Manifest \cup {Absent}]
  /\ dir \in [Procs \cup Roots -> [request : Request \cup {Absent},
                                   model : Model \cup {Absent},
                                   sources : Request \cup {Absent}]]
  /\ lock \in [Roots -> Procs \cup {Absent}]
  /\ overwrites \in Model
  /\ at \in [Procs -> Places]
  /\ build \in [Procs -> [recipe : Recipes \cup {Absent},
                          root : Roots \cup {Absent},
                          manifest : Manifest \cup {Absent},
                          symbols : Declared \cup {Absent},
                          visibility : Declared \cup {Absent},
                          bound : Model \cup {Absent},
                          checked : Model \cup {Absent},
                          selected : Request \cup {Absent},
                          ran : Request \cup {Absent}]]

(* The declarations that go to the backend, symbols and visibility both, are
   those of this build's own .topo files as they are, whether they were parsed
   or taken from a cache that other builds write to and may have died in
   ("a mismatch must invalidate the frontend cache"). *)
DeclarationsAreOwn ==
  \A p \in Procs : at[p] \in {"dispatch", "backend"} =>
    /\ build[p].symbols = Current(build[p].root)
    /\ build[p].visibility = Current(build[p].root)

(* A manifest that would be accepted now has beside it nothing that was parsed
   from other files than those it records, wherever the builds died that wrote
   the three files.  (Not so if files are edited while a build runs: the
   manifest's times are read after the parse.) *)
ValidCacheIsCurrent ==
  \A t \in Roots : cache.manifest # Absent /\ cache.manifest.of = Current(t) =>
    {cache.symbols, cache.visibility} \subseteq {Absent, Current(t)}

(* The backend is handed the request this build wrote, with the digest it
   bound: no other build's intermediates get in the way, in a directory of this
   process's own or under the audit build's lock, nor is the request removed
   by another build's cleanup. *)
BackendGetsOwnRequest ==
  \A p \in Procs : at[p] = "backend" =>
    build[p].ran = [by |-> p, model |-> build[p].bound]

(* A build that is checked reaches the backend only when topo-check was given
   what the backend compiles, whoever writes to the directory in between: with
   a bound check model, the one in the backend's request, and as the sources to
   check those this build selected, in a Java project from that same model. *)
CheckedModelIsBound ==
  \A p \in Procs : at[p] \in {"dispatch", "backend"} =>
    /\ BindsModel(build[p].recipe) =>
         build[p].checked = build[p].bound /\ build[p].bound # Absent
    /\ build[p].recipe.check =>
         build[p].selected = Selected(p, build[p].bound)
=============================================================================
