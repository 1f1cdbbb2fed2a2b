-------------------------- MODULE TopoBuildProofs --------------------------
(***************************************************************************)
(* Theorems about TopoBuild, for any number of invocations, recipes, edits *)
(* and overwritten models: types, what the backend is handed, and, for one *)
(* root and files that are not edited during a build, that the             *)
(* declarations it gets are those of the files.                            *)
(***************************************************************************)
EXTENDS TopoBuild, TLAPS

(* The types of the variables, by name. *)
Build == [recipe : Recipes \cup {Absent}, root : Roots \cup {Absent},
          manifest : Manifest \cup {Absent}, symbols : Declared \cup {Absent},
          visibility : Declared \cup {Absent}, bound : Model \cup {Absent},
          checked : Model \cup {Absent}, selected : Request \cup {Absent},
          ran : Request \cup {Absent}]
Cache == [symbols : Declared \cup {Absent}, visibility : Declared \cup {Absent},
          manifest : Manifest \cup {Absent}]
Dirs == [Procs \cup Roots -> [request : Request \cup {Absent},
                              model : Model \cup {Absent},
                              sources : Request \cup {Absent}]]

(* An invocation that runs builds some root by some recipe. *)
Configured == \A p \in Procs : at[p] # "idle" =>
                build[p].recipe \in Recipes /\ build[p].root \in Roots

TInv == TypeOK /\ Configured

-----------------------------------------------------------------------------
(* What the type invariant says of one invocation. *)
LEMMA Typed ==
  ASSUME TInv
  PROVE  /\ cache \in Cache /\ dir \in Dirs
         /\ \A p \in Procs :
              /\ build[p] \in Build
              /\ at[p] # "idle" =>
                   /\ build[p].recipe \in Recipes /\ build[p].root \in Roots
                   /\ Dir(p) \in Procs \cup Roots
                   /\ Current(build[p].root) \in Declared
  BY DEF TInv, TypeOK, Configured, Build, Cache, Dirs, Dir, Current, Declared

(* An invocation takes a step of its own to a well-typed state. *)
LEMMA StepType ==
  ASSUME TInv, NEW p \in Procs, NEW place \in Places, Goes(p, place), NEW b \in Build,
         build' = [build EXCEPT ![p] = b],
         place # "idle" => b.recipe \in Recipes /\ b.root \in Roots,
         cache' \in Cache, dir' \in Dirs,
         lock' \in [Roots -> Procs \cup {Absent}],
         UNCHANGED <<version, overwrites>>
  PROVE  TInv'
  <1>1. at' \in [Procs -> Places] /\ build' \in [Procs -> Build]
    BY DEF TInv, TypeOK, Goes, Build
  <1>2. Configured'
    BY DEF TInv, TypeOK, Goes, Build, Configured
  <1>3. QED BY <1>1, <1>2 DEF TInv, TypeOK, Build, Cache, Dirs

(* The same for a step within a build that keeps what it is a build of. *)
LEMMA GoType ==
  ASSUME TInv, NEW p \in Procs, NEW place \in Places, Goes(p, place),
         at[p] # "idle", NEW b \in Build,
         b.recipe = build[p].recipe, b.root = build[p].root,
         build' = [build EXCEPT ![p] = b],
         cache' \in Cache, dir' \in Dirs, lock' = lock,
         UNCHANGED <<version, overwrites>>
  PROVE  TInv'
  <1>1. lock' \in [Roots -> Procs \cup {Absent}] BY DEF TInv, TypeOK
  <1>2. b.recipe \in Recipes /\ b.root \in Roots BY Typed
  <1>3. QED BY <1>1, <1>2, StepType

(* ... and for one that leaves its memory alone. *)
LEMMA StayType ==
  ASSUME TInv, NEW p \in Procs, NEW place \in Places, Goes(p, place),
         at[p] # "idle", build' = build,
         cache' \in Cache, dir' \in Dirs, lock' = lock,
         UNCHANGED <<version, overwrites>>
  PROVE  TInv'
  <1>1. build[p] \in Build /\ build' = [build EXCEPT ![p] = build[p]]
    BY Typed DEF TInv, TypeOK
  <1>2. QED BY <1>1, GoType

LEMMA IdleType == Idle \in Build
  BY DEF Idle, Build

LEMMA ExitType ==
  ASSUME TInv, NEW p \in Procs, Exits(p), UNCHANGED <<version, cache, overwrites>>,
         dir' \in Dirs
  PROVE  TInv'
  <1>1. lock' \in [Roots -> Procs \cup {Absent}]
    BY DEF Exits, TInv, TypeOK
  <1>2. /\ Goes(p, "idle") /\ "idle" \in Places
        /\ build' = [build EXCEPT ![p] = Idle]
        /\ cache' \in Cache
    BY Typed DEF Exits, Places
  <1>3. QED BY <1>1, <1>2, IdleType, StepType

(* The steps up to the cache's manifest. *)
LEMMA FrontendType == ASSUME TInv, NEW p \in Procs, Frontend(p) PROVE TInv'
  <1>0. /\ cache \in Cache /\ dir \in Dirs /\ build[p] \in Build
        /\ lock \in [Roots -> Procs \cup {Absent}]
    BY Typed DEF TInv, TypeOK
  <1>1. CASE Start(p)
    <2>1. PICK r \in Recipes, t \in Roots :
            build' = [build EXCEPT ![p].recipe = r, ![p].root = t]
      BY <1>1 DEF Start
    <2>. DEFINE b == [build[p] EXCEPT !.recipe = r, !.root = t]
    <2>2. build' = [build EXCEPT ![p] = b]
      BY <2>1 DEF TInv, TypeOK
    <2>3. b \in Build /\ b.recipe = r /\ b.root = t
      BY <1>0 DEF Build
    <2>4. /\ Goes(p, "open") /\ "open" \in Places
          /\ UNCHANGED <<version, cache, dir, lock, overwrites>>
      BY <1>1 DEF Start, Places
    <2>. HIDE DEF b
    <2>5. QED BY <1>0, <2>2, <2>3, <2>4, StepType
  <1>2. CASE Open(p)
    <2>1. PICK m \in Manifest \cup {Absent} : build' = [build EXCEPT ![p].manifest = m]
      BY <1>2, <1>0, Typed DEF Open, NoCache, Cache
    <2>. DEFINE b == [build[p] EXCEPT !.manifest = m]
    <2>2. build' = [build EXCEPT ![p] = b]
      BY <2>1 DEF TInv, TypeOK
    <2>3. b \in Build /\ b.recipe = build[p].recipe /\ b.root = build[p].root
      BY <1>0 DEF Build
    <2>4. PICK place \in {"lock", "resolve", "parse"} : Goes(p, place)
      BY <1>2 DEF Open
    <2>5. /\ place \in Places /\ at[p] # "idle"
          /\ cache' \in Cache /\ dir' \in Dirs
          /\ UNCHANGED <<version, lock, overwrites>>
      BY <1>2, <1>0 DEF Open, Places, NoCache, Cache
    <2>. HIDE DEF b
    <2>6. QED BY <2>2, <2>3, <2>4, <2>5, GoType
  <1>3. CASE Acquire(p)
    <2>1. /\ Goes(p, "parse") /\ "parse" \in Places
          /\ build' = [build EXCEPT ![p] = build[p]]
          /\ build[p].recipe \in Recipes /\ build[p].root \in Roots
          /\ UNCHANGED <<version, cache, dir, overwrites>>
          /\ lock' \in [Roots -> Procs \cup {Absent}]
      BY <1>3, <1>0, Typed DEF Acquire, Places, TInv, TypeOK
    <2>2. QED BY <1>0, <2>1, StepType
  <1>4. CASE Busy(p)
    BY <1>4, <1>0, ExitType DEF Busy
  <1>5. CASE Resolve(p)
    <2>1. PICK m \in {Absent} : build' = [build EXCEPT ![p].manifest = m]
      BY <1>5, <1>0, Typed DEF Resolve
    <2>. DEFINE b == [build[p] EXCEPT !.manifest = m]
    <2>2. build' = [build EXCEPT ![p] = b]
      BY <2>1 DEF TInv, TypeOK
    <2>3. b \in Build /\ b.recipe = build[p].recipe /\ b.root = build[p].root
      BY <1>0 DEF Build
    <2>4. PICK place \in {"loadSymbols", "parse"} : Goes(p, place)
      BY <1>5 DEF Resolve
    <2>5. /\ place \in Places /\ at[p] # "idle"
          /\ cache' \in Cache /\ dir' \in Dirs
          /\ UNCHANGED <<version, lock, overwrites>>
      BY <1>5, <1>0 DEF Resolve, Places
    <2>. HIDE DEF b
    <2>6. QED BY <2>2, <2>3, <2>4, <2>5, GoType
  <1>6. CASE LoadSymbols(p)
    <2>1. PICK m \in Declared \cup {Absent} : build' = [build EXCEPT ![p].symbols = m]
      BY <1>6, <1>0, Typed DEF LoadSymbols, Cache
    <2>. DEFINE b == [build[p] EXCEPT !.symbols = m]
    <2>2. build' = [build EXCEPT ![p] = b]
      BY <2>1 DEF TInv, TypeOK
    <2>3. b \in Build /\ b.recipe = build[p].recipe /\ b.root = build[p].root
      BY <1>0 DEF Build
    <2>4. PICK place \in {"loadVisibility", "parse"} : Goes(p, place)
      BY <1>6 DEF LoadSymbols
    <2>5. /\ place \in Places /\ at[p] # "idle"
          /\ cache' \in Cache /\ dir' \in Dirs
          /\ UNCHANGED <<version, lock, overwrites>>
      BY <1>6, <1>0 DEF LoadSymbols, Places
    <2>. HIDE DEF b
    <2>6. QED BY <2>2, <2>3, <2>4, <2>5, GoType
  <1>7. CASE LoadVisibility(p)
    <2>1. PICK m \in Declared \cup {Absent} : build' = [build EXCEPT ![p].visibility = m]
      BY <1>7, <1>0, Typed DEF LoadVisibility, Cache
    <2>. DEFINE b == [build[p] EXCEPT !.visibility = m]
    <2>2. build' = [build EXCEPT ![p] = b]
      BY <2>1 DEF TInv, TypeOK
    <2>3. b \in Build /\ b.recipe = build[p].recipe /\ b.root = build[p].root
      BY <1>0 DEF Build
    <2>4. PICK place \in {"saveManifest", "parse"} : Goes(p, place)
      BY <1>7 DEF LoadVisibility
    <2>5. /\ place \in Places /\ at[p] # "idle"
          /\ cache' \in Cache /\ dir' \in Dirs
          /\ UNCHANGED <<version, lock, overwrites>>
      BY <1>7, <1>0 DEF LoadVisibility, Places
    <2>. HIDE DEF b
    <2>6. QED BY <2>2, <2>3, <2>4, <2>5, GoType
  <1>8. CASE Parse(p)
    <2>1. PICK m \in Declared :
            build' = [build EXCEPT ![p].symbols = m, ![p].visibility = m]
      BY <1>8, Typed DEF Parse
    <2>. DEFINE b == [build[p] EXCEPT !.symbols = m, !.visibility = m]
    <2>2. build' = [build EXCEPT ![p] = b]
      BY <2>1 DEF TInv, TypeOK
    <2>3. b \in Build /\ b.recipe = build[p].recipe /\ b.root = build[p].root
      BY <1>0 DEF Build
    <2>4. PICK place \in {"saveSymbols", "request"} : Goes(p, place)
      BY <1>8 DEF Parse
    <2>5. /\ place \in Places /\ at[p] # "idle"
          /\ cache' \in Cache /\ dir' \in Dirs
          /\ UNCHANGED <<version, lock, overwrites>>
      BY <1>8, <1>0 DEF Parse, Places
    <2>. HIDE DEF b
    <2>6. QED BY <2>2, <2>3, <2>4, <2>5, GoType
  <1>9. CASE SaveSymbols(p)
    <2>1. build[p].symbols \in Declared \cup {Absent}
      BY <1>0 DEF Build
    <2>2. cache' \in Cache
      BY <1>9, <1>0, <2>1 DEF SaveSymbols, Saved, Cache
    <2>3. /\ Goes(p, "saveVisibility") /\ "saveVisibility" \in Places
          /\ at[p] # "idle" /\ build' = build /\ dir' \in Dirs
          /\ UNCHANGED <<version, lock, overwrites>>
      BY <1>9, <1>0 DEF SaveSymbols, Places
    <2>4. QED BY <2>2, <2>3, StayType
  <1>10. CASE SaveVisibility(p)
    <2>1. build[p].visibility \in Declared \cup {Absent}
      BY <1>0 DEF Build
    <2>2. cache' \in Cache
      BY <1>10, <1>0, <2>1 DEF SaveVisibility, Saved, Cache
    <2>3. /\ Goes(p, "saveManifest") /\ "saveManifest" \in Places
          /\ at[p] # "idle" /\ build' = build /\ dir' \in Dirs
          /\ UNCHANGED <<version, lock, overwrites>>
      BY <1>10, <1>0 DEF SaveVisibility, Places
    <2>4. QED BY <2>2, <2>3, StayType
  <1>11. CASE SaveManifest(p)
    <2>1. NewManifest(p) \in Manifest
      BY <1>11, Typed, RecipesAssumption DEF SaveManifest, NewManifest, Manifest, Recipe
    <2>2. cache' \in Cache
      BY <1>11, <1>0, <2>1 DEF SaveManifest, Saved, Cache
    <2>3. /\ Goes(p, "request") /\ "request" \in Places
          /\ at[p] # "idle" /\ build' = build /\ dir' \in Dirs
          /\ UNCHANGED <<version, lock, overwrites>>
      BY <1>11, <1>0 DEF SaveManifest, Places
    <2>4. QED BY <2>2, <2>3, StayType
  <1>12. QED BY <1>1, <1>2, <1>3, <1>4, <1>5, <1>6, <1>7, <1>8, <1>9, <1>10, <1>11
             DEF Frontend

(* The steps from the request on. *)
LEMMA BackendType == ASSUME TInv, NEW p \in Procs, Backend(p) PROVE TInv'
  <1>0. cache \in Cache /\ dir \in Dirs /\ build[p] \in Build
    BY Typed
  <1>1. CASE WriteRequest(p)
    <2>1. PICK place \in {"probe", "select"} : Goes(p, place)
      BY <1>1 DEF WriteRequest
    <2>2. /\ place \in Places /\ at[p] # "idle" /\ build' = build
          /\ cache' \in Cache /\ dir' \in Dirs
          /\ UNCHANGED <<version, lock, overwrites>>
      BY <1>1, <1>0, Typed DEF WriteRequest, Places, Dirs, Request
    <2>3. QED BY <2>1, <2>2, StayType
  <1>2. CASE Probe(p)
    <2>1. PICK place \in {"bind", "select"} : Goes(p, place)
      BY <1>2 DEF Probe
    <2>2. /\ place \in Places /\ at[p] # "idle" /\ build' = build
          /\ cache' \in Cache /\ dir' \in Dirs
          /\ UNCHANGED <<version, lock, overwrites>>
      BY <1>2, <1>0, Typed, BoundsAssumption DEF Probe, Places, Dirs, Model
    <2>3. QED BY <2>1, <2>2, StayType
  <1>3. CASE Bind(p)
    <2>1. dir[Dir(p)].model \in Model /\ Dir(p) \in Procs \cup Roots
      BY <1>3, <1>0, Typed DEF Bind, Dirs
    <2>. DEFINE b == [build[p] EXCEPT !.bound = dir[Dir(p)].model]
    <2>2. build' = [build EXCEPT ![p] = b]
      BY <1>3 DEF Bind, TInv, TypeOK
    <2>3. b \in Build /\ b.recipe = build[p].recipe /\ b.root = build[p].root
      BY <1>0, <2>1 DEF Build
    <2>4. [by |-> p, model |-> dir[Dir(p)].model] \in Request
      BY <2>1 DEF Request
    <2>5. dir' \in Dirs
      BY <1>3, <1>0, <2>1, <2>4 DEF Bind, Dirs
    <2>6. /\ Goes(p, "select") /\ "select" \in Places /\ at[p] # "idle"
          /\ cache' \in Cache /\ UNCHANGED <<version, lock, overwrites>>
      BY <1>3, <1>0 DEF Bind, Places
    <2>. HIDE DEF b
    <2>7. QED BY <2>2, <2>3, <2>5, <2>6, GoType
  <1>4. CASE Check(p)
    <2>1. PICK m \in Model \cup {Absent}, r \in Request \cup {Absent} :
            build' = [build EXCEPT ![p].checked = m, ![p].selected = r]
      BY <1>4, <1>0, Typed DEF Check, Dirs
    <2>. DEFINE b == [build[p] EXCEPT !.checked = m, !.selected = r]
    <2>2. build' = [build EXCEPT ![p] = b]
      BY <2>1 DEF TInv, TypeOK
    <2>3. b \in Build /\ b.recipe = build[p].recipe /\ b.root = build[p].root
      <3>. DEFINE c == [build[p] EXCEPT !.checked = m]
      <3>1. c \in Build /\ c.recipe = build[p].recipe /\ c.root = build[p].root
        BY <1>0 DEF Build
      <3>2. b = [c EXCEPT !.selected = r] OBVIOUS
      <3>. HIDE DEF b, c
      <3>3. QED BY <3>1, <3>2 DEF Build
    <2>4. PICK place \in {"verify"} : Goes(p, place)
      BY <1>4 DEF Check
    <2>5. /\ place \in Places /\ at[p] # "idle"
          /\ cache' \in Cache /\ dir' \in Dirs
          /\ UNCHANGED <<version, lock, overwrites>>
      BY <1>4, <1>0 DEF Check, Places
    <2>. HIDE DEF b
    <2>6. QED BY <2>2, <2>3, <2>4, <2>5, GoType
  <1>5. CASE NoCheck(p)
    <2>1. PICK place \in {"dispatch"} : Goes(p, place)
      BY <1>5 DEF NoCheck
    <2>2. /\ place \in Places /\ at[p] # "idle" /\ build' = build
          /\ cache' \in Cache /\ dir' \in Dirs
          /\ UNCHANGED <<version, lock, overwrites>>
      BY <1>5, <1>0 DEF NoCheck, Places
    <2>3. QED BY <2>1, <2>2, StayType
  <1>6. CASE Verify(p)
    <2>1. PICK place \in {"dispatch"} : Goes(p, place)
      BY <1>6 DEF Verify
    <2>2. /\ place \in Places /\ at[p] # "idle" /\ build' = build
          /\ cache' \in Cache /\ dir' \in Dirs
          /\ UNCHANGED <<version, lock, overwrites>>
      BY <1>6, <1>0 DEF Verify, Places
    <2>3. QED BY <2>1, <2>2, StayType
  <1>7. CASE Dispatch(p)
    <2>1. PICK m \in Request \cup {Absent} : build' = [build EXCEPT ![p].ran = m]
      BY <1>7, <1>0, Typed DEF Dispatch, Dirs
    <2>. DEFINE b == [build[p] EXCEPT !.ran = m]
    <2>2. build' = [build EXCEPT ![p] = b]
      BY <2>1 DEF TInv, TypeOK
    <2>3. b \in Build /\ b.recipe = build[p].recipe /\ b.root = build[p].root
      BY <1>0 DEF Build
    <2>4. PICK place \in {"backend"} : Goes(p, place)
      BY <1>7 DEF Dispatch
    <2>5. /\ place \in Places /\ at[p] # "idle"
          /\ cache' \in Cache /\ dir' \in Dirs
          /\ UNCHANGED <<version, lock, overwrites>>
      BY <1>7, <1>0 DEF Dispatch, Places
    <2>. HIDE DEF b
    <2>6. QED BY <2>2, <2>3, <2>4, <2>5, GoType
  <1>8. CASE Complete(p)
    <2>1. dir' \in Dirs
      BY <1>8, <1>0, Typed DEF Complete, NoDir, Dirs
    <2>2. QED BY <1>8, <2>1, ExitType DEF Complete
  <1>9. CASE Select(p)
    <2>1. dir[Dir(p)].model \in Model \cup {Absent} /\ Dir(p) \in Procs \cup Roots
      BY <1>9, <1>0, Typed DEF Select, Dirs
    <2>2. Selected(p, dir[Dir(p)].model) \in Request
      BY <2>1 DEF Selected, Request
    <2>3. dir' \in Dirs
      BY <1>9, <1>0, <2>1, <2>2 DEF Select, Dirs
    <2>4. /\ Goes(p, "check") /\ "check" \in Places /\ at[p] # "idle"
          /\ build' = build /\ cache' \in Cache
          /\ UNCHANGED <<version, lock, overwrites>>
      BY <1>9, <1>0 DEF Select, Places
    <2>5. QED BY <2>3, <2>4, StayType
  <1>10. QED BY <1>1, <1>2, <1>3, <1>4, <1>5, <1>6, <1>7, <1>8, <1>9 DEF Backend

LEMMA TypeStep == TInv /\ [Next]_vars => TInv'
  <1>. SUFFICES ASSUME TInv, [Next]_vars PROVE TInv'
    OBVIOUS
  <1>0. dir \in Dirs BY Typed
  <1>1. ASSUME NEW p \in Procs, Fail(p) PROVE TInv'
    BY <1>0, <1>1, ExitType DEF Fail
  <1>2. ASSUME NEW p \in Procs, Kill(p) PROVE TInv'
    BY <1>0, <1>2, ExitType DEF Kill
  <1>3. ASSUME NEW t \in Roots, Edit(t) PROVE TInv'
    <2>1. version' \in [Roots -> 0 .. MaxVersion]
      BY <1>3, BoundsAssumption DEF Edit, TInv, TypeOK
    <2>2. QED BY <1>3, <2>1 DEF Edit, TInv, TypeOK, Configured
  <1>4. ASSUME NEW d \in Procs \cup Roots, Overwrite(d) PROVE TInv'
    <2>1. overwrites + 1 \in Model
      BY <1>4, BoundsAssumption DEF Overwrite, TInv, TypeOK, Model
    <2>2. dir' \in Dirs
      BY <1>0, <1>4, <2>1 DEF Overwrite, Dirs
    <2>3. QED BY <1>4, <2>1, <2>2 DEF Overwrite, TInv, TypeOK, Configured, Dirs
  <1>5. CASE UNCHANGED vars
    BY <1>5 DEF vars, TInv, TypeOK, Configured
  <1>6. QED BY <1>1, <1>2, <1>3, <1>4, <1>5, FrontendType, BackendType DEF Next

LEMMA TypeInit == Init => TInv
  <1>. SUFFICES ASSUME Init PROVE TInv
    OBVIOUS
  <1>1. version \in [Roots -> 0 .. MaxVersion] BY BoundsAssumption DEF Init
  <1>2. overwrites \in Model BY BoundsAssumption DEF Init, Model
  <1>3. build \in [Procs -> Build] BY IdleType DEF Init
  <1>4. /\ cache \in Cache /\ dir \in Dirs /\ at \in [Procs -> Places]
        /\ lock \in [Roots -> Procs \cup {Absent}]
    BY DEF Init, NoCache, NoDir, Places, Cache, Dirs
  <1>5. Configured BY DEF Init, Configured
  <1>6. QED BY <1>1, <1>2, <1>3, <1>4, <1>5 DEF TInv, TypeOK, Build, Cache, Dirs

(* The variables of the cache, the directories and the invocations keep their
   types. *)
THEOREM TypeCorrect == Spec => []TypeOK
  <1>1. TInv => TypeOK BY DEF TInv
  <1>2. QED BY <1>1, TypeInit, TypeStep, PTL DEF Spec

-----------------------------------------------------------------------------
(* Requests, locks and check models. *)

(* Places before the lock of an audit, places after the request was written
   and places after a model was bound. *)
Unlocked == {"idle", "open", "lock"}
Requested == {"probe", "bind", "select", "check", "verify", "dispatch", "backend"}
Bound == {"select", "check", "verify", "dispatch", "backend"}

(* Sources that p selected, from a model no older than the one it bound. *)
Made(p, s) ==
  IF SourcesOfModel(build[p].recipe)
  THEN \E m \in Model : /\ s = [by |-> p, model |-> m]
                        /\ build[p].bound <= m /\ m <= dir[Dir(p)].model
  ELSE s = [by |-> p, model |-> Absent]

(* An invocation holds its lock, finds its own request in its directory, and
   what was checked lies between what it bound and what is there now: models
   that are written over others only grow. *)
Proper(p) ==
  /\ at[p] \notin Unlocked /\ build[p].recipe.audit => lock[build[p].root] = p
  /\ at[p] \notin Bound => build[p].bound = Absent
  /\ at[p] \in Requested =>
       dir[Dir(p)].request = [by |-> p, model |-> build[p].bound]
  /\ at[p] = "backend" => build[p].ran = [by |-> p, model |-> build[p].bound]
  /\ at[p] \in {"select", "check"} /\ BindsModel(build[p].recipe) =>
       /\ build[p].bound \in Model /\ dir[Dir(p)].model \in Model
       /\ build[p].bound <= dir[Dir(p)].model
  /\ at[p] = "verify" /\ BindsModel(build[p].recipe) =>
       /\ build[p].bound \in Model /\ build[p].checked \in Model
       /\ dir[Dir(p)].model \in Model
       /\ build[p].bound <= build[p].checked
       /\ build[p].checked <= dir[Dir(p)].model
  /\ at[p] = "check" => Made(p, dir[Dir(p)].sources)
  /\ at[p] = "verify" => Made(p, build[p].selected)
  /\ at[p] \in {"dispatch", "backend"} /\ BindsModel(build[p].recipe) =>
       build[p].checked = build[p].bound /\ build[p].bound \in Model
  /\ at[p] \in {"dispatch", "backend"} /\ build[p].recipe.check =>
       build[p].selected = Selected(p, build[p].bound)

(* No model is newer than the last one written. *)
Written == \A d \in Procs \cup Roots :
             dir[d].model \in Model => dir[d].model <= overwrites

RInv == TInv /\ Written /\ \A p \in Procs : Proper(p)

(* Two invocations that use directories at once use different ones. *)
LEMMA Disjoint ==
  ASSUME RInv, NEW p \in Procs, NEW q \in Procs, p # q,
         at[p] \notin Unlocked, at[q] \notin Unlocked
  PROVE  Dir(p) # Dir(q)
  <1>1. /\ build[p].root \in Roots /\ build[q].root \in Roots
    BY DEF RInv, TInv, Configured, Unlocked
  <1>2. CASE build[p].recipe.audit /\ build[q].recipe.audit
    <2>1. Proper(p) /\ Proper(q) BY DEF RInv
    <2>2. lock[build[p].root] = p BY <2>1, <1>2 DEF Proper
    <2>3. lock[build[q].root] = q BY <2>1, <1>2 DEF Proper
    <2>4. Dir(p) = build[p].root /\ Dir(q) = build[q].root BY <1>2 DEF Dir
    <2>5. QED BY <2>2, <2>3, <2>4
  <1>3. CASE ~build[p].recipe.audit /\ ~build[q].recipe.audit
    BY <1>3 DEF Dir
  <1>4. CASE build[p].recipe.audit /\ ~build[q].recipe.audit
    BY <1>1, <1>4, NamesAssumption DEF Dir
  <1>5. CASE ~build[p].recipe.audit /\ build[q].recipe.audit
    BY <1>1, <1>5, NamesAssumption DEF Dir
  <1>6. QED BY <1>2, <1>3, <1>4, <1>5

(* A step of p leaves the others proper: it takes no lock of theirs and
   writes in no directory they use. *)
LEMMA Others ==
  ASSUME RInv, NEW p \in Procs, NEW q \in Procs, q # p,
         at'[q] = at[q], build'[q] = build[q],
         \A t \in Roots : lock[t] = q => lock'[t] = q,
         at[q] \in Requested => dir'[Dir(q)] = dir[Dir(q)]
  PROVE  Proper(q)'
  <1>1. Proper(q) /\ Dir(q)' = Dir(q) BY DEF RInv, Dir
  <1>2. at[q] # "idle" => build[q].root \in Roots BY Typed DEF RInv
  <1>3. QED BY <1>1, <1>2 DEF Proper, Requested, Unlocked, Bound, Made, Selected

(* An invocation moves on. *)
LEMMA OthersGo ==
  ASSUME RInv, NEW p \in Procs, NEW place, Goes(p, place),
         NEW b, build' = [build EXCEPT ![p] = b],
         \A q \in Procs \ {p}, t \in Roots : lock[t] = q => lock'[t] = q,
         \A d \in (Procs \cup Roots) \ {Dir(p)} : dir'[d] = dir[d],
         at[p] \notin Unlocked \/ dir' = dir
  PROVE  \A q \in Procs \ {p} : Proper(q)'
  <1>. SUFFICES ASSUME NEW q \in Procs \ {p} PROVE Proper(q)'
    OBVIOUS
  <1>1. at'[q] = at[q] /\ build'[q] = build[q]
    BY DEF RInv, TInv, TypeOK, Goes
  <1>2. at[q] \in Requested => dir'[Dir(q)] = dir[Dir(q)]
    <2>. SUFFICES ASSUME at[q] \in Requested, at[p] \notin Unlocked
                  PROVE dir'[Dir(q)] = dir[Dir(q)]
      OBVIOUS
    <2>1. at[q] \notin Unlocked /\ at[q] # "idle" BY DEF Requested, Unlocked
    <2>2. Dir(q) \in Procs \cup Roots BY <2>1, Typed DEF RInv
    <2>3. QED BY <2>1, <2>2, Disjoint
  <1>3. QED BY <1>1, <1>2, Others

LEMMA ExitProper ==
  ASSUME RInv, NEW p \in Procs, Exits(p),
         \A d \in (Procs \cup Roots) \ {Dir(p)} : dir'[d] = dir[d],
         at[p] \notin Unlocked \/ dir' = dir
  PROVE  \A q \in Procs : Proper(q)'
  <1>1. \A q \in Procs \ {p}, t \in Roots : lock[t] = q => lock'[t] = q
    BY DEF Exits
  <1>2. \A q \in Procs \ {p} : Proper(q)'
    BY <1>1, OthersGo DEF Exits
  <1>3. at'[p] = "idle" /\ build'[p] = Idle
    BY DEF Exits, Goes, RInv, TInv, TypeOK
  <1>4. Proper(p)'
    BY <1>3 DEF Proper, Unlocked, Requested, Bound, Idle
  <1>5. QED BY <1>2, <1>4

LEMMA WrittenFrame ==
  ASSUME RInv, \A d \in Procs \cup Roots : dir'[d].model \in {dir[d].model, 0, Absent},
         UNCHANGED overwrites
  PROVE  Written'
  BY AbsentAssumption DEF RInv, Written, TInv, TypeOK, Model

(* An invocation that moves between places before the request needs the lock,
   if it has got that far in an audit. *)
LEMMA EarlyStep ==
  ASSUME RInv, NEW p \in Procs, TInv', NEW place, Goes(p, place),
         place \notin Requested \cup Bound,
         at[p] \notin Bound,
         NEW b, build' = [build EXCEPT ![p] = b], b.bound = build[p].bound,
         UNCHANGED <<dir, lock, overwrites>>,
         place \notin Unlocked /\ b.recipe.audit =>
           at[p] \notin Unlocked /\ b.recipe = build[p].recipe /\ b.root = build[p].root
  PROVE  RInv'
  <1>1. \A q \in Procs \ {p} : Proper(q)'
    BY OthersGo
  <1>2. at'[p] = place /\ build'[p] = b /\ b.bound = Absent
    BY DEF RInv, TInv, TypeOK, Goes, Proper
  <1>3. ASSUME place \notin Unlocked, b.recipe.audit
        PROVE  lock[b.root] = p
    <2>1. at[p] \notin Unlocked /\ build[p].recipe.audit BY <1>3
    <2>2. Proper(p) BY DEF RInv
    <2>3. lock[build[p].root] = p BY <2>1, <2>2 DEF Proper
    <2>4. QED BY <1>3, <2>3
  <1>4. Proper(p)'
    BY <1>2, <1>3 DEF Proper, Requested, Bound
  <1>5. QED BY <1>1, <1>4, WrittenFrame DEF RInv

LEMMA FrontendProper ==
  ASSUME RInv, NEW p \in Procs, Frontend(p) PROVE RInv'
  <1>0. TInv /\ TInv' /\ build[p] \in Build BY FrontendType, Typed DEF RInv
  <1>1. CASE Start(p)
    <2>1. PICK r \in Recipes, t \in Roots :
            build' = [build EXCEPT ![p].recipe = r, ![p].root = t]
      BY <1>1 DEF Start
    <2>. DEFINE b == [build[p] EXCEPT !.recipe = r, !.root = t]
    <2>2. build' = [build EXCEPT ![p] = b]
      BY <1>0, <2>1 DEF TInv, TypeOK
    <2>3. b.bound = build[p].bound
      BY <1>0 DEF Build
    <2>4. /\ Goes(p, "open") /\ "open" \in Unlocked
          /\ "open" \notin Requested \cup Bound /\ at[p] \notin Bound
          /\ UNCHANGED <<dir, lock, overwrites>>
      BY <1>1 DEF Start, Unlocked, Requested, Bound
    <2>. HIDE DEF b
    <2>5. QED BY <1>0, <2>2, <2>3, <2>4, EarlyStep
  <1>2. CASE Open(p)
    <2>1. PICK m : build' = [build EXCEPT ![p].manifest = m]
      BY <1>2 DEF Open
    <2>. DEFINE b == [build[p] EXCEPT !.manifest = m]
    <2>2. build' = [build EXCEPT ![p] = b]
      BY <1>0, <2>1 DEF TInv, TypeOK
    <2>3. b.bound = build[p].bound /\ b.recipe = build[p].recipe
      BY <1>0 DEF Build
    <2>4. PICK place \in {"lock", "resolve", "parse"} :
            Goes(p, place) /\ (build[p].recipe.audit => place = "lock")
      BY <1>2 DEF Open
    <2>5. /\ place \notin Requested \cup Bound /\ at[p] \notin Bound
          /\ UNCHANGED <<dir, lock, overwrites>>
          /\ "lock" \in Unlocked
      BY <1>2 DEF Open, Unlocked, Requested, Bound
    <2>. HIDE DEF b
    <2>6. ~(place \notin Unlocked /\ b.recipe.audit)
      BY <2>3, <2>4, <2>5
    <2>7. QED BY <1>0, <2>2, <2>3, <2>4, <2>5, <2>6, EarlyStep
  <1>3. CASE Acquire(p)
    <2>1. /\ Goes(p, "parse") /\ build' = [build EXCEPT ![p] = build[p]]
          /\ lock[build[p].root] = Absent /\ build[p].root \in Roots
          /\ lock' = [lock EXCEPT ![build[p].root] = p]
          /\ dir' = dir /\ overwrites' = overwrites
          /\ at[p] = "lock"
      BY <1>0, <1>3, Typed DEF Acquire, Available, TInv, TypeOK
    <2>2. \A q \in Procs \ {p}, t \in Roots : lock[t] = q => lock'[t] = q
      BY <1>0, <2>1, NamesAssumption DEF TInv, TypeOK
    <2>3. \A q \in Procs \ {p} : Proper(q)'
      BY <2>1, <2>2, OthersGo
    <2>4. /\ at'[p] = "parse" /\ build'[p] = build[p]
          /\ lock'[build[p].root] = p /\ build[p].bound = Absent
      <3>1. at'[p] = "parse" /\ build'[p] = build[p] /\ lock'[build[p].root] = p
        BY <1>0, <2>1 DEF TInv, TypeOK, Goes
      <3>2. Proper(p) BY DEF RInv
      <3>3. QED BY <2>1, <3>1, <3>2 DEF Proper, Bound
    <2>5. Proper(p)'
      BY <2>4 DEF Proper, Requested, Bound
    <2>6. QED BY <1>0, <2>1, <2>3, <2>5, WrittenFrame DEF RInv
  <1>4. CASE Busy(p)
    <2>1. dir' = dir /\ UNCHANGED overwrites /\ Exits(p) BY <1>4 DEF Busy
    <2>2. QED BY <1>0, <2>1, ExitProper, WrittenFrame DEF RInv
  <1>5. CASE Resolve(p)
    <2>1. PICK m : build' = [build EXCEPT ![p].manifest = m]
      BY <1>5 DEF Resolve
    <2>. DEFINE b == [build[p] EXCEPT !.manifest = m]
    <2>2. build' = [build EXCEPT ![p] = b]
      BY <1>0, <2>1 DEF TInv, TypeOK
    <2>3. /\ b.bound = build[p].bound /\ b.recipe = build[p].recipe
          /\ b.root = build[p].root
      BY <1>0 DEF Build
    <2>4. PICK place \in {"loadSymbols", "parse"} : Goes(p, place)
      BY <1>5 DEF Resolve
    <2>5. /\ place \notin Requested \cup Bound /\ at[p] \notin Bound \cup Unlocked
          /\ UNCHANGED <<dir, lock, overwrites>>
      BY <1>5 DEF Resolve, Requested, Bound, Unlocked
    <2>. HIDE DEF b
    <2>6. QED BY <1>0, <2>2, <2>3, <2>4, <2>5, EarlyStep
  <1>6. CASE LoadSymbols(p)
    <2>1. PICK m : build' = [build EXCEPT ![p].symbols = m]
      BY <1>6 DEF LoadSymbols
    <2>. DEFINE b == [build[p] EXCEPT !.symbols = m]
    <2>2. build' = [build EXCEPT ![p] = b]
      BY <1>0, <2>1 DEF TInv, TypeOK
    <2>3. /\ b.bound = build[p].bound /\ b.recipe = build[p].recipe
          /\ b.root = build[p].root
      BY <1>0 DEF Build
    <2>4. PICK place \in {"loadVisibility", "parse"} : Goes(p, place)
      BY <1>6 DEF LoadSymbols
    <2>5. /\ place \notin Requested \cup Bound /\ at[p] \notin Bound \cup Unlocked
          /\ UNCHANGED <<dir, lock, overwrites>>
      BY <1>6 DEF LoadSymbols, Requested, Bound, Unlocked
    <2>. HIDE DEF b
    <2>6. QED BY <1>0, <2>2, <2>3, <2>4, <2>5, EarlyStep
  <1>7. CASE LoadVisibility(p)
    <2>1. PICK m : build' = [build EXCEPT ![p].visibility = m]
      BY <1>7 DEF LoadVisibility
    <2>. DEFINE b == [build[p] EXCEPT !.visibility = m]
    <2>2. build' = [build EXCEPT ![p] = b]
      BY <1>0, <2>1 DEF TInv, TypeOK
    <2>3. /\ b.bound = build[p].bound /\ b.recipe = build[p].recipe
          /\ b.root = build[p].root
      BY <1>0 DEF Build
    <2>4. PICK place \in {"saveManifest", "parse"} : Goes(p, place)
      BY <1>7 DEF LoadVisibility
    <2>5. /\ place \notin Requested \cup Bound /\ at[p] \notin Bound \cup Unlocked
          /\ UNCHANGED <<dir, lock, overwrites>>
      BY <1>7 DEF LoadVisibility, Requested, Bound, Unlocked
    <2>. HIDE DEF b
    <2>6. QED BY <1>0, <2>2, <2>3, <2>4, <2>5, EarlyStep
  <1>8. CASE Parse(p)
    <2>1. PICK m : build' = [build EXCEPT ![p].symbols = m, ![p].visibility = m]
      BY <1>8 DEF Parse
    <2>. DEFINE b == [build[p] EXCEPT !.symbols = m, !.visibility = m]
    <2>2. build' = [build EXCEPT ![p] = b]
      BY <1>0, <2>1 DEF TInv, TypeOK
    <2>3. /\ b.bound = build[p].bound /\ b.recipe = build[p].recipe
          /\ b.root = build[p].root
      BY <1>0 DEF Build
    <2>4. PICK place \in {"saveSymbols", "request"} : Goes(p, place)
      BY <1>8 DEF Parse
    <2>5. /\ place \notin Requested \cup Bound /\ at[p] \notin Bound \cup Unlocked
          /\ UNCHANGED <<dir, lock, overwrites>>
      BY <1>8 DEF Parse, Requested, Bound, Unlocked
    <2>. HIDE DEF b
    <2>6. QED BY <1>0, <2>2, <2>3, <2>4, <2>5, EarlyStep
  <1>9. CASE SaveSymbols(p) \/ SaveVisibility(p) \/ SaveManifest(p)
    <2>1. PICK place \in {"saveVisibility", "saveManifest", "request"} : Goes(p, place)
      BY <1>9 DEF SaveSymbols, SaveVisibility, SaveManifest
    <2>2. /\ place \notin Requested \cup Bound /\ at[p] \notin Bound \cup Unlocked
          /\ UNCHANGED <<dir, lock, overwrites>>
          /\ build' = [build EXCEPT ![p] = build[p]]
      BY <1>0, <1>9 DEF SaveSymbols, SaveVisibility, SaveManifest,
                        Requested, Bound, Unlocked, TInv, TypeOK
    <2>3. QED BY <1>0, <2>1, <2>2, EarlyStep
  <1>10. QED BY <1>1, <1>2, <1>3, <1>4, <1>5, <1>6, <1>7, <1>8, <1>9 DEF Frontend

(* An invocation past the lock moves on in its own directory, and keeps its
   lock. *)
LEMMA LateStep ==
  ASSUME RInv, NEW p \in Procs, NEW place, Goes(p, place), at[p] \notin Unlocked,
         NEW b, build' = [build EXCEPT ![p] = b],
         b.recipe = build[p].recipe, b.root = build[p].root,
         NEW e, dir' = [dir EXCEPT ![Dir(p)] = e], UNCHANGED lock
  PROVE  /\ \A q \in Procs \ {p} : Proper(q)'
         /\ at'[p] = place /\ build'[p] = b
         /\ Dir(p)' = Dir(p) /\ dir'[Dir(p)] = e
         /\ build'[p].recipe.audit => lock'[build'[p].root] = p
  <1>1. at[p] # "idle" /\ Dir(p) \in Procs \cup Roots
    BY Typed DEF RInv, Unlocked
  <1>2. \A d \in (Procs \cup Roots) \ {Dir(p)} : dir'[d] = dir[d]
    BY DEF RInv, TInv, TypeOK
  <1>3. \A q \in Procs \ {p} : Proper(q)'
    BY <1>2, OthersGo
  <1>4. at'[p] = place /\ build'[p] = b
    BY DEF RInv, TInv, TypeOK, Goes
  <1>5. Dir(p)' = Dir(p) BY <1>4 DEF Dir
  <1>6. dir'[Dir(p)] = e BY <1>1 DEF RInv, TInv, TypeOK
  <1>7. build'[p].recipe.audit => lock'[build'[p].root] = p
    <2>. SUFFICES ASSUME build[p].recipe.audit PROVE lock[build[p].root] = p
      BY <1>4
    <2>1. Proper(p) BY DEF RInv
    <2>2. QED BY <2>1 DEF Proper
  <1>8. QED BY <1>3, <1>4, <1>5, <1>6, <1>7

LEMMA BackendProper ==
  ASSUME RInv, NEW p \in Procs, Backend(p) PROVE RInv'
  <1>0. /\ TInv /\ TInv' /\ build[p] \in Build /\ dir \in Dirs
        /\ build = [build EXCEPT ![p] = build[p]]
        /\ Proper(p)
    BY BackendType, Typed DEF RInv, TInv, TypeOK
  <1>01. at[p] # "idle" => /\ Dir(p) \in Procs \cup Roots
                           /\ dir[Dir(p)] \in [request : Request \cup {Absent},
                                               model : Model \cup {Absent},
                                               sources : Request \cup {Absent}]
                           /\ dir = [dir EXCEPT ![Dir(p)] = dir[Dir(p)]]
    BY <1>0, Typed DEF Dirs
  <1>1. CASE WriteRequest(p)
    <2>. DEFINE e == [dir[Dir(p)] EXCEPT !.request = [by |-> p, model |-> Absent]]
    <2>1. PICK place \in {"probe", "select"} :
            Goes(p, place) /\ (Probes(build[p].recipe) => place = "probe")
      BY <1>1 DEF WriteRequest
    <2>2. /\ dir' = [dir EXCEPT ![Dir(p)] = e] /\ at[p] \notin Unlocked
          /\ build' = [build EXCEPT ![p] = build[p]]
          /\ UNCHANGED <<lock, overwrites>>
      BY <1>0, <1>01, <1>1 DEF WriteRequest, Unlocked, Dirs
    <2>3. /\ e.request = [by |-> p, model |-> Absent]
          /\ e.model = dir[Dir(p)].model
      BY <1>01, <1>1 DEF WriteRequest
    <2>4. build[p].bound = Absent BY <1>0, <1>1 DEF WriteRequest, Proper, Bound
    <2>. HIDE DEF e
    <2>5. /\ \A q \in Procs \ {p} : Proper(q)'
          /\ at'[p] = place /\ build'[p] = build[p]
          /\ Dir(p)' = Dir(p) /\ dir'[Dir(p)] = e
          /\ build'[p].recipe.audit => lock'[build'[p].root] = p
      BY <2>1, <2>2, LateStep
    <2>6. BindsModel(build[p].recipe) => place = "probe"
      BY <2>1 DEF BindsModel
    <2>7. Proper(p)'
      BY <2>1, <2>3, <2>4, <2>5, <2>6 DEF Proper, Bound
    <2>8. Written'
      BY <1>0, <1>1, <2>2, <2>3, <2>5, WrittenFrame DEF Dirs
    <2>9. QED BY <1>0, <2>5, <2>7, <2>8 DEF RInv
  <1>2. CASE Probe(p) /\ BindsModel(build[p].recipe)
    <2>. DEFINE e == [dir[Dir(p)] EXCEPT !.model = 0]
    <2>1. /\ Goes(p, "bind") /\ at[p] \notin Unlocked
          /\ dir' = [dir EXCEPT ![Dir(p)] = e]
          /\ build' = [build EXCEPT ![p] = build[p]]
          /\ UNCHANGED <<lock, overwrites>>
      BY <1>0, <1>01, <1>2 DEF Probe, Unlocked, Dirs
    <2>2. /\ e.request = dir[Dir(p)].request /\ e.model = 0
      BY <1>01, <1>2 DEF Probe
    <2>3. /\ build[p].bound = Absent
          /\ dir[Dir(p)].request = [by |-> p, model |-> build[p].bound]
      BY <1>0, <1>2 DEF Probe, Proper, Bound, Requested
    <2>. HIDE DEF e
    <2>4. /\ \A q \in Procs \ {p} : Proper(q)'
          /\ at'[p] = "bind" /\ build'[p] = build[p]
          /\ Dir(p)' = Dir(p) /\ dir'[Dir(p)] = e
          /\ build'[p].recipe.audit => lock'[build'[p].root] = p
      BY <2>1, LateStep
    <2>5. Proper(p)'
      BY <2>2, <2>3, <2>4 DEF Proper, Bound
    <2>6. Written'
      BY <1>0, <2>1, <2>2, <2>4, WrittenFrame DEF Dirs
    <2>7. QED BY <1>0, <2>4, <2>5, <2>6 DEF RInv
  <1>3. CASE Probe(p) /\ ~BindsModel(build[p].recipe)
    <2>1. /\ Goes(p, "select") /\ at[p] \notin Unlocked
          /\ dir' = [dir EXCEPT ![Dir(p)] = dir[Dir(p)]]
          /\ build' = [build EXCEPT ![p] = build[p]]
          /\ UNCHANGED <<lock, overwrites, dir>>
      BY <1>0, <1>01, <1>3 DEF Probe, Unlocked
    <2>2. /\ build[p].bound = Absent
          /\ dir[Dir(p)].request = [by |-> p, model |-> build[p].bound]
      BY <1>0, <1>3 DEF Probe, Proper, Bound, Requested
    <2>3. /\ \A q \in Procs \ {p} : Proper(q)'
          /\ at'[p] = "select" /\ build'[p] = build[p]
          /\ Dir(p)' = Dir(p) /\ dir'[Dir(p)] = dir[Dir(p)]
          /\ build'[p].recipe.audit => lock'[build'[p].root] = p
      BY <2>1, LateStep
    <2>4. Proper(p)'
      BY <1>3, <2>2, <2>3 DEF Proper, Bound
    <2>5. QED BY <1>0, <2>1, <2>3, <2>4, WrittenFrame DEF RInv
  <1>4. CASE Bind(p)
    <2>. DEFINE m == dir[Dir(p)].model
                b == [build[p] EXCEPT !.bound = m]
                e == [dir[Dir(p)] EXCEPT !.request = [by |-> p, model |-> m]]
    <2>1. /\ Goes(p, "select") /\ at[p] \notin Unlocked
          /\ dir' = [dir EXCEPT ![Dir(p)] = e]
          /\ build' = [build EXCEPT ![p] = b]
          /\ UNCHANGED <<lock, overwrites>>
          /\ m \in Model
      BY <1>0, <1>01, <1>4 DEF Bind, Unlocked, Dirs
    <2>2. /\ e.request = [by |-> p, model |-> m] /\ e.model = m
          /\ b.bound = m /\ b.recipe = build[p].recipe /\ b.root = build[p].root
      BY <1>0, <1>01, <1>4 DEF Bind, Build
    <2>. HIDE DEF b, e
    <2>3. /\ \A q \in Procs \ {p} : Proper(q)'
          /\ at'[p] = "select" /\ build'[p] = b
          /\ Dir(p)' = Dir(p) /\ dir'[Dir(p)] = e
          /\ build'[p].recipe.audit => lock'[build'[p].root] = p
      BY <2>1, <2>2, LateStep
    <2>4. m <= m BY <2>1, BoundsAssumption DEF Model
    <2>5. Proper(p)'
      BY <2>1, <2>2, <2>3, <2>4 DEF Proper, Bound
    <2>6. Written'
      BY <1>0, <2>1, <2>2, <2>3, WrittenFrame DEF Dirs
    <2>7. QED BY <1>0, <2>3, <2>5, <2>6 DEF RInv
  <1>5. CASE Check(p)
    <2>. DEFINE m == IF BindsModel(build[p].recipe) THEN dir[Dir(p)].model ELSE Absent
                r == dir[Dir(p)].sources
                b == [build[p] EXCEPT !.checked = m, !.selected = r]
    <2>1. /\ Goes(p, "verify") /\ at[p] \notin Unlocked
          /\ dir' = [dir EXCEPT ![Dir(p)] = dir[Dir(p)]]
          /\ build' = [build EXCEPT ![p] = b]
          /\ UNCHANGED <<lock, overwrites, dir>>
      BY <1>0, <1>01, <1>5 DEF Check, Unlocked
    <2>2. /\ b.bound = build[p].bound /\ b.checked = m /\ b.selected = r
          /\ b.recipe = build[p].recipe /\ b.root = build[p].root
      BY <1>0 DEF Build
    <2>3. /\ dir[Dir(p)].request = [by |-> p, model |-> build[p].bound]
          /\ BindsModel(build[p].recipe) =>
               /\ build[p].bound \in Model /\ dir[Dir(p)].model \in Model
               /\ build[p].bound <= dir[Dir(p)].model
          /\ Made(p, r)
      BY <1>0, <1>5 DEF Check, Proper, Requested
    <2>. HIDE DEF b
    <2>4. /\ \A q \in Procs \ {p} : Proper(q)'
          /\ at'[p] = "verify" /\ build'[p] = b
          /\ Dir(p)' = Dir(p) /\ dir'[Dir(p)] = dir[Dir(p)]
          /\ build'[p].recipe.audit => lock'[build'[p].root] = p
      <3>1. Goes(p, "verify") /\ at[p] \notin Unlocked /\ UNCHANGED lock
        BY <2>1
      <3>2. dir' = [dir EXCEPT ![Dir(p)] = dir[Dir(p)]] BY <2>1
      <3>3. build' = [build EXCEPT ![p] = b] BY <2>1
      <3>4. b.recipe = build[p].recipe /\ b.root = build[p].root BY <2>2
      <3>5. QED BY <3>1, <3>2, <3>3, <3>4, LateStep
    <2>5. dir[Dir(p)].model \in Model => dir[Dir(p)].model <= dir[Dir(p)].model
      BY BoundsAssumption DEF Model
    <2>6. Made(p, r)' /\ r' = r
      BY <2>1, <2>2, <2>3, <2>4 DEF Made
    <2>7. Proper(p)'
      BY <2>2, <2>3, <2>4, <2>5, <2>6 DEF Proper, Bound
    <2>8. QED BY <1>0, <2>1, <2>4, <2>7, WrittenFrame DEF RInv
  <1>6. CASE NoCheck(p) \/ Verify(p)
    <2>1. /\ Goes(p, "dispatch") /\ at[p] \notin Unlocked
          /\ dir' = [dir EXCEPT ![Dir(p)] = dir[Dir(p)]]
          /\ build' = [build EXCEPT ![p] = build[p]]
          /\ UNCHANGED <<lock, overwrites, dir>>
      BY <1>0, <1>01, <1>6 DEF NoCheck, Verify, Unlocked
    <2>2. dir[Dir(p)].request = [by |-> p, model |-> build[p].bound]
      BY <1>0, <1>6 DEF NoCheck, Verify, Proper, Requested
    <2>3. BindsModel(build[p].recipe) =>
            build[p].checked = build[p].bound /\ build[p].bound \in Model
      <3>1. CASE NoCheck(p) BY <3>1 DEF NoCheck, BindsModel
      <3>2. CASE Verify(p) /\ BindsModel(build[p].recipe)
        <4>1. /\ dir[Dir(p)].model = build[p].bound
              /\ build[p].bound \in Model /\ build[p].checked \in Model
              /\ build[p].bound <= build[p].checked
              /\ build[p].checked <= dir[Dir(p)].model
          BY <1>0, <3>2 DEF Verify, Unchanged, Proper
        <4>2. QED BY <4>1, BoundsAssumption DEF Model
      <3>3. QED BY <1>6, <3>1, <3>2
    <2>4. /\ \A q \in Procs \ {p} : Proper(q)'
          /\ at'[p] = "dispatch" /\ build'[p] = build[p]
          /\ Dir(p)' = Dir(p) /\ dir'[Dir(p)] = dir[Dir(p)]
          /\ build'[p].recipe.audit => lock'[build'[p].root] = p
      BY <2>1, LateStep
    <2>5. build[p].recipe.check => build[p].selected = Selected(p, build[p].bound)
      <3>1. CASE NoCheck(p) BY <3>1 DEF NoCheck
      <3>2. CASE Verify(p) /\ ~SourcesOfModel(build[p].recipe)
        BY <1>0, <3>2 DEF Verify, Proper, Made, Selected
      <3>3. CASE Verify(p) /\ SourcesOfModel(build[p].recipe)
        <4>1. PICK m \in Model : /\ build[p].selected = [by |-> p, model |-> m]
                                 /\ build[p].bound <= m /\ m <= dir[Dir(p)].model
          BY <1>0, <3>3 DEF Verify, Proper, Made
        <4>2. dir[Dir(p)].model = build[p].bound /\ build[p].bound \in Model
          BY <1>0, <3>3 DEF Verify, Unchanged, Proper, SourcesOfModel
        <4>3. m = build[p].bound BY <4>1, <4>2, BoundsAssumption DEF Model
        <4>4. QED BY <3>3, <4>1, <4>3 DEF Selected
      <3>4. QED BY <1>6, <3>1, <3>2, <3>3
    <2>6. Proper(p)'
      BY <2>2, <2>3, <2>4, <2>5 DEF Proper, Bound, Selected
    <2>7. QED BY <1>0, <2>1, <2>4, <2>6, WrittenFrame DEF RInv
  <1>7. CASE Dispatch(p)
    <2>. DEFINE b == [build[p] EXCEPT !.ran = dir[Dir(p)].request]
    <2>1. /\ Goes(p, "backend") /\ at[p] \notin Unlocked
          /\ dir' = [dir EXCEPT ![Dir(p)] = dir[Dir(p)]]
          /\ build' = [build EXCEPT ![p] = b]
          /\ UNCHANGED lock /\ UNCHANGED overwrites /\ UNCHANGED dir
      BY <1>0, <1>01, <1>7 DEF Dispatch, Unlocked
    <2>2. /\ b.bound = build[p].bound /\ b.checked = build[p].checked
          /\ b.selected = build[p].selected /\ b.recipe = build[p].recipe /\ b.root = build[p].root
          /\ b.ran = dir[Dir(p)].request
      BY <1>0 DEF Build
    <2>3. /\ dir[Dir(p)].request = [by |-> p, model |-> build[p].bound]
          /\ BindsModel(build[p].recipe) =>
               build[p].checked = build[p].bound /\ build[p].bound \in Model
          /\ build[p].recipe.check =>
               build[p].selected = Selected(p, build[p].bound)
      BY <1>0, <1>7 DEF Dispatch, Proper, Requested
    <2>. HIDE DEF b
    <2>4. /\ \A q \in Procs \ {p} : Proper(q)'
          /\ at'[p] = "backend" /\ build'[p] = b
          /\ Dir(p)' = Dir(p) /\ dir'[Dir(p)] = dir[Dir(p)]
          /\ build'[p].recipe.audit => lock'[build'[p].root] = p
      <3>1. Goes(p, "backend") /\ at[p] \notin Unlocked /\ UNCHANGED lock
        BY <2>1
      <3>2. dir' = [dir EXCEPT ![Dir(p)] = dir[Dir(p)]] BY <2>1
      <3>3. build' = [build EXCEPT ![p] = b] BY <2>1
      <3>4. b.recipe = build[p].recipe /\ b.root = build[p].root BY <2>2
      <3>5. QED BY <3>1, <3>2, <3>3, <3>4, LateStep
    <2>5. Proper(p)'
      BY <2>2, <2>3, <2>4 DEF Proper, Bound, Selected
    <2>6. QED BY <1>0, <2>1, <2>4, <2>5, WrittenFrame DEF RInv
  <1>8. CASE Complete(p)
    <2>1. /\ Exits(p) /\ at[p] \notin Unlocked /\ UNCHANGED overwrites
          /\ \A d \in (Procs \cup Roots) \ {Dir(p)} : dir'[d] = dir[d]
          /\ \A d \in Procs \cup Roots : dir'[d].model \in {dir[d].model, Absent}
      BY <1>0, <1>8 DEF Complete, Unlocked, Dirs, NoDir
    <2>2. QED BY <1>0, <2>1, ExitProper, WrittenFrame DEF RInv
  <1>9. CASE Select(p)
    <2>. DEFINE m == dir[Dir(p)].model
                r == Selected(p, m)
                e == [dir[Dir(p)] EXCEPT !.sources = r]
    <2>1. /\ Goes(p, "check") /\ at[p] \notin Unlocked
          /\ dir' = [dir EXCEPT ![Dir(p)] = e]
          /\ build' = [build EXCEPT ![p] = build[p]]
          /\ UNCHANGED <<lock, overwrites>>
      BY <1>0, <1>01, <1>9 DEF Select, Unlocked, Dirs
    <2>2. e.request = dir[Dir(p)].request /\ e.model = m /\ e.sources = r
      BY <1>01, <1>9 DEF Select
    <2>3. /\ dir[Dir(p)].request = [by |-> p, model |-> build[p].bound]
          /\ BindsModel(build[p].recipe) =>
               build[p].bound \in Model /\ m \in Model /\ build[p].bound <= m
      BY <1>0, <1>9 DEF Select, Proper, Requested
    <2>. HIDE DEF e
    <2>4. /\ \A q \in Procs \ {p} : Proper(q)'
          /\ at'[p] = "check" /\ build'[p] = build[p]
          /\ Dir(p)' = Dir(p) /\ dir'[Dir(p)] = e
          /\ build'[p].recipe.audit => lock'[build'[p].root] = p
      BY <2>1, LateStep
    <2>5. m \in Model => m <= m BY BoundsAssumption DEF Model
    <2>6. Made(p, dir[Dir(p)].sources)'
      BY <2>2, <2>3, <2>4, <2>5 DEF Made, Selected, SourcesOfModel
    <2>7. Proper(p)'
      BY <2>2, <2>3, <2>4, <2>6 DEF Proper, Bound
    <2>8. Written'
      BY <1>0, <2>1, <2>2, <2>4, WrittenFrame DEF Dirs
    <2>9. QED BY <1>0, <2>4, <2>7, <2>8 DEF RInv
  <1>10. QED BY <1>1, <1>2, <1>3, <1>4, <1>5, <1>6, <1>7, <1>8, <1>9 DEF Backend

(* A model that is written over another is the newest. *)
LEMMA OverwriteProper ==
  ASSUME RInv, NEW d \in Procs \cup Roots, Overwrite(d) PROVE RInv'
  <1>1. TInv' BY TypeStep DEF Next, RInv
  <1>2. /\ dir' = [dir EXCEPT ![d].model = overwrites + 1]
        /\ overwrites' = overwrites + 1 /\ overwrites \in Model
        /\ overwrites + 1 \in Model
        /\ dir \in Dirs
        /\ UNCHANGED <<lock, at, build>>
    BY Typed, BoundsAssumption DEF Overwrite, RInv, TInv, TypeOK, Model
  <1>3. \A c \in Procs \cup Roots :
          /\ dir'[c].request = dir[c].request
          /\ dir'[c].sources = dir[c].sources
          /\ dir'[c].model = dir[c].model
             \/ dir'[c].model = overwrites + 1
    BY <1>2 DEF Dirs
  <1>4. Written'
    BY <1>2, <1>3, BoundsAssumption DEF RInv, Written, Model
  <1>5. ASSUME NEW p \in Procs PROVE Proper(p)'
    <2>1. Proper(p) /\ Dir(p)' = Dir(p) BY <1>2 DEF RInv, Dir
    <2>2. at[p] # "idle" => Dir(p) \in Procs \cup Roots
      BY Typed DEF RInv
    <2>3. at[p] # "idle" /\ dir[Dir(p)].model \in Model =>
            /\ dir'[Dir(p)].model \in Model
            /\ dir[Dir(p)].model <= dir'[Dir(p)].model
            /\ dir'[Dir(p)].request = dir[Dir(p)].request
      BY <1>2, <1>3, <2>2, BoundsAssumption DEF RInv, Written, Model
    <2>4. at[p] # "idle" => /\ dir'[Dir(p)].request = dir[Dir(p)].request
                            /\ dir'[Dir(p)].sources = dir[Dir(p)].sources
      BY <1>3, <2>2
    <2>5. \A m \in Model : dir[Dir(p)].model \in Model /\ dir'[Dir(p)].model \in Model
            /\ m <= dir[Dir(p)].model /\ dir[Dir(p)].model <= dir'[Dir(p)].model
              => m <= dir'[Dir(p)].model
      BY BoundsAssumption DEF Model
    <2>6. ASSUME at[p] \in {"check", "verify"}, NEW s, Made(p, s)
          PROVE  Made(p, s)'
      <3>1. CASE SourcesOfModel(build[p].recipe)
        <4>1. dir[Dir(p)].model \in Model
          BY <2>1, <2>6, <3>1 DEF Proper, SourcesOfModel
        <4>2. QED BY <1>2, <2>1, <2>3, <2>5, <2>6, <3>1, <4>1 DEF Made
      <3>2. CASE ~SourcesOfModel(build[p].recipe)
        BY <1>2, <2>6, <3>2 DEF Made
      <3>3. QED BY <3>1, <3>2
    <2>7. (at[p] = "check" => Made(p, dir[Dir(p)].sources)')
          /\ (at[p] = "verify" => Made(p, build[p].selected)')
      BY <1>2, <2>1, <2>4, <2>6 DEF Proper
    <2>8. QED BY <1>2, <2>1, <2>3, <2>4, <2>5, <2>7
              DEF Proper, Requested, Bound, Unlocked, Selected
  <1>6. QED BY <1>1, <1>4, <1>5 DEF RInv

(* A step that touches neither files nor invocations. *)
LEMMA IdleProper ==
  ASSUME RInv, TInv', UNCHANGED <<dir, lock, overwrites, at, build>>
  PROVE  RInv'
  <1>1. Written' BY DEF RInv, Written
  <1>2. ASSUME NEW p \in Procs PROVE Proper(p)'
    <2>1. Proper(p) /\ Dir(p)' = Dir(p) BY DEF RInv, Dir
    <2>2. QED BY <2>1 DEF Proper, Made, Selected
  <1>3. QED BY <1>1, <1>2 DEF RInv

LEMMA RequestStep == RInv /\ [Next]_vars => RInv'
  <1>. SUFFICES ASSUME RInv, [Next]_vars PROVE RInv'
    OBVIOUS
  <1>0. TInv' BY TypeStep DEF RInv
  <1>1. ASSUME NEW p \in Procs, Fail(p) \/ Kill(p) PROVE RInv'
    <2>1. Exits(p) /\ dir' = dir /\ UNCHANGED overwrites
      BY <1>1 DEF Fail, Kill
    <2>2. QED BY <1>0, <2>1, ExitProper, WrittenFrame DEF RInv
  <1>2. ASSUME NEW t \in Roots, Edit(t) PROVE RInv'
    <2>1. UNCHANGED <<dir, lock, overwrites, at, build>> BY <1>2 DEF Edit
    <2>2. QED BY <1>0, <2>1, IdleProper
  <1>3. CASE UNCHANGED vars
    BY <1>0, <1>3, IdleProper DEF vars
  <1>4. QED BY <1>1, <1>2, <1>3, FrontendProper, BackendProper, OverwriteProper DEF Next

LEMMA RequestInit == Init => RInv
  <1>. SUFFICES ASSUME Init PROVE RInv
    OBVIOUS
  <1>1. Written BY AbsentAssumption DEF Init, Written, NoDir, Model
  <1>2. \A p \in Procs : Proper(p)
    BY DEF Init, Proper, Idle, Unlocked, Requested, Bound
  <1>3. QED BY <1>1, <1>2, TypeInit DEF RInv

(* The backend is handed the request of the build that started it, for any
   number of builds of any recipes. *)
THEOREM RequestsAreOwn == Spec => []BackendGetsOwnRequest
  <1>1. RInv => BackendGetsOwnRequest
    BY DEF RInv, Proper, BackendGetsOwnRequest
  <1>2. QED BY <1>1, RequestInit, RequestStep, PTL DEF Spec

(* The model that was checked is the one that is bound into the request,
   however many times it is written over. *)
THEOREM CheckedModelsAreBound == Spec => []CheckedModelIsBound
  <1>1. Absent \notin Model
    BY AbsentAssumption, BoundsAssumption DEF Model
  <1>2. RInv => CheckedModelIsBound
    <2>. SUFFICES ASSUME RInv, NEW p \in Procs, at[p] \in {"dispatch", "backend"}
                  PROVE  /\ BindsModel(build[p].recipe) =>
                              /\ build[p].checked = build[p].bound
                              /\ build[p].bound # Absent
                         /\ build[p].recipe.check =>
                              build[p].selected = Selected(p, build[p].bound)
      BY DEF CheckedModelIsBound
    <2>1. Proper(p) BY DEF RInv
    <2>2. QED BY <1>1, <2>1 DEF Proper
  <1>3. QED BY <1>2, RequestInit, RequestStep, PTL DEF Spec

-----------------------------------------------------------------------------
(* The frontend cache.  With one root and no edits during a build, whatever the
   cache holds while somebody builds is of the files as they are, unless it was
   there before: then its manifest does not match, and neither file is used. *)
OneRoot == \A t, u \in Roots : t = u

SymbolsFresh == \A t \in Roots : cache.symbols \in {Absent, Current(t)}
VisibilityFresh == \A t \in Roots : cache.visibility \in {Absent, Current(t)}

(* The cache's manifest is of no later version than the files ... *)
NotAhead == cache.manifest # Absent =>
              \A t \in Roots : cache.manifest.of.version <= version[t]

(* ... and when it is of this one, so is what is beside it. *)
Certified == \A t \in Roots :
  cache.manifest # Absent /\ cache.manifest.of = Current(t) =>
    SymbolsFresh /\ VisibilityFresh

(* Where the symbols, and where symbols and visibility, are in memory. *)
HasVisibility == {"saveSymbols", "saveVisibility", "saveManifest", "request",
                  "probe", "bind", "select", "check", "verify", "dispatch",
                  "backend"}
HasSymbols == HasVisibility \cup {"loadVisibility"}

(* What an invocation that loads or saves knows of the cache, and of its own
   declarations. *)
Sound(p) ==
  /\ at[p] = "resolve" /\ build[p].manifest.of = Current(build[p].root)
       => SymbolsFresh /\ VisibilityFresh
  /\ at[p] \in {"loadSymbols", "loadVisibility", "saveVisibility", "saveManifest"}
       => SymbolsFresh
  /\ at[p] \in {"loadSymbols", "loadVisibility", "saveManifest"} => VisibilityFresh
  /\ at[p] \in HasSymbols => build[p].symbols = Current(build[p].root)
  /\ at[p] \in HasVisibility => build[p].visibility = Current(build[p].root)

DInv == TInv /\ NotAhead /\ Certified /\ \A p \in Procs : Sound(p)

(* A cache that is not touched stays what it is. *)
LEMMA SameCache ==
  ASSUME DInv, UNCHANGED <<version, cache>>
  PROVE  /\ SymbolsFresh => SymbolsFresh'
         /\ VisibilityFresh => VisibilityFresh'
         /\ NotAhead' /\ Certified'
  <1>1. \A t \in Roots : Current(t)' = Current(t)
    BY DEF Current
  <1>2. (SymbolsFresh => SymbolsFresh') /\ (VisibilityFresh => VisibilityFresh')
    BY <1>1 DEF SymbolsFresh, VisibilityFresh
  <1>3. NotAhead'
    BY DEF DInv, NotAhead
  <1>4. Certified'
    BY <1>1, <1>2 DEF DInv, Certified
  <1>5. QED BY <1>2, <1>3, <1>4

(* A step of one invocation that makes nothing stale leaves the others sound. *)
LEMMA OthersSound ==
  ASSUME DInv, NEW p \in Procs, NEW place, Goes(p, place),
         NEW b, build' = [build EXCEPT ![p] = b], UNCHANGED version,
         SymbolsFresh => SymbolsFresh', VisibilityFresh => VisibilityFresh'
  PROVE  /\ \A q \in Procs \ {p} : Sound(q)'
         /\ at'[p] = place /\ build'[p] = b
  <1>1. at'[p] = place /\ build'[p] = b
    BY DEF DInv, TInv, TypeOK, Goes
  <1>2. ASSUME NEW q \in Procs \ {p} PROVE Sound(q)'
    <2>1. at'[q] = at[q] /\ build'[q] = build[q] /\ Sound(q)
      BY DEF DInv, TInv, TypeOK, Goes
    <2>2. Current(build[q].root)' = Current(build[q].root)
      BY <2>1 DEF Current
    <2>3. QED BY <2>1, <2>2 DEF Sound
  <1>3. QED BY <1>1, <1>2

LEMMA ExitSound ==
  ASSUME DInv, NEW p \in Procs, Exits(p), UNCHANGED <<version, cache>>
  PROVE  NotAhead' /\ Certified' /\ \A q \in Procs : Sound(q)'
  <1>1. Goes(p, "idle") /\ build' = [build EXCEPT ![p] = Idle]
    BY DEF Exits
  <1>2. /\ \A q \in Procs \ {p} : Sound(q)'
        /\ at'[p] = "idle"
    <2>1. (SymbolsFresh => SymbolsFresh') /\ (VisibilityFresh => VisibilityFresh')
      BY SameCache
    <2>2. QED BY <1>1, <2>1, OthersSound
  <1>3. Sound(p)' BY <1>2 DEF Sound, HasSymbols, HasVisibility
  <1>4. QED BY <1>2, <1>3, SameCache

(* From the request on, declarations and cache are left alone. *)
LEMMA BackendSound ==
  ASSUME DInv, NEW p \in Procs, Backend(p)
  PROVE  NotAhead' /\ Certified' /\ \A q \in Procs : Sound(q)'
  <1>0. build \in [Procs -> Build] /\ build[p] \in Build /\ Sound(p)
    BY DEF DInv, TInv, TypeOK, Build
  <1>1. CASE Complete(p)
    BY <1>1, ExitSound DEF Complete
  <1>2. CASE ~Complete(p)
    <2>1. UNCHANGED <<version, cache>>
      BY <1>2 DEF Backend, WriteRequest, Probe, Bind, Select, Check, NoCheck, Verify,
                  Dispatch
    <2>2. PICK place \in {"probe", "bind", "select", "check", "verify", "dispatch",
                       "backend"} :
            Goes(p, place)
      BY <1>2 DEF Backend, WriteRequest, Probe, Bind, Select, Check, NoCheck, Verify,
                  Dispatch
    <2>3. at[p] \in {"request", "probe", "bind", "select", "check", "verify", "dispatch"}
      BY <1>2 DEF Backend, WriteRequest, Probe, Bind, Select, Check, NoCheck, Verify,
                  Dispatch
    <2>4. PICK b : /\ build' = [build EXCEPT ![p] = b]
                   /\ b.symbols = build[p].symbols
                   /\ b.visibility = build[p].visibility
                   /\ b.root = build[p].root
      <3>1. CASE build' = build
        BY <1>0, <3>1
      <3>2. CASE Bind(p)
        <4>. DEFINE b == [build[p] EXCEPT !.bound = dir[Dir(p)].model]
        <4>1. build' = [build EXCEPT ![p] = b] BY <1>0, <3>2 DEF Bind
        <4>2. /\ b.symbols = build[p].symbols /\ b.visibility = build[p].visibility
              /\ b.root = build[p].root
          BY <1>0 DEF Build
        <4>. HIDE DEF b
        <4>3. QED BY <4>1, <4>2
      <3>3. CASE Check(p)
        <4>1. PICK m, r : build' = [build EXCEPT ![p].checked = m, ![p].selected = r]
          BY <3>3 DEF Check
        <4>. DEFINE b == [build[p] EXCEPT !.checked = m, !.selected = r]
        <4>2. build' = [build EXCEPT ![p] = b] BY <1>0, <4>1
        <4>3. /\ b.symbols = build[p].symbols /\ b.visibility = build[p].visibility
              /\ b.root = build[p].root
          BY <1>0 DEF Build
        <4>. HIDE DEF b
        <4>4. QED BY <4>2, <4>3
      <3>4. CASE Dispatch(p)
        <4>. DEFINE b == [build[p] EXCEPT !.ran = dir[Dir(p)].request]
        <4>1. build' = [build EXCEPT ![p] = b] BY <1>0, <3>4 DEF Dispatch
        <4>2. /\ b.symbols = build[p].symbols /\ b.visibility = build[p].visibility
              /\ b.root = build[p].root
          BY <1>0 DEF Build
        <4>. HIDE DEF b
        <4>3. QED BY <4>1, <4>2
      <3>5. QED BY <1>2, <3>1, <3>2, <3>3, <3>4
              DEF Backend, WriteRequest, Probe, Select, NoCheck, Verify
    <2>5. /\ \A q \in Procs \ {p} : Sound(q)'
          /\ at'[p] = place /\ build'[p] = b
      <3>1. (SymbolsFresh => SymbolsFresh') /\ (VisibilityFresh => VisibilityFresh')
        BY <2>1, SameCache
      <3>2. QED BY <2>1, <2>2, <2>4, <3>1, OthersSound
    <2>6. /\ build[p].symbols = Current(build[p].root)
          /\ build[p].visibility = Current(build[p].root)
      BY <1>0, <2>3 DEF Sound, HasSymbols, HasVisibility
    <2>7. Current(build[p].root)' = Current(build[p].root)
      BY <2>1, <2>4, <2>5 DEF Current
    <2>8. Sound(p)'
      BY <2>2, <2>4, <2>5, <2>6, <2>7 DEF Sound
    <2>9. QED BY <2>1, <2>5, <2>8, SameCache
  <1>3. QED BY <1>1, <1>2

(* Up to the manifest.  What was loaded under a matching manifest, or parsed, is
   of the files as they are, and nothing else is saved. *)
LEMMA LoadSound ==
  ASSUME DInv, NEW p \in Procs,
         Start(p) \/ Open(p) \/ Acquire(p) \/ Busy(p) \/ Resolve(p)
         \/ LoadSymbols(p) \/ LoadVisibility(p) \/ Parse(p)
  PROVE  NotAhead' /\ Certified' /\ \A q \in Procs : Sound(q)'
  <1>0. /\ build \in [Procs -> Build] /\ build[p] \in Build /\ Sound(p)
        /\ at[p] # "idle" => build[p].root \in Roots
    BY DEF DInv, TInv, TypeOK, Build, Configured
  <1>1. CASE Start(p)
    <2>1. PICK r, t : build' = [build EXCEPT ![p].recipe = r, ![p].root = t]
      BY <1>1 DEF Start
    <2>. DEFINE b == [build[p] EXCEPT !.recipe = r, !.root = t]
    <2>2. build' = [build EXCEPT ![p] = b] BY <1>0, <2>1
    <2>3. Goes(p, "open") /\ UNCHANGED <<version, cache>> BY <1>1 DEF Start
    <2>. HIDE DEF b
    <2>4. (SymbolsFresh => SymbolsFresh') /\ (VisibilityFresh => VisibilityFresh')
      BY <2>3, SameCache
    <2>5. (\A q \in Procs \ {p} : Sound(q)') /\ at'[p] = "open"
      BY <2>2, <2>3, <2>4, OthersSound
    <2>6. Sound(p)' BY <2>5 DEF Sound, HasSymbols, HasVisibility
    <2>7. QED BY <2>3, <2>5, <2>6, SameCache
  <1>2. CASE Open(p)
    <2>. DEFINE found == IF build[p].recipe.clean THEN NoCache ELSE cache
                m == IF Incremental(build[p].recipe) THEN found.manifest ELSE Absent
                b == [build[p] EXCEPT !.manifest = m]
    <2>1. build' = [build EXCEPT ![p] = b] BY <1>0, <1>2 DEF Open
    <2>2. /\ cache' \in {NoCache, cache} /\ UNCHANGED version
          /\ at[p] = "open"
      BY <1>2 DEF Open
    <2>3. PICK place \in {"lock", "resolve", "parse"} :
            /\ Goes(p, place)
            /\ place = "resolve" => /\ Incremental(build[p].recipe)
                                    /\ found.manifest # Absent
      BY <1>2 DEF Open
    <2>4. b.root = build[p].root /\ b.manifest = m BY <1>0 DEF Build
    <2>5. place = "resolve" =>
            cache' = cache /\ cache.manifest # Absent /\ b.manifest = cache.manifest
      BY <1>2, <2>3, <2>4 DEF Open, NoCache
    <2>. HIDE DEF b, m, found
    <2>6. /\ SymbolsFresh => SymbolsFresh'
          /\ VisibilityFresh => VisibilityFresh'
          /\ NotAhead' /\ Certified'
      <3>1. CASE cache' = cache BY <2>2, <3>1, SameCache
      <3>2. CASE cache' = NoCache
        BY <3>2 DEF NoCache, SymbolsFresh, VisibilityFresh, NotAhead, Certified
      <3>3. QED BY <2>2, <3>1, <3>2
    <2>7. /\ \A q \in Procs \ {p} : Sound(q)'
          /\ at'[p] = place /\ build'[p] = b
      <3>1. Goes(p, place) /\ UNCHANGED version BY <2>2, <2>3
      <3>2. (SymbolsFresh => SymbolsFresh') /\ (VisibilityFresh => VisibilityFresh')
        BY <2>6
      <3>3. QED BY <2>1, <3>1, <3>2, OthersSound
    <2>8. Current(build[p].root)' = Current(build[p].root)
      BY <2>2, <2>4, <2>7 DEF Current
    <2>9. place = "resolve" /\ b.manifest.of = Current(build[p].root) =>
            SymbolsFresh' /\ VisibilityFresh'
      <3>. SUFFICES ASSUME place = "resolve", b.manifest.of = Current(build[p].root)
                    PROVE  SymbolsFresh' /\ VisibilityFresh'
        OBVIOUS
      <3>1. build[p].root \in Roots /\ cache.manifest # Absent
            /\ cache.manifest.of = Current(build[p].root)
        BY <1>0, <2>2, <2>5
      <3>2. SymbolsFresh /\ VisibilityFresh
        BY <3>1 DEF DInv, Certified
      <3>3. QED BY <2>6, <3>2
    <2>10. Sound(p)'
      BY <2>3, <2>7, <2>8, <2>9 DEF Sound, HasSymbols, HasVisibility
    <2>11. QED BY <2>6, <2>7, <2>10
  <1>3. CASE Acquire(p)
    <2>1. /\ Goes(p, "parse") /\ build' = [build EXCEPT ![p] = build[p]]
          /\ UNCHANGED <<version, cache>>
      BY <1>0, <1>3 DEF Acquire
    <2>2. (SymbolsFresh => SymbolsFresh') /\ (VisibilityFresh => VisibilityFresh')
      BY <2>1, SameCache
    <2>3. (\A q \in Procs \ {p} : Sound(q)') /\ at'[p] = "parse"
      BY <2>1, <2>2, OthersSound
    <2>4. Sound(p)' BY <2>3 DEF Sound, HasSymbols, HasVisibility
    <2>5. QED BY <2>1, <2>3, <2>4, SameCache
  <1>4. CASE Busy(p) BY <1>4, ExitSound DEF Busy
  <1>5. CASE Resolve(p)
    <2>. DEFINE b == [build[p] EXCEPT !.manifest = Absent]
    <2>1. build' = [build EXCEPT ![p] = b] BY <1>0, <1>5 DEF Resolve
    <2>2. UNCHANGED <<version, cache>> /\ at[p] = "resolve" BY <1>5 DEF Resolve
    <2>3. PICK place \in {"loadSymbols", "parse"} :
            Goes(p, place) /\ (place = "loadSymbols" => Valid(p))
      BY <1>5 DEF Resolve
    <2>4. place = "loadSymbols" => SymbolsFresh /\ VisibilityFresh
      BY <1>0, <2>2, <2>3 DEF Sound, Valid
    <2>. HIDE DEF b
    <2>5. (SymbolsFresh => SymbolsFresh') /\ (VisibilityFresh => VisibilityFresh')
      BY <2>2, SameCache
    <2>6. (\A q \in Procs \ {p} : Sound(q)') /\ at'[p] = place
      BY <2>1, <2>2, <2>3, <2>5, OthersSound
    <2>7. Sound(p)'
      BY <2>3, <2>4, <2>5, <2>6 DEF Sound, HasSymbols, HasVisibility
    <2>8. QED BY <2>2, <2>6, <2>7, SameCache
  <1>6. CASE LoadSymbols(p)
    <2>. DEFINE b == [build[p] EXCEPT !.symbols = cache.symbols]
    <2>1. build' = [build EXCEPT ![p] = b] BY <1>0, <1>6 DEF LoadSymbols
    <2>2. UNCHANGED <<version, cache>> /\ at[p] = "loadSymbols"
      BY <1>6 DEF LoadSymbols
    <2>3. PICK place \in {"loadVisibility", "parse"} :
            Goes(p, place) /\ (place = "loadVisibility" => cache.symbols # Absent)
      BY <1>6 DEF LoadSymbols
    <2>4. SymbolsFresh /\ VisibilityFresh
      BY <1>0, <2>2 DEF Sound
    <2>5. b.symbols = cache.symbols /\ b.root = build[p].root BY <1>0 DEF Build
    <2>. HIDE DEF b
    <2>6. place = "loadVisibility" => b.symbols = Current(build[p].root)
      BY <1>0, <2>2, <2>3, <2>4, <2>5 DEF SymbolsFresh
    <2>7. (SymbolsFresh => SymbolsFresh') /\ (VisibilityFresh => VisibilityFresh')
      BY <2>2, SameCache
    <2>8. /\ \A q \in Procs \ {p} : Sound(q)'
          /\ at'[p] = place /\ build'[p] = b
      BY <2>1, <2>2, <2>3, <2>7, OthersSound
    <2>9. Current(build[p].root)' = Current(build[p].root)
      BY <2>2, <2>5, <2>8 DEF Current
    <2>10. Sound(p)'
      BY <2>3, <2>4, <2>6, <2>7, <2>8, <2>9 DEF Sound, HasSymbols, HasVisibility
    <2>11. QED BY <2>2, <2>8, <2>10, SameCache
  <1>7. CASE LoadVisibility(p)
    <2>. DEFINE b == [build[p] EXCEPT !.visibility = cache.visibility]
    <2>1. build' = [build EXCEPT ![p] = b] BY <1>0, <1>7 DEF LoadVisibility
    <2>2. UNCHANGED <<version, cache>> /\ at[p] = "loadVisibility"
      BY <1>7 DEF LoadVisibility
    <2>3. PICK place \in {"saveManifest", "parse"} :
            Goes(p, place) /\ (place = "saveManifest" => cache.visibility # Absent)
      BY <1>7 DEF LoadVisibility
    <2>4. /\ SymbolsFresh /\ VisibilityFresh
          /\ build[p].symbols = Current(build[p].root)
      BY <1>0, <2>2 DEF Sound, HasSymbols
    <2>5. /\ b.visibility = cache.visibility /\ b.symbols = build[p].symbols
          /\ b.root = build[p].root
      BY <1>0 DEF Build
    <2>. HIDE DEF b
    <2>6. place = "saveManifest" => b.visibility = Current(build[p].root)
      BY <1>0, <2>2, <2>3, <2>4, <2>5 DEF VisibilityFresh
    <2>7. (SymbolsFresh => SymbolsFresh') /\ (VisibilityFresh => VisibilityFresh')
      BY <2>2, SameCache
    <2>8. /\ \A q \in Procs \ {p} : Sound(q)'
          /\ at'[p] = place /\ build'[p] = b
      BY <2>1, <2>2, <2>3, <2>7, OthersSound
    <2>9. Current(build[p].root)' = Current(build[p].root)
      BY <2>2, <2>5, <2>8 DEF Current
    <2>10. Sound(p)'
      BY <2>3, <2>4, <2>5, <2>6, <2>7, <2>8, <2>9
         DEF Sound, HasSymbols, HasVisibility
    <2>11. QED BY <2>2, <2>8, <2>10, SameCache
  <1>8. CASE Parse(p)
    <2>. DEFINE now == Current(build[p].root)
                b == [build[p] EXCEPT !.symbols = now, !.visibility = now]
    <2>1. build' = [build EXCEPT ![p] = b] BY <1>0, <1>8 DEF Parse
    <2>2. UNCHANGED <<version, cache>> BY <1>8 DEF Parse
    <2>3. PICK place \in {"saveSymbols", "request"} : Goes(p, place)
      BY <1>8 DEF Parse
    <2>4. /\ b.visibility = Current(build[p].root)
          /\ b.symbols = Current(build[p].root) /\ b.root = build[p].root
      BY <1>0 DEF Build
    <2>. HIDE DEF b, now
    <2>5. (SymbolsFresh => SymbolsFresh') /\ (VisibilityFresh => VisibilityFresh')
      BY <2>2, SameCache
    <2>6. /\ \A q \in Procs \ {p} : Sound(q)'
          /\ at'[p] = place /\ build'[p] = b
      BY <2>1, <2>2, <2>3, <2>5, OthersSound
    <2>7. Current(build[p].root)' = Current(build[p].root)
      BY <2>2, <2>4, <2>6 DEF Current
    <2>8. Sound(p)'
      BY <2>3, <2>4, <2>6, <2>7 DEF Sound
    <2>9. QED BY <2>2, <2>6, <2>8, SameCache
  <1>9. QED BY <1>1, <1>2, <1>3, <1>4, <1>5, <1>6, <1>7, <1>8

(* A save that fails leaves no file that loads. *)
LEMMA SaveSound ==
  ASSUME OneRoot, ~FailedSaveKeepsOld, DInv, NEW p \in Procs,
         SaveSymbols(p) \/ SaveVisibility(p) \/ SaveManifest(p)
  PROVE  NotAhead' /\ Certified' /\ \A q \in Procs : Sound(q)'
  <1>0. /\ build \in [Procs -> Build] /\ build[p] \in Build /\ Sound(p)
        /\ at[p] # "idle" => build[p].root \in Roots
        /\ cache \in Cache /\ NotAhead /\ Certified
    BY DEF DInv, TInv, TypeOK, Build, Cache, Configured
  <1>1. /\ build' = [build EXCEPT ![p] = build[p]] /\ UNCHANGED version
        /\ build[p].symbols = Current(build[p].root)
        /\ build[p].visibility = Current(build[p].root)
        /\ build[p].root \in Roots
    BY <1>0 DEF SaveSymbols, SaveVisibility, SaveManifest, Sound, HasSymbols,
                HasVisibility
  <1>2. \A t \in Roots : /\ Current(t) = Current(build[p].root)
                         /\ Current(t)' = Current(t)
                         /\ version[t] = version[build[p].root]
                         /\ version[t] \in Nat
    BY <1>1 DEF OneRoot, Current, DInv, TInv, TypeOK
  <1>3. CASE SaveSymbols(p)
    <2>1. PICK left \in {Current(build[p].root), Absent} :
            cache' = [cache EXCEPT !.symbols = left]
      BY <1>1, <1>3 DEF SaveSymbols, Saved
    <2>2. /\ cache'.symbols = left
          /\ cache'.visibility = cache.visibility
          /\ cache'.manifest = cache.manifest
      BY <1>0, <2>1 DEF Cache
    <2>3. SymbolsFresh'
      BY <1>2, <2>2 DEF SymbolsFresh
    <2>4. VisibilityFresh => VisibilityFresh'
      BY <1>2, <2>2 DEF VisibilityFresh
    <2>5. NotAhead'
      BY <1>0, <1>1, <2>2 DEF NotAhead
    <2>6. Certified'
      BY <1>0, <1>2, <2>2, <2>3, <2>4 DEF Certified
    <2>7. Goes(p, "saveVisibility") BY <1>3 DEF SaveSymbols
    <2>8. /\ \A q \in Procs \ {p} : Sound(q)'
          /\ at'[p] = "saveVisibility" /\ build'[p] = build[p]
      BY <1>1, <2>3, <2>4, <2>7, OthersSound
    <2>9. Current(build[p].root)' = Current(build[p].root)
      BY <1>1, <2>8 DEF Current
    <2>10. Sound(p)'
      BY <1>1, <2>3, <2>8, <2>9 DEF Sound
    <2>11. QED BY <2>5, <2>6, <2>8, <2>10
  <1>4. CASE SaveVisibility(p)
    <2>1. PICK left \in {Current(build[p].root), Absent} :
            cache' = [cache EXCEPT !.visibility = left]
      BY <1>1, <1>4 DEF SaveVisibility, Saved
    <2>2. /\ cache'.symbols = cache.symbols
          /\ cache'.visibility = left
          /\ cache'.manifest = cache.manifest
      BY <1>0, <2>1 DEF Cache
    <2>3. SymbolsFresh
      BY <1>0, <1>4 DEF SaveVisibility, Sound
    <2>4. SymbolsFresh' /\ VisibilityFresh'
      BY <1>2, <2>2, <2>3 DEF SymbolsFresh, VisibilityFresh
    <2>5. NotAhead'
      BY <1>0, <1>1, <2>2 DEF NotAhead
    <2>6. Certified' BY <2>4 DEF Certified
    <2>7. Goes(p, "saveManifest") BY <1>4 DEF SaveVisibility
    <2>8. /\ \A q \in Procs \ {p} : Sound(q)'
          /\ at'[p] = "saveManifest" /\ build'[p] = build[p]
      BY <1>1, <2>4, <2>7, OthersSound
    <2>9. Current(build[p].root)' = Current(build[p].root)
      BY <1>1, <2>8 DEF Current
    <2>10. Sound(p)'
      BY <1>1, <2>4, <2>8, <2>9 DEF Sound
    <2>11. QED BY <2>5, <2>6, <2>8, <2>10
  <1>5. CASE SaveManifest(p)
    <2>1. PICK left \in {NewManifest(p), Absent} :
            cache' = [cache EXCEPT !.manifest = left]
      BY <1>5 DEF SaveManifest, Saved
    <2>2. /\ cache'.symbols = cache.symbols
          /\ cache'.visibility = cache.visibility
          /\ cache'.manifest = left
      BY <1>0, <2>1 DEF Cache
    <2>3. SymbolsFresh /\ VisibilityFresh
      BY <1>0, <1>5 DEF SaveManifest, Sound
    <2>4. SymbolsFresh' /\ VisibilityFresh'
      BY <1>2, <2>2, <2>3 DEF SymbolsFresh, VisibilityFresh
    <2>5. NotAhead'
      <3>1. left # Absent => left.of.version = version[build[p].root]
        BY <2>1 DEF NewManifest, Current
      <3>2. QED BY <1>1, <1>2, <2>2, <3>1 DEF NotAhead
    <2>6. Certified' BY <2>4 DEF Certified
    <2>7. Goes(p, "request") BY <1>5 DEF SaveManifest
    <2>8. /\ \A q \in Procs \ {p} : Sound(q)'
          /\ at'[p] = "request" /\ build'[p] = build[p]
      BY <1>1, <2>4, <2>7, OthersSound
    <2>9. Current(build[p].root)' = Current(build[p].root)
      BY <1>1, <2>8 DEF Current
    <2>10. Sound(p)'
      BY <1>1, <2>8, <2>9 DEF Sound
    <2>11. QED BY <2>5, <2>6, <2>8, <2>10
  <1>6. QED BY <1>3, <1>4, <1>5

(* An edit between builds leaves a manifest that matches nothing. *)
LEMMA EditSound ==
  ASSUME OneRoot, ~EditsDuringBuild, DInv, NEW t \in Roots, Edit(t)
  PROVE  NotAhead' /\ Certified' /\ \A q \in Procs : Sound(q)'
  <1>1. /\ \A p \in Procs : at'[p] = "idle"
        /\ \A u \in Roots : version[u] \in Nat /\ version'[u] = version[u] + 1
        /\ cache' = cache
    BY DEF Edit, OneRoot, DInv, TInv, TypeOK
  <1>2. \A u \in Roots : cache.manifest # Absent =>
          /\ cache.manifest.of.version \in Nat
          /\ cache.manifest.of.version <= version[u]
    BY DEF DInv, NotAhead, TInv, TypeOK, Manifest, Declared
  <1>3. NotAhead' BY <1>1, <1>2 DEF NotAhead
  <1>4. Certified'
    <2>1. \A u \in Roots : Current(u)'.version = version[u] + 1
      BY <1>1 DEF Current
    <2>2. \A u \in Roots :
            cache'.manifest # Absent => cache'.manifest.of # Current(u)'
      BY <1>1, <1>2, <2>1
    <2>3. QED BY <2>2 DEF Certified
  <1>5. \A q \in Procs : Sound(q)'
    BY <1>1 DEF Sound, HasSymbols, HasVisibility
  <1>6. QED BY <1>3, <1>4, <1>5

LEMMA DeclarationsStep ==
  ASSUME OneRoot, ~EditsDuringBuild, ~FailedSaveKeepsOld
  PROVE  DInv /\ [Next]_vars => DInv'
  <1>. SUFFICES ASSUME DInv, [Next]_vars PROVE DInv'
    OBVIOUS
  <1>1. TInv' BY TypeStep DEF DInv
  <1>2. ASSUME NEW p \in Procs, Frontend(p)
        PROVE  NotAhead' /\ Certified' /\ \A q \in Procs : Sound(q)'
    BY <1>2, LoadSound, SaveSound DEF Frontend
  <1>3. ASSUME NEW p \in Procs, Fail(p) \/ Kill(p)
        PROVE  NotAhead' /\ Certified' /\ \A q \in Procs : Sound(q)'
    BY <1>3, ExitSound DEF Fail, Kill
  <1>4. ASSUME UNCHANGED <<version, cache, at, build>>
        PROVE  NotAhead' /\ Certified' /\ \A q \in Procs : Sound(q)'
    <2>1. (SymbolsFresh => SymbolsFresh') /\ (VisibilityFresh => VisibilityFresh')
      BY <1>4, SameCache
    <2>2. ASSUME NEW q \in Procs PROVE Sound(q)'
      <3>1. Current(build[q].root)' = Current(build[q].root)
        BY <1>4 DEF Current
      <3>2. Sound(q) BY DEF DInv
      <3>3. QED BY <1>4, <2>1, <3>1, <3>2 DEF Sound
    <2>3. QED BY <1>4, <2>2, SameCache
  <1>5. ASSUME NEW d \in Procs \cup Roots, Overwrite(d)
        PROVE  NotAhead' /\ Certified' /\ \A q \in Procs : Sound(q)'
    BY <1>4, <1>5 DEF Overwrite
  <1>6. CASE UNCHANGED vars
    <2>1. NotAhead' /\ Certified' /\ \A q \in Procs : Sound(q)'
      BY <1>4, <1>6 DEF vars
    <2>2. QED BY <1>1, <2>1 DEF DInv
  <1>7. CASE Next
    <2>1. NotAhead' /\ Certified' /\ \A q \in Procs : Sound(q)'
      BY <1>2, <1>3, <1>5, <1>7, BackendSound, EditSound DEF Next
    <2>2. QED BY <1>1, <2>1 DEF DInv
  <1>8. QED BY <1>6, <1>7

LEMMA DeclarationsInit == Init => DInv
  BY TypeInit DEF Init, NoCache, DInv, NotAhead, Certified, Sound, HasSymbols,
                  HasVisibility

(* With one root, files that are edited only between builds, and saves that leave
   nothing behind when they fail, the backend is handed the present
   declarations, from whichever build's cache they come and wherever that build
   died. *)
THEOREM DeclarationsAreCurrent ==
  ASSUME OneRoot, ~EditsDuringBuild, ~FailedSaveKeepsOld
  PROVE  Spec => []DeclarationsAreOwn
  <1>1. DInv => DeclarationsAreOwn
    BY DEF DInv, Sound, DeclarationsAreOwn, HasSymbols, HasVisibility
  <1>2. DInv /\ [Next]_vars => DInv' BY DeclarationsStep
  <1>3. QED BY <1>1, <1>2, DeclarationsInit, PTL DEF Spec

(* Under the same conditions a manifest of the present files has no older symbols
   or visibility beside it, however many builds write to the cache and die. *)
THEOREM ManifestsCertify ==
  ASSUME OneRoot, ~EditsDuringBuild, ~FailedSaveKeepsOld
  PROVE  Spec => []ValidCacheIsCurrent
  <1>1. DInv => ValidCacheIsCurrent
    BY DEF DInv, Certified, SymbolsFresh, VisibilityFresh, OneRoot, ValidCacheIsCurrent
  <1>2. DInv /\ [Next]_vars => DInv' BY DeclarationsStep
  <1>3. QED BY <1>1, <1>2, DeclarationsInit, PTL DEF Spec
=============================================================================
