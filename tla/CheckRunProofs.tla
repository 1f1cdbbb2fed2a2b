--------------------------- MODULE CheckRunProofs ---------------------------
(***************************************************************************)
(* Theorems about CheckRun, for any selections and switches: what a        *)
(* passing verdict, fresh or cached, can follow from.                      *)
(*                                                                         *)
(* The invariant follows the checks through a run: those asked for up to   *)
(* the present one are in the list of results, and an error of any of      *)
(* them, an extraction that yielded nothing and a degraded deep analysis   *)
(* are all accounted for in anyErrors, from which the verdict follows.     *)
(***************************************************************************)
EXTENDS CheckRun, TLAPS

Before == {"config", "list", "lookup", "frontend", "server", "audit"}
During == Checks \cup {"diagnostics", "finish"}

(* The checks that precede a place. *)
Earlier(p) == CASE p = "completeness" -> {}
                [] p = "containment"  -> {"completeness"}
                [] p = "import-path"  -> {"completeness", "containment"}
                [] p = "purity"       -> {"completeness", "containment", "import-path"}
                [] p = "visibility"   -> Checks \ {"visibility", "stage-isolation"}
                [] p = "stage-isolation" -> Checks \ {"stage-isolation"}
                [] OTHER -> Checks

(* A run starts with nothing to its account. *)
Blank == at \in Before => results = NoResults /\ history = Fresh

(* An audit that got past the configuration asks for everything. *)
Gated == at \notin {"idle", "config"} /\ request.audit
         => request.mode = "check" /\ request.selected = Checks
Listed == at = "list" => request.mode = "list"

(* What was off was not off in an audit. *)
Forced == request.audit => results.off = {}

InOrder == at \in During => \A k \in Earlier(at) : ShouldRun(k) => k \in results.ran

Accounted == at \in During =>
  /\ results.failed => errors
  /\ results.starved => errors
  /\ history.degraded => errors

Inv == /\ Blank /\ Gated /\ Listed /\ Forced /\ InOrder /\ Accounted
       /\ PassIsWhole /\ StarvedNeverPasses /\ DegradedNeverPasses
IInv == TypeOK /\ Inv

-----------------------------------------------------------------------------
(* The checks come in their order. *)
LEMMA AfterAll ==
  ASSUME NEW k \in Checks
  PROVE  /\ After(k) \in During
         /\ After(k) \in Places
         /\ After(k) \notin Before
         /\ After(k) # "idle"
         /\ Earlier(After(k)) = Earlier(k) \cup {k}
  <1>1. CASE k = "completeness" BY <1>1 DEF After, Earlier, During, Before, Checks, Places
  <1>2. CASE k = "containment" BY <1>2 DEF After, Earlier, During, Before, Checks, Places
  <1>3. CASE k = "import-path" BY <1>3 DEF After, Earlier, During, Before, Checks, Places
  <1>4. CASE k = "purity" BY <1>4 DEF After, Earlier, During, Before, Checks, Places
  <1>5. CASE k = "visibility" BY <1>5 DEF After, Earlier, During, Before, Checks, Places
  <1>6. CASE k = "stage-isolation" BY <1>6 DEF After, Earlier, During, Before, Checks, Places
  <1>7. QED BY <1>1, <1>2, <1>3, <1>4, <1>5, <1>6 DEF Checks

(* The results a check may leave. *)
LEMMA RanType ==
  ASSUME results \in Results, NEW k \in Checks, NEW e \in BOOLEAN
  PROVE  /\ Ran(k, e) \in Results
         /\ Ran(k, e).ran = results.ran \cup {k}
         /\ Ran(k, e).failed <=> results.failed \/ e
         /\ Ran(k, e).off = results.off
         /\ Ran(k, e).starved <=> results.starved
  BY DEF Ran, Results

LEMMA StarvedType ==
  ASSUME results \in Results, NEW k \in Checks, NEW e \in BOOLEAN
  PROVE  /\ Starved(k, e) \in Results
         /\ Starved(k, e).ran = results.ran \cup {k}
         /\ Starved(k, e).failed <=> results.failed \/ e
         /\ Starved(k, e).off = results.off
         /\ Starved(k, e).starved
  BY DEF Ran, Starved, Results

-----------------------------------------------------------------------------
(* What a check that concludes must leave for the invariant to hold. *)
LEMMA ConcludesStep ==
  ASSUME IInv, NEW k \in Checks, at = k, ShouldRun(k), NEW r \in Results,
         Concludes(k, r),
         r.ran = results.ran \cup {k},
         results.failed => r.failed,
         r.starved => results.starved \/ r.failed,
         request.audit => r.off = {},
         history' \in [degraded : BOOLEAN, cached : BOOLEAN],
         history'.degraded => history.degraded \/ r.failed,
         server' \in {"none", "ready", "down"},
         UNCHANGED <<request, supported, code, cache>>
  PROVE  IInv'
  <1>. USE DEF IInv, Inv
  <1>1. /\ at' = After(k) /\ results' = r
        /\ at' \in During /\ at' \in Places /\ at' \notin Before /\ at' # "idle"
        /\ Earlier(at') = Earlier(at) \cup {k}
    BY AfterAll DEF Concludes
  <1>a. at \in During /\ at # "config" /\ at # "idle"
    BY DEF During, Checks
  <1>b. errors' = (errors \/ r.failed) BY DEF Concludes
  <1>c. errors \in BOOLEAN /\ r.failed \in BOOLEAN BY DEF TypeOK, Results
  <1>d. errors' \in BOOLEAN BY <1>b, <1>c
  <1>2. TypeOK' BY <1>1, <1>d DEF TypeOK
  <1>3. Blank' BY <1>1 DEF Blank
  <1>4. Gated' BY <1>a, <1>1 DEF Gated
  <1>5. Listed' BY <1>1 DEF Listed, Before
  <1>6. Forced' BY <1>1 DEF Forced
  <1>7. InOrder'
    <2>1. \A j \in Earlier(at) : ShouldRun(j) => j \in results.ran
      BY <1>a DEF InOrder
    <2>2. \A j : ShouldRun(j)' <=> ShouldRun(j) BY DEF ShouldRun
    <2>3. QED BY <1>1, <2>1, <2>2 DEF InOrder
  <1>8. Accounted' BY <1>1, <1>a, <1>b, <1>c DEF Accounted
  <1>9. PassIsWhole' /\ StarvedNeverPasses' BY <1>1 DEF PassIsWhole, StarvedNeverPasses, Passed
  <1>10. DegradedNeverPasses' BY <1>1 DEF DegradedNeverPasses, Passed
  <1>11. QED BY <1>2, <1>3, <1>4, <1>5, <1>6, <1>7, <1>8, <1>9, <1>10

(* The frame of a check: what else it changes. *)
Framed(e) ==
  /\ history' \in [degraded : BOOLEAN, cached : BOOLEAN]
  /\ history'.degraded => history.degraded \/ e
  /\ server' \in {"none", "ready", "down"}
  /\ UNCHANGED <<request, supported, code, cache>>

LEMMA RanStep ==
  ASSUME IInv, NEW k \in Checks, at = k, ShouldRun(k), NEW e \in BOOLEAN,
         Concludes(k, Ran(k, e)), Framed(e)
  PROVE  IInv'
  <1>. DEFINE r == Ran(k, e)
  <1>1. /\ r \in Results /\ r.ran = results.ran \cup {k} /\ r.off = results.off
        /\ r.failed <=> results.failed \/ e
        /\ r.starved <=> results.starved
    BY RanType DEF IInv, TypeOK
  <1>2. request.audit => r.off = {} BY <1>1 DEF IInv, Inv, Forced
  <1>3. Concludes(k, r) OBVIOUS
  <1>. HIDE DEF r
  <1>4. QED BY ConcludesStep, <1>1, <1>2, <1>3 DEF Framed

LEMMA StarvedStep ==
  ASSUME IInv, NEW k \in Checks, at = k, ShouldRun(k),
         Concludes(k, Starved(k, TRUE)), Framed(TRUE)
  PROVE  IInv'
  <1>. DEFINE r == Starved(k, TRUE)
  <1>1. /\ r \in Results /\ r.ran = results.ran \cup {k} /\ r.off = results.off
        /\ r.failed
    BY StarvedType DEF IInv, TypeOK
  <1>2. request.audit => r.off = {} BY <1>1 DEF IInv, Inv, Forced
  <1>3. Concludes(k, r) OBVIOUS
  <1>. HIDE DEF r
  <1>4. QED BY ConcludesStep, <1>1, <1>2, <1>3 DEF Framed

-----------------------------------------------------------------------------
(* The checks, one by one. *)
LEMMA SameFrame ==
  ASSUME IInv, NEW e \in BOOLEAN,
         UNCHANGED <<request, supported, code, cache, history>>,
         server' \in {server, "down"}
  PROVE  Framed(e)
  BY DEF IInv, TypeOK, Framed

LEMMA CompletenessStep == ASSUME IInv, Completeness PROVE IInv'
  <1>. DEFINE k == "completeness"
  <1>1. k \in Checks /\ at = k /\ ShouldRun(k) BY DEF Completeness, Checks
  <1>2. \A e \in BOOLEAN : Framed(e)
    BY SameFrame DEF IInv, Completeness
  <1>3. \/ \E e \in BOOLEAN : Concludes(k, Ran(k, e))
        \/ Concludes(k, Starved(k, TRUE))
    BY DEF Completeness, EmptyIsError
  <1>. HIDE DEF k
  <1>4. QED BY <1>1, <1>2, <1>3, RanStep, StarvedStep

LEMMA CompletenessAgainStep == ASSUME IInv, CompletenessAgain PROVE IInv'
  <1>. DEFINE k == "completeness"
  <1>1. k \in Checks /\ at = k /\ ShouldRun(k) BY DEF CompletenessAgain, Checks
  <1>2. \A e \in BOOLEAN : Framed(e)
    BY SameFrame DEF IInv, CompletenessAgain
  <1>3. \/ \E e \in BOOLEAN : Concludes(k, Ran(k, e))
        \/ Concludes(k, Starved(k, TRUE))
    BY DEF CompletenessAgain, EmptyIsError
  <1>. HIDE DEF k
  <1>4. QED BY <1>1, <1>2, <1>3, RanStep, StarvedStep

LEMMA DeepContainmentStep == ASSUME IInv, DeepContainment PROVE IInv'
  <1>. DEFINE k == "containment"
  <1>1. k \in Checks /\ at = k /\ ShouldRun(k) BY DEF DeepContainment, Enabled, Checks
  <1>2. \A e \in BOOLEAN : Framed(e) BY SameFrame DEF DeepContainment
  <1>3. \E e \in BOOLEAN : Concludes(k, Ran(k, e)) BY DEF DeepContainment
  <1>. HIDE DEF k
  <1>4. QED BY <1>1, <1>2, <1>3, RanStep

(* A degraded analysis is an error: that is what the frame asks for. *)
LEMMA ContainmentStep == ASSUME IInv, Containment PROVE IInv'
  <1>. DEFINE k == "containment"
  <1>1. k \in Checks /\ at = k /\ ShouldRun(k) BY DEF Containment, Enabled, Checks
  <1>2. PICK degraded \in BOOLEAN :
          /\ \/ \E e \in BOOLEAN : Concludes(k, Ran(k, degraded \/ e))
             \/ Concludes(k, Starved(k, TRUE))
          /\ history' = [history EXCEPT !.degraded = degraded]
    <2>1. \A d \in BOOLEAN : /\ (d /\ DegradesWithError) = d
                             /\ (d \/ EmptyIsError) = TRUE
      BY DEF DegradesWithError, EmptyIsError
    <2>2. QED BY <2>1 DEF Containment
  <1>3. ASSUME NEW e \in BOOLEAN PROVE Framed(degraded \/ e)
    <2>2. history \in [degraded : BOOLEAN, cached : BOOLEAN]
      BY DEF IInv, TypeOK
    <2>3. /\ history' \in [degraded : BOOLEAN, cached : BOOLEAN]
          /\ history'.degraded = degraded
      BY <1>2, <2>2
    <2>4. QED BY <2>3 DEF Containment, IInv, TypeOK, Framed
  <1>4. Framed(TRUE) BY <1>3
  <1>5. \A e \in BOOLEAN : (degraded \/ e) \in BOOLEAN OBVIOUS
  <1>. HIDE DEF k
  <1>6. QED BY <1>1, <1>2, <1>3, <1>4, <1>5, RanStep, StarvedStep

LEMMA ImportPathStep == ASSUME IInv, ImportPath PROVE IInv'
  <1>. DEFINE k == "import-path"
  <1>1. k \in Checks /\ at = k /\ ShouldRun(k) BY DEF ImportPath, Checks
  <1>2. \A e \in BOOLEAN : Framed(e) BY SameFrame DEF ImportPath
  <1>3. \E e \in BOOLEAN : Concludes(k, Ran(k, e)) BY DEF ImportPath
  <1>. HIDE DEF k
  <1>4. QED BY <1>1, <1>2, <1>3, RanStep

LEMMA GraphCheckStep == ASSUME IInv, NEW k \in Checks, GraphCheck(k) PROVE IInv'
  <1>1. at = k /\ ShouldRun(k) BY DEF GraphCheck, Enabled
  <1>2. \A e \in BOOLEAN : Framed(e) BY SameFrame DEF GraphCheck
  <1>3. \E e \in BOOLEAN : Concludes(k, Ran(k, e)) BY DEF GraphCheck
  <1>4. QED BY <1>1, <1>2, <1>3, RanStep

(* A check that is off ran; in an audit none is off. *)
LEMMA SwitchedOffStep == ASSUME IInv, NEW k \in Checks, SwitchedOff(k) PROVE IInv'
  <1>. DEFINE r == [Ran(k, FALSE) EXCEPT !.off = @ \cup {k}]
  <1>1. /\ at = k /\ ShouldRun(k) /\ Concludes(k, r) /\ ~request.audit
    BY DEF SwitchedOff, Off
  <1>2. /\ r \in Results /\ r.ran = results.ran \cup {k}
        /\ r.failed <=> results.failed
        /\ r.starved <=> results.starved
    BY DEF Ran, Results, IInv, TypeOK
  <1>3. Framed(FALSE) BY SameFrame DEF SwitchedOff
  <1>. HIDE DEF r
  <1>4. QED BY ConcludesStep, <1>1, <1>2, <1>3 DEF Framed

LEMMA SkipStep == ASSUME IInv, NEW k \in Checks, Skip(k) PROVE IInv'
  <1>. USE DEF IInv, Inv, Skip
  <1>1. /\ at' \in During /\ at' \in Places /\ at' \notin Before /\ at' # "idle"
        /\ Earlier(at') = Earlier(at) \cup {k}
    BY AfterAll
  <1>2. at \in During /\ at # "config" /\ at # "idle" BY DEF During, Checks
  <1>3. TypeOK' BY <1>1 DEF TypeOK
  <1>4. Blank' /\ Listed' BY <1>1 DEF Blank, Listed, Before
  <1>5. Gated' /\ Forced' BY <1>2 DEF Gated, Forced
  <1>6. InOrder'
    <2>1. \A j \in Earlier(at) : ShouldRun(j) => j \in results.ran
      BY <1>2 DEF InOrder
    <2>2. \A j : ShouldRun(j)' <=> ShouldRun(j) BY DEF ShouldRun
    <2>3. QED BY <1>1, <2>1, <2>2 DEF InOrder
  <1>7. Accounted' BY <1>2 DEF Accounted
  <1>8. PassIsWhole' /\ StarvedNeverPasses' /\ DegradedNeverPasses'
    BY <1>1 DEF PassIsWhole, StarvedNeverPasses, DegradedNeverPasses, Passed
  <1>9. QED BY <1>3, <1>4, <1>5, <1>6, <1>7, <1>8

-----------------------------------------------------------------------------
(* The rest of the run. *)
LEMMA InitInv == Init => IInv
  <1>. SUFFICES ASSUME Init PROVE IInv OBVIOUS
  <1>1. /\ at = "idle" /\ request \in Requests /\ results = NoResults
        /\ history = Fresh /\ code = 2 /\ cache = NoEntry
        /\ server = "none" /\ errors = FALSE /\ supported = FALSE
    BY DEF Init
  <1>2. TypeOK
    <2>1. NoResults \in Results BY DEF NoResults, Results
    <2>2. Fresh \in [degraded : BOOLEAN, cached : BOOLEAN]
      BY DEF Fresh
    <2>3. "idle" \in Places BY DEF Places
    <2>4. /\ at \in Places /\ request \in Requests
          /\ cache \in Entry \cup {NoEntry}
      BY <1>1, <2>3
    <2>5. /\ server \in {"none", "ready", "down"}
          /\ errors \in BOOLEAN /\ supported \in BOOLEAN
      BY <1>1, Zenon
    <2>6. /\ results \in Results
          /\ history \in [degraded : BOOLEAN, cached : BOOLEAN]
      BY <1>1, <2>1, <2>2
    <2>7. code \in 0 .. 2 BY <1>1, SMT
    <2>8. QED BY <2>4, <2>5, <2>6, <2>7 DEF TypeOK
  <1>3. Blank /\ Gated /\ Listed /\ Forced /\ InOrder /\ Accounted
    BY <1>1 DEF Blank, Gated, Listed, Forced, InOrder, Accounted, During, Checks,
                NoResults
  <1>4. ~Passed BY <1>1 DEF Passed
  <1>5. PassIsWhole /\ StarvedNeverPasses /\ DegradedNeverPasses
    BY <1>1, <1>4
    DEF PassIsWhole, StarvedNeverPasses, DegradedNeverPasses, Fresh
  <1>6. QED BY <1>2, <1>3, <1>5 DEF IInv, Inv

LEMMA BeginStep == ASSUME IInv, Begin PROVE IInv'
  BY DEF Begin, IInv, Inv, TypeOK, Blank, Gated, Listed, Forced, InOrder, Accounted,
         PassIsWhole, StarvedNeverPasses, DegradedNeverPasses, Passed,
         During, Checks, Places, Results, NoResults, Fresh

LEMMA ForgetStep == ASSUME IInv, Forget PROVE IInv'
  <1>1. /\ at = "idle" /\ cache' = NoEntry
        /\ UNCHANGED <<at, request, server, results, errors, supported, code, history>>
    BY DEF Forget
  <1>2. Passed' <=> Passed BY <1>1 DEF Passed
  <1>3. QED BY <1>1, <1>2
          DEF IInv, Inv, TypeOK, Blank, Gated, Listed, Forced, InOrder, Accounted,
              PassIsWhole, StarvedNeverPasses, DegradedNeverPasses,
              During, Checks

(* A step to exit 2, or between two places before the checks. *)
LEMMA QuietStep ==
  ASSUME IInv,
         \/ at' = "idle" /\ code' = 2
         \/ /\ at' \in Before /\ at \in Before /\ code' = code
            /\ at' # "config"
            /\ at = "config" => AuditGate(request)
            /\ at' = "list" => request.mode = "list",
         server' \in {"none", "ready", "down"},
         UNCHANGED <<request, results, errors, supported, cache, history>>
  PROVE  IInv'
  <1>. USE DEF IInv, Inv
  <1>1. /\ ~Passed' /\ at' \in Places /\ at' \notin During /\ code' \in 0 .. 2
        /\ at' \in Before => at \in Before
    BY DEF Passed, Before, Places, During, Checks, TypeOK
  <1>2. TypeOK' BY <1>1 DEF TypeOK
  <1>3. Blank' BY <1>1 DEF Blank
  <1>4. Gated'
    <2>1. request.audit /\ AuditGate(request) =>
            request.mode = "check" /\ request.selected = Checks
      BY DEF AuditGate, TypeOK, Requests
    <2>2. QED BY <2>1 DEF Gated, Before
  <1>5. Listed' BY DEF Listed
  <1>6. Forced' BY DEF Forced
  <1>7. InOrder' /\ Accounted' BY <1>1 DEF InOrder, Accounted
  <1>8. PassIsWhole' /\ StarvedNeverPasses'
    BY <1>1 DEF PassIsWhole, StarvedNeverPasses
  <1>9. DegradedNeverPasses'
    BY <1>1 DEF DegradedNeverPasses
  <1>10. QED BY <1>2, <1>3, <1>4, <1>5, <1>6, <1>7, <1>8, <1>9

LEMMA LoadConfigStep == ASSUME IInv, LoadConfig PROVE IInv'
  BY QuietStep DEF LoadConfig, Exit, IInv, TypeOK, Before

LEMMA FrontendStep == ASSUME IInv, Frontend PROVE IInv'
  BY QuietStep DEF Frontend, Exit, IInv, TypeOK, Before

LEMMA InitServerStep == ASSUME IInv, InitServer PROVE IInv'
  BY QuietStep DEF InitServer, Exit, IInv, TypeOK, Before

LEMMA RaiseStep == ASSUME IInv, Raise PROVE IInv'
  BY QuietStep DEF Raise, Exit, IInv, TypeOK

(* A cached verdict passes when it was one that did, and nothing has been
   entered to this run's account. *)
LEMMA LookupStep == ASSUME IInv, Lookup PROVE IInv'
  <1>. USE DEF IInv, Inv
  <1>1. CASE ~Usable BY <1>1, QuietStep DEF Lookup, Before, TypeOK
  <1>2. CASE Usable
    <2>1. /\ at = "lookup" /\ at' = "idle" /\ code' = cache.code
          /\ history' = [history EXCEPT !.cached = TRUE]
          /\ UNCHANGED <<request, server, results, errors, supported, cache>>
      BY <1>2 DEF Lookup, Exit
    <2>2. results = NoResults /\ history = Fresh BY <2>1 DEF Blank, Before
    <2>3. cache \in Entry /\ cache # NoEntry /\ cache.deep = request.deep
      BY <1>2 DEF Usable, TypeOK
    <2>4. /\ history'.cached /\ ~history'.degraded
          /\ history' \in [degraded : BOOLEAN, cached : BOOLEAN]
      BY <2>1, <2>2 DEF Fresh
    <2>5. TypeOK' BY <2>1, <2>3, <2>4 DEF TypeOK, Places, Entry
    <2>6. Blank' /\ Gated' /\ Listed' /\ Forced' /\ InOrder' /\ Accounted'
      BY <2>1 DEF Blank, Gated, Listed, Forced, InOrder, Accounted, Before, During, Checks
    <2>7. StarvedNeverPasses' BY <2>1, <2>2 DEF StarvedNeverPasses, NoResults
    <2>8. PassIsWhole' BY <2>1, <2>4, <2>7 DEF PassIsWhole
    <2>9. DegradedNeverPasses' BY <2>1, <2>4 DEF DegradedNeverPasses
    <2>10. QED BY <2>5, <2>6, <2>7, <2>8, <2>9
  <1>3. QED BY <1>1, <1>2

LEMMA MakeReportStep == ASSUME IInv, MakeReport PROVE IInv'
  <1>. USE DEF IInv, Inv
  <1>1. /\ at = "audit" /\ at' = "completeness"
        /\ UNCHANGED <<request, server, results, code, cache, history>>
        /\ errors' \in BOOLEAN /\ supported' \in BOOLEAN
    BY DEF MakeReport, TypeOK
  <1>2. results = NoResults /\ history = Fresh BY <1>1 DEF Blank, Before
  <1>3. TypeOK' BY <1>1 DEF TypeOK, Places, Checks
  <1>4. Blank' /\ Gated' /\ Listed' /\ Forced'
    BY <1>1 DEF Blank, Gated, Listed, Forced, Before
  <1>5. InOrder' BY <1>1 DEF InOrder, Earlier
  <1>6. Accounted' BY <1>1, <1>2 DEF Accounted, NoResults, Fresh
  <1>7. PassIsWhole' /\ StarvedNeverPasses' /\ DegradedNeverPasses'
    BY <1>1 DEF PassIsWhole, StarvedNeverPasses, DegradedNeverPasses, Passed
  <1>8. QED BY <1>3, <1>4, <1>5, <1>6, <1>7

LEMMA DiagnosticsStep == ASSUME IInv, Diagnostics PROVE IInv'
  <1>. USE DEF IInv, Inv
  <1>1. /\ at = "diagnostics" /\ at' = "finish"
        /\ errors' \in BOOLEAN /\ (errors => errors')
        /\ UNCHANGED <<request, server, results, supported, code, cache, history>>
    BY DEF Diagnostics, TypeOK
  <1>2. TypeOK' BY <1>1 DEF TypeOK, Places
  <1>3. Blank' /\ Gated' /\ Listed' /\ Forced'
    BY <1>1 DEF Blank, Gated, Listed, Forced, Before
  <1>4. InOrder'
    <2>1. at \in During /\ Earlier(at') = Earlier(at) BY <1>1 DEF During, Earlier
    <2>2. \A j : ShouldRun(j)' <=> ShouldRun(j) BY <1>1 DEF ShouldRun
    <2>3. QED BY <1>1, <2>1, <2>2 DEF InOrder
  <1>5. Accounted' BY <1>1 DEF Accounted, During
  <1>6. PassIsWhole' /\ StarvedNeverPasses' /\ DegradedNeverPasses'
    BY <1>1 DEF PassIsWhole, StarvedNeverPasses, DegradedNeverPasses, Passed
  <1>7. QED BY <1>2, <1>3, <1>4, <1>5, <1>6

(* The verdict: exit 0 means that no error was counted and, in an audit, that
   the report supports the project, so that every check was to be run. *)
LEMMA FinishStep == ASSUME IInv, Finish PROVE IInv'
  <1>. USE DEF IInv, Inv
  <1>1. PICK still \in BOOLEAN, saved \in BOOLEAN, failed \in BOOLEAN, c \in {0, 1} :
          /\ failed <=> errors \/ (request.audit /\ ~(still /\ supported))
          /\ c = IF failed THEN 1 ELSE 0
          /\ errors' = failed /\ at' = "idle" /\ code' = c
          /\ cache' = IF Saves /\ saved
                      THEN [deep |-> request.deep, code |-> c,
                            degraded |-> history.degraded, whole |-> Whole]
                      ELSE cache
    BY DEF Finish, Exit, TypeOK
  <1>2. /\ at = "finish" /\ at \in During /\ server' \in {"none", "ready", "down"}
        /\ UNCHANGED <<request, results, supported, history>>
    BY DEF Finish, TypeOK, During
  <1>3. TypeOK'
    <2>1. cache' \in Entry \cup {NoEntry}
      BY <1>1 DEF TypeOK, Entry, Requests, Request, Results, Whole
    <2>2. QED BY <2>1, <1>1, <1>2 DEF TypeOK, Places
  <1>4. Blank' /\ Gated' /\ Listed' /\ Forced' /\ InOrder' /\ Accounted'
    BY <1>1, <1>2
    DEF Blank, Gated, Listed, Forced, InOrder, Accounted, Before, During, Checks
  <1>5. c = 0 => /\ ~errors /\ ~results.failed /\ ~results.starved /\ ~history.degraded
                 /\ request.audit => supported
    BY <1>1, <1>2 DEF Accounted
  <1>6. StarvedNeverPasses' BY <1>1, <1>2, <1>5 DEF StarvedNeverPasses, Passed
  <1>7. PassIsWhole'
    <2>1. SUFFICES ASSUME c = 0
                   PROVE  /\ request.selected \subseteq results.ran
                          /\ ~results.failed
                          /\ request.audit => results.ran = Checks /\ results.off = {}
                          /\ Saves => Whole
      <3>1. (cache' # NoEntry /\ cache'.code = 0) => cache'.whole
        BY <1>1, <2>1 DEF PassIsWhole
      <3>2. QED BY <1>1, <1>2, <1>6, <2>1, <3>1 DEF PassIsWhole, Passed
    <2>2. Earlier(at) = Checks BY <1>2 DEF Earlier
    <2>3. request.selected \subseteq Checks /\ results.ran \subseteq Checks
      BY SelectionsAssumption DEF TypeOK, Requests, Request, Results
    <2>4. request.selected \subseteq results.ran
      BY <1>2, <1>5, <2>1, <2>2, <2>3 DEF InOrder, ShouldRun
    <2>5. request.audit => request.selected = Checks BY <1>2 DEF Gated
    <2>6. Saves => Whole
      <3>1. Saves => request.selected = Checks BY DEF Saves, TypeOK, Requests
      <3>2. QED BY <1>5, <2>1, <2>3, <2>4, <3>1 DEF Whole
    <2>7. QED BY <1>5, <2>1, <2>3, <2>4, <2>5, <2>6 DEF Forced
  <1>8. DegradedNeverPasses'
    <2>1. Passed' => ~history'.degraded BY <1>1, <1>2, <1>5 DEF Passed
    <2>2. cache' # NoEntry => ~(cache'.deep /\ cache'.degraded /\ cache'.code = 0)
      BY <1>1, <1>5 DEF DegradedNeverPasses
    <2>3. QED BY <2>1, <2>2 DEF DegradedNeverPasses
  <1>9. QED BY <1>3, <1>4, <1>6, <1>7, <1>8

LEMMA ListStep == ASSUME IInv, List PROVE IInv'
  <1>. USE DEF IInv, Inv
  <1>1. /\ at = "list" /\ at' = "idle" /\ code' \in {0, 1} /\ request.mode = "list"
        /\ UNCHANGED <<request, server, results, errors, supported, cache, history>>
    BY DEF List, Exit, ListCode, Listed
  <1>2. ~Passed' BY <1>1 DEF Passed
  <1>3. TypeOK' BY <1>1 DEF TypeOK, Places
  <1>4. Blank' /\ Gated' /\ Listed' /\ Forced' /\ InOrder' /\ Accounted'
    BY <1>1 DEF Blank, Gated, Listed, Forced, InOrder, Accounted, Before, During, Checks
  <1>5. PassIsWhole' /\ StarvedNeverPasses' BY <1>1, <1>2 DEF PassIsWhole, StarvedNeverPasses
  <1>6. DegradedNeverPasses'
    BY <1>1, <1>2 DEF DegradedNeverPasses
  <1>7. QED BY <1>3, <1>4, <1>5, <1>6

LEMMA StutterStep == ASSUME IInv, UNCHANGED vars PROVE IInv'
  <1>1. Passed' <=> Passed BY DEF Passed, vars
  <1>2. \A j : ShouldRun(j)' <=> ShouldRun(j) BY DEF ShouldRun, vars
  <1>3. QED BY <1>1, <1>2
          DEF vars, IInv, Inv, TypeOK, Blank, Gated, Listed, Forced, InOrder, Accounted,
              PassIsWhole, StarvedNeverPasses, DegradedNeverPasses

-----------------------------------------------------------------------------
LEMMA Inductive == IInv /\ [Next]_vars => IInv'
  <1>1. SUFFICES ASSUME IInv, [Next]_vars PROVE IInv' OBVIOUS
  <1>2. CASE UNCHANGED vars BY <1>1, <1>2, StutterStep
  <1>3. CASE Forget \/ Begin \/ LoadConfig \/ Lookup \/ Frontend \/ InitServer
    BY <1>1, <1>3, ForgetStep, BeginStep, LoadConfigStep, LookupStep, FrontendStep,
       InitServerStep
  <1>4. CASE MakeReport \/ Diagnostics \/ Finish \/ List \/ Raise
    BY <1>1, <1>4, MakeReportStep, DiagnosticsStep, FinishStep, ListStep, RaiseStep
  <1>5. CASE Check
    BY <1>1, <1>5, CompletenessStep, CompletenessAgainStep, DeepContainmentStep,
       ContainmentStep, ImportPathStep, SkipStep, SwitchedOffStep, GraphCheckStep
    DEF Check
  <1>6. QED BY <1>1, <1>2, <1>3, <1>4, <1>5 DEF Next

(* The invariant holds in every run. *)
THEOREM Invariant == Spec => []IInv
  BY InitInv, Inductive, PTL DEF Spec

(* The invocation and the cache have their types, whatever is asked for. *)
THEOREM TypeCorrect == Spec => []TypeOK
  <1>1. IInv => TypeOK BY DEF IInv
  <1>2. QED BY <1>1, Invariant, PTL

(* A run that passes ran every check it was asked for, and an audit every
   check there is: the gate in loadConfig, the forced modes and the order of
   the checks in run together see to it. *)
THEOREM PassesAreWhole == Spec => []PassIsWhole
  <1>1. IInv => PassIsWhole BY DEF IInv, Inv
  <1>2. QED BY <1>1, Invariant, PTL

(* The error of a degraded deep containment analysis reaches the verdict and
   every verdict that is ever served from the cache. *)
THEOREM DegradedRunsFail == Spec => []DegradedNeverPasses
  <1>1. IInv => DegradedNeverPasses BY DEF IInv, Inv
  <1>2. QED BY <1>1, Invariant, PTL
=============================================================================
