------------------------------ MODULE CheckRun ------------------------------
(***************************************************************************)
(* One topo-check invocation after another on a project: the configuration *)
(* gate, the incremental cache, the frontend, the language server of a     *)
(* --deep run, the six checks with their degradations, the audit verdict   *)
(* and the exit code (tools/topo-check/CheckRunner.cpp, loadConfig, run,   *)
(* the run* methods and listUnsafePoints; main.cpp).                       *)
(*                                                                         *)
(* The language provider is external: each call of it may come out in any  *)
(* way its interface allows; whether a check went by a language server or  *)
(* by regular expressions makes no difference to its outcomes.  How many   *)
(* jobs map a check over the files is left to FilePool; an exception in a  *)
(* pool of more than one is swallowed there: missing facts.                *)
(***************************************************************************)
EXTENDS Integers

CONSTANTS
  Modes,      (* what is asked for: "check" or "list", --list-unsafe       *)
  Selections, (* the selections --check and --filter may come to           *)
  Offs,       (* the sets of checks Topo.toml may switch off               *)
  NoEntry     (* there is no usable cache                                  *)

Checks == {"completeness", "containment", "import-path", "purity",
           "visibility", "stage-isolation"}
Disableable == Checks \ {"completeness", "import-path"}

ASSUME ModesAssumption == Modes \subseteq {"check", "list"}
ASSUME SelectionsAssumption == Selections \subseteq SUBSET Checks
ASSUME OffsAssumption == Offs \subseteq SUBSET Disableable

VARIABLES
  at,       (* where the invocation is                                     *)
  request,  (* its resolved configuration                                  *)
  server,   (* the language server                                         *)
  results,  (* what the checks have come to                                *)
  errors,   (* anyErrors                                                   *)
  supported, (* does the audit report support the project?               *)
  code,     (* the exit code                                               *)
  cache,    (* the cached verdict that still matches the project's files   *)
  history   (* history: the facts of the run that the properties speak of  *)

vars == <<at, request, server, results, errors, supported, code, cache, history>>

-----------------------------------------------------------------------------
(* `narrow`: --check or --filter was given, even if everything matches it. *)
Request == [mode : Modes, audit : BOOLEAN, deep : BOOLEAN, narrow : BOOLEAN,
            selected : Selections \cup {Checks}, off : Offs]
Requests == {q \in Request : ~q.narrow => q.selected = Checks}

(* What the checks have come to: those in the list of results, whether one of
   them had errors, those that only said they were off, and whether one of them
   had source files and nothing extracted from them. *)
Results == [ran : SUBSET Checks, failed : BOOLEAN, off : SUBSET Checks,
            starved : BOOLEAN]
NoResults == [ran |-> {}, failed |-> FALSE, off |-> {}, starved |-> FALSE]

Places == {"idle", "config", "lookup", "frontend", "server", "audit",
           "diagnostics", "finish", "list"} \cup Checks

(* The checks run one after the other. *)
After(k) == CASE k = "completeness" -> "containment"
              [] k = "containment"  -> "import-path"
              [] k = "import-path"  -> "purity"
              [] k = "purity"       -> "visibility"
              [] k = "visibility"   -> "stage-isolation"
              [] k = "stage-isolation" -> "diagnostics"

(* What saveCheckCache stores (deep, code) and, for the properties, what the
   run was: degraded, and whole. *)
Entry == [deep : BOOLEAN, code : {0, 1}, degraded : BOOLEAN, whole : BOOLEAN]

Fresh == [degraded |-> FALSE, cached |-> FALSE]

(* An audit requires every check, none of them off, and no deep session,
   whether it is the command line or Topo.toml that asks for it. *)
LateGate(q) == q.audit => q.off = {} /\ ~q.deep
AuditGate(q) == q.audit => q.mode = "check" /\ ~q.narrow /\ q.off = {} /\ ~q.deep

(* An audit forces every check on. *)
Off(q) == IF q.audit THEN {} ELSE q.off

(* Sources that yield nothing at all are an extraction failure ... *)
EmptyIsFine == FALSE
EmptyIsError == TRUE

(* ... and so is a language server that cannot analyse. *)
DegradesWithWarning == FALSE
DegradesWithError == TRUE

(* Which checks run. *)
ShouldRun(k) == k \in request.selected /\ (request.audit => supported)

(* Which runs save their verdict. *)
AnyButAudits == ~request.audit
Saves == ~request.audit /\ ~request.narrow

(* What main makes of the number of unsafe points, which is below zero after a
   failure. *)
Unclamped(n) == n
ListCode(n) == IF n >= 0 THEN 0 ELSE 1

Init == /\ at = "idle"
        /\ request \in {q \in Requests : ~q.audit /\ ~q.narrow /\ ~q.deep}
        /\ server = "none"
        /\ results = NoResults
        /\ errors = FALSE
        /\ supported = FALSE
        /\ code = 2
        /\ cache = NoEntry
        /\ history = Fresh

Exit(c) == at' = "idle" /\ code' = c

(* A file of the project, or the cache itself, is changed. *)
Forget == /\ at = "idle"
          /\ cache # NoEntry
          /\ cache' = NoEntry
          /\ UNCHANGED <<at, request, server, results, errors, supported, code, history>>

-----------------------------------------------------------------------------
Begin == /\ at = "idle"
         /\ request' \in Requests
         /\ at' = "config"
         /\ server' = "none"
         /\ results' = NoResults
         /\ errors' = FALSE
         /\ supported' = FALSE
         /\ history' = Fresh
         /\ UNCHANGED <<code, cache>>

(* loadConfig, which fails for many a reason besides. *)
LoadConfig ==
  /\ at = "config"
  /\ \/ /\ AuditGate(request)
        /\ at' = IF request.mode = "list" THEN "list" ELSE "lookup"
        /\ UNCHANGED code
     \/ Exit(2)
  /\ UNCHANGED <<request, server, results, errors, supported, cache, history>>

(* tryCacheHit: the entry is of this depth and of the files as they are. *)
Usable == /\ ~request.audit /\ ~request.narrow
          /\ cache # NoEntry /\ cache.deep = request.deep

Lookup ==
  /\ at = "lookup"
  /\ IF Usable THEN /\ Exit(cache.code)
                    /\ history' = [history EXCEPT !.cached = TRUE]
               ELSE /\ at' = "frontend"
                    /\ UNCHANGED <<code, history>>
  /\ UNCHANGED <<request, server, results, errors, supported, cache>>

(* runFrontend: the .topo files parse and analyse, or the run is over. *)
Frontend ==
  /\ at = "frontend"
  /\ \/ /\ at' = "server"
        /\ UNCHANGED code
     \/ Exit(2)
  /\ UNCHANGED <<request, server, results, errors, supported, cache, history>>

(* A --deep run needs the language server, and aborts without it. *)
InitServer ==
  /\ at = "server"
  /\ \/ /\ request.deep
        /\ server' = "ready"
        /\ at' = "audit"
        /\ UNCHANGED code
     \/ /\ request.deep
        /\ Exit(2)
        /\ UNCHANGED server
     \/ /\ ~request.deep
        /\ at' = "audit"
        /\ UNCHANGED <<code, server>>
  /\ UNCHANGED <<request, results, errors, supported, cache, history>>

(* The audit report is made and the trust store read for the first time. *)
MakeReport ==
  /\ at = "audit"
  /\ IF request.audit
     THEN \E trusted \in BOOLEAN : errors' = ~trusted /\ supported' \in BOOLEAN
     ELSE UNCHANGED <<supported, errors>>
  /\ at' = "completeness"
  /\ UNCHANGED <<request, server, results, code, cache, history>>

-----------------------------------------------------------------------------
(* The checks.                                                             *)

Skip(k) == /\ at = k
           /\ ~ShouldRun(k)
           /\ at' = After(k)
           /\ UNCHANGED <<request, server, results, errors, supported, code, cache,
                          history>>

(* Check k has come to an end, with an error or without. *)
Ran(k, e) == [results EXCEPT !.ran = @ \cup {k}, !.failed = @ \/ e]
Starved(k, e) == [Ran(k, e) EXCEPT !.starved = TRUE]

Concludes(k, r) == /\ results' = r
                   /\ errors' = (errors \/ r.failed)
                   /\ at' = After(k)

(* No source file is a warning; no extractor is an error. *)
Completeness ==
  /\ at = "completeness"
  /\ ShouldRun("completeness")
  /\ \/ \E e \in BOOLEAN : Concludes("completeness", Ran("completeness", e))
     \/ /\ server # "ready"
        /\ Concludes("completeness", Starved("completeness", EmptyIsError))
  /\ UNCHANGED <<request, server, supported, code, cache, history>>

(* A language server that yields no symbol is shut down and the files are
   gone through again, by regular expressions. *)
CompletenessAgain ==
  /\ at = "completeness"
  /\ ShouldRun("completeness")
  /\ server = "ready"
  /\ server' = "down"
  /\ \/ \E e \in BOOLEAN : Concludes("completeness", Ran("completeness", e))
     \/ Concludes("completeness", Starved("completeness", EmptyIsError))
  /\ UNCHANGED <<request, supported, code, cache, history>>

(* Off is a note. *)
SwitchedOff(k) ==
  /\ at = k
  /\ k \in Disableable
  /\ ShouldRun(k)
  /\ k \in Off(request)
  /\ Concludes(k, [Ran(k, FALSE) EXCEPT !.off = @ \cup {k}])
  /\ UNCHANGED <<request, server, supported, code, cache, history>>

Enabled(k) == at = k /\ ShouldRun(k) /\ k \notin Off(request)

(* The deep analysis has a result of its own. *)
DeepContainment ==
  /\ Enabled("containment")
  /\ request.deep
  /\ \E e \in BOOLEAN : Concludes("containment", Ran("containment", e))
  /\ UNCHANGED <<request, server, supported, code, cache, history>>

(* Otherwise the L1 pass follows, either because the run is not deep or the
   language has no deep analysis, or after a result without errors and with
   nothing but remarks on the infrastructure, which is an error then. *)
Containment ==
  /\ Enabled("containment")
  /\ \E degraded \in BOOLEAN :
       /\ degraded => request.deep
       /\ LET failed == degraded /\ DegradesWithError IN
            \/ \E e \in BOOLEAN : Concludes("containment", Ran("containment", failed \/ e))
            \/ Concludes("containment", Starved("containment", failed \/ EmptyIsError))
       /\ history' = [history EXCEPT !.degraded = degraded]
  /\ UNCHANGED <<request, server, supported, code, cache>>

ImportPath ==
  /\ at = "import-path"
  /\ ShouldRun("import-path")
  /\ \E e \in BOOLEAN : Concludes("import-path", Ran("import-path", e))
  /\ UNCHANGED <<request, server, supported, code, cache, history>>

(* The checks on the call graph take what is extracted as it is. *)
GraphCheck(k) ==
  /\ k \in {"purity", "visibility", "stage-isolation"}
  /\ Enabled(k)
  /\ \E e \in BOOLEAN : Concludes(k, Ran(k, e))
  /\ UNCHANGED <<request, server, supported, code, cache, history>>

Diagnostics ==
  /\ at = "diagnostics"
  /\ \E e \in BOOLEAN : errors' = (errors \/ e)
  /\ at' = "finish"
  /\ UNCHANGED <<request, server, results, supported, code, cache, history>>

(* The checks have all run and found no error. *)
Whole == results.ran = Checks /\ ~results.failed /\ ~results.starved

(* An audit looks at its inputs and at the trust store once more and takes
   the checks into account; then the server is stopped and the verdict is
   cached, if it is one of the default configuration. *)
Finish ==
  /\ at = "finish"
  /\ \E still, saved \in BOOLEAN :
       LET failed == errors \/ (request.audit /\ ~(still /\ supported))
           c == IF failed THEN 1 ELSE 0
       IN /\ errors' = failed
          /\ Exit(c)
          /\ cache' = IF Saves /\ saved
                      THEN [deep |-> request.deep, code |-> c,
                            degraded |-> history.degraded, whole |-> Whole]
                      ELSE cache
  /\ server' = IF server = "ready" THEN "down" ELSE server
  /\ UNCHANGED <<request, results, supported, history>>

(* listUnsafePoints: the extraction may fail, and so may the frontend; the
   number of unsafe points makes no difference. *)
List ==
  /\ at = "list"
  /\ \E n \in {-1, 0, 1} : Exit(ListCode(n))
  /\ UNCHANGED <<request, server, results, errors, supported, cache, history>>

(* Whatever raises ends in main's handler, short of a save. *)
Raise ==
  /\ at \notin {"idle", "config"}
  /\ Exit(2)
  /\ UNCHANGED <<request, server, results, errors, supported, cache, history>>

-----------------------------------------------------------------------------
Check == \/ Completeness \/ CompletenessAgain \/ DeepContainment \/ Containment
         \/ ImportPath
         \/ \E k \in Checks : Skip(k) \/ SwitchedOff(k) \/ GraphCheck(k)

Next == \/ Forget \/ Begin \/ LoadConfig \/ Lookup \/ Frontend \/ InitServer
        \/ MakeReport \/ Check \/ Diagnostics \/ Finish \/ List \/ Raise

Spec == Init /\ [][Next]_vars

-----------------------------------------------------------------------------
Passed == at = "idle" /\ code = 0 /\ request.mode = "check"

(* Type correctness of the invocation and the cache. *)
TypeOK ==
  /\ at \in Places
  /\ request \in Requests
  /\ server \in {"none", "ready", "down"}
  /\ results \in Results
  /\ errors \in BOOLEAN
  /\ supported \in BOOLEAN
  /\ code \in 0 .. 2
  /\ cache \in Entry \cup {NoEntry}
  /\ history \in [degraded : BOOLEAN, cached : BOOLEAN]

(* A run in which the symbols or the imports, calls and symbols of the source
   files could not be extracted does not pass. *)
StarvedNeverPasses ==
  Passed => ~results.starved

(* A run that passes ran every check it was asked for to the end and none of
   them had an error or was starved; if it was an audit, that is every check
   there is and none of them was off, wherever the audit and the switch came
   from.  What a run without a selection may be answered with from the cache is
   the pass of a run of all checks. *)
PassIsWhole ==
  /\ StarvedNeverPasses
  /\ cache # NoEntry /\ cache.code = 0 => cache.whole
  /\ Passed /\ ~history.cached =>
       /\ request.selected \subseteq results.ran
       /\ ~results.failed
       /\ request.audit => results.ran = Checks /\ results.off = {}

(* A deep run whose server could not analyse containment does not pass, and
   neither does a later one that is answered from the cache. *)
DegradedNeverPasses ==
  /\ Passed => ~history.degraded
  /\ cache # NoEntry => ~(cache.deep /\ cache.degraded /\ cache.code = 0)
=============================================================================
