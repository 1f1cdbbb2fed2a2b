----------------------------- MODULE CheckCache -----------------------------
(***************************************************************************)
(* The incremental verdict cache of topo-check: `.topo-check-cache` in the *)
(* project directory (tools/topo-check/CheckRunner.cpp, tryCacheHit,       *)
(* saveCheckCache and the parts of run that call them).  Processes start   *)
(* topo-check on the same project at any time, may die at any step and may *)
(* overlap; an editor changes the project's files.                         *)
(*                                                                         *)
(* A verdict is not computed here: it is represented by what it was        *)
(* reached from (the content read for each file, the depth, the kind of    *)
(* run), so a cached verdict is right exactly when that is what the        *)
(* present request would be answered from.  A file's hash is its content   *)
(* (collisions of the 64-bit hash are left out).                           *)
(***************************************************************************)
EXTENDS Naturals

CONSTANTS
  Procs,         (* the concurrent invocations of topo-check              *)
  Files,         (* Topo.toml, the .topo files and the host sources       *)
  HeadFiles,     (* the files whose hashes are in the cache's first block *)
  MaxVersion,    (* bound on the contents of a file: 1 .. MaxVersion      *)
  Kinds,         (* the kinds of runs that are started                    *)
  Hole,          (* a block nobody has written since the last truncation  *)
  BlankSeam,     (* does the border of the blocks fall on white space?    *)
  EditsDuringRun (* may files change while a check is running?            *)

ASSUME FilesAssumption == HeadFiles \subseteq Files
ASSUME VersionAssumption == MaxVersion \in Nat \ {0}

(* What a run is started as.  "model" is a run topo-build drives with
   --build-model; "narrow" has --check or --filter. *)
AllKinds == {"plain", "model", "narrow", "java", "audit"}

ASSUME KindsAssumption == Kinds \subseteq AllKinds
ASSUME SwitchesAssumption == BlankSeam \in BOOLEAN /\ EditsDuringRun \in BOOLEAN

VARIABLES
  tree,    (* the content of each file, Absent when it does not exist      *)
  disk,    (* the blocks of .topo-check-cache                              *)
  proc,    (* the running invocations                                      *)
  served   (* history: the cached verdict that was served last, with the
              request it answered and the tree at that moment; forgotten
              when a file changes or an invocation starts                 *)

vars == <<tree, disk, proc, served>>

-----------------------------------------------------------------------------
Absent == 0
Content == Absent .. MaxVersion
Unread == MaxVersion + 1

Request == [kind : AllKinds, deep : BOOLEAN]

(* What a verdict was reached from. *)
Verdict == [content : [Files -> Content], request : Request]

(* What saveCheckCache writes: the mode, the hashes it takes at that moment,
   and the verdict the run reached before. *)
Entry == [deep : BOOLEAN, hashes : [Files -> Content], result : Verdict]

Places == {"idle", "lookup", "analyse", "hash", "open", "head", "tail"}

NoFiles == [f \in Files |-> Unread]
NoHashes == [f \in Files |-> Absent]
Idle == [at |-> "idle", request |-> [kind |-> "plain", deep |-> FALSE],
         seen |-> NoFiles, hashes |-> NoHashes]

Running(p) == proc[p].at # "idle"

-----------------------------------------------------------------------------
(* Reading the cache back.                                                 *)

(* The file parses, to an entry that can match, when both blocks are there.
   Two writers' texts over the same files differ in `true` and `false` alone:
   the later ones of a mixture of both have moved by one character, which is
   then there twice or not at all.  Within a path, a hash or a bracket that is
   the end of the entry; white space may come and go.  (Texts over different
   files are taken to fit, which is more than they do.) *)
Parses ==
  /\ disk.head # Hole /\ disk.tail # Hole
  /\ BlankSeam \/ disk.head.deep = disk.tail.deep

CachedHash(f) == IF f \in HeadFiles THEN disk.head.hashes[f]
                                    ELSE disk.tail.hashes[f]

(* Every discovered file has its cached hash and no cached file is missing. *)
CountOnly == \A f \in Files : CachedHash(f) = Absent <=> tree[f] = Absent
HashesMatch == \A f \in Files : CachedHash(f) = tree[f]

(* "deep" keeps L1 and L2 verdicts apart. *)
ModeIgnored(deep) == TRUE
ModeMatches(deep) == disk.head.deep = deep

(* tryCacheHit's early returns. *)
LooksUp(kind) == kind \notin {"audit", "model", "java", "narrow"}

(* saveCheckCache's early returns, and the one of run() for audits. *)
SavesAll(kind) == TRUE
Saves(kind) == kind \notin {"java", "narrow", "audit"}

Matches(request) == Parses /\ ModeMatches(request.deep) /\ HashesMatch

-----------------------------------------------------------------------------
Init == /\ tree \in [Files -> 1 .. MaxVersion]
        /\ disk = [head |-> Hole, tail |-> Hole]
        /\ proc = [p \in Procs |-> Idle]
        /\ served = {}

(* The developer edits, creates or deletes a file. *)
Edit(f) ==
  /\ EditsDuringRun \/ \A p \in Procs : ~Running(p)
  /\ \E c \in Content \ {tree[f]} : tree' = [tree EXCEPT ![f] = c]
  /\ served' = {}
  /\ UNCHANGED <<disk, proc>>

(* topo-check starts and resolves its configuration. *)
Launch(p) ==
  /\ ~Running(p)
  /\ \E k \in Kinds, d \in BOOLEAN :
       proc' = [proc EXCEPT ![p] = [Idle EXCEPT
                  !.at = "lookup", !.request = [kind |-> k, deep |-> d]]]
  /\ served' = {}
  /\ UNCHANGED <<tree, disk>>

(* run() answers from the cache ... *)
Hit(p) ==
  /\ proc[p].at = "lookup"
  /\ LooksUp(proc[p].request.kind) /\ Matches(proc[p].request)
  /\ served' = {[verdict |-> disk.tail.result, request |-> proc[p].request,
                 tree |-> tree]}
  /\ proc' = [proc EXCEPT ![p] = Idle]
  /\ UNCHANGED <<tree, disk>>

(* ... or goes on to the analysis. *)
Miss(p) ==
  /\ proc[p].at = "lookup"
  /\ ~(LooksUp(proc[p].request.kind) /\ Matches(proc[p].request))
  /\ proc' = [proc EXCEPT ![p].at = "analyse"]
  /\ UNCHANGED <<tree, disk, served>>

(* The frontend and the checks read the files one after the other. *)
Analyse(p, f) ==
  /\ proc[p].at = "analyse"
  /\ proc[p].seen[f] = Unread
  /\ proc' = [proc EXCEPT ![p].seen[f] = tree[f]]
  /\ UNCHANGED <<tree, disk, served>>

(* A frontend error or, with --deep, a missing language server ends the run
   with exit 2 before anything is saved. *)
Abandon(p) ==
  /\ proc[p].at = "analyse"
  /\ proc' = [proc EXCEPT ![p] = Idle]
  /\ UNCHANGED <<tree, disk, served>>

(* The verdict is reached, from every file, and reported. *)
ReadSome(p) == \E f \in Files : proc[p].seen[f] # Unread
ReadAll(p) == \A f \in Files : proc[p].seen[f] # Unread

Conclude(p) ==
  /\ proc[p].at = "analyse"
  /\ ReadAll(p)
  /\ proc' = [proc EXCEPT ![p] = IF Saves(@.request.kind)
                                 THEN [@ EXCEPT !.at = "hash"] ELSE Idle]
  /\ UNCHANGED <<tree, disk, served>>

(* saveCheckCache discovers and hashes the files again ... *)
Hash(p) ==
  /\ proc[p].at = "hash"
  /\ proc' = [proc EXCEPT ![p].at = "open", ![p].hashes = tree]
  /\ UNCHANGED <<tree, disk, served>>

(* ... truncates the file, or gives up silently when it cannot be opened ... *)
Open(p) ==
  /\ proc[p].at = "open"
  /\ \/ /\ disk' = [head |-> Hole, tail |-> Hole]
        /\ proc' = [proc EXCEPT ![p].at = "head"]
     \/ /\ proc' = [proc EXCEPT ![p] = Idle]
        /\ UNCHANGED disk
  /\ UNCHANGED <<tree, served>>

(* ... and writes its text, block by block, each at its own offset. *)
EntryOf(p) == [deep |-> proc[p].request.deep, hashes |-> proc[p].hashes,
               result |-> [content |-> proc[p].seen, request |-> proc[p].request]]

WriteHead(p) ==
  /\ proc[p].at = "head"
  /\ disk' = [disk EXCEPT !.head = EntryOf(p)]
  /\ proc' = [proc EXCEPT ![p].at = "tail"]
  /\ UNCHANGED <<tree, served>>

WriteTail(p) ==
  /\ proc[p].at = "tail"
  /\ disk' = [disk EXCEPT !.tail = EntryOf(p)]
  /\ proc' = [proc EXCEPT ![p] = Idle]
  /\ UNCHANGED <<tree, served>>

(* The process is killed; what it wrote stays. *)
Crash(p) ==
  /\ Running(p)
  /\ proc' = [proc EXCEPT ![p] = Idle]
  /\ UNCHANGED <<tree, disk, served>>

Check(p) == \/ Launch(p) \/ Hit(p) \/ Miss(p)
            \/ \E f \in Files : Analyse(p, f)
            \/ Abandon(p) \/ Conclude(p)
            \/ Hash(p) \/ Open(p) \/ WriteHead(p) \/ WriteTail(p)
            \/ Crash(p)

Next == \/ \E f \in Files : Edit(f)
        \/ \E p \in Procs : Check(p)

Spec == Init /\ [][Next]_vars

-----------------------------------------------------------------------------
(* Type correctness: the tree, the two blocks of the cache file, the running
   invocations and the last served verdict. *)
TypeOK ==
  /\ tree \in [Files -> Content]
  /\ disk \in [head : Entry \cup {Hole}, tail : Entry \cup {Hole}]
  /\ proc \in [Procs -> [at : Places, request : Request,
                         seen : [Files -> Content \cup {Unread}],
                         hashes : [Files -> Content]]]
  /\ served \subseteq [verdict : Verdict, request : Request,
                       tree : [Files -> Content]]

(* A cache hit certifies: the verdict it serves was reached from the files
   as they are when it is served, as tryCacheHit's "no files changed" says,
   whatever crashed or overlapped while the cache was being written. *)
HitIsCertified == \A s \in served : s.verdict.content = s.tree

(* The verdict a hit serves is one of what is asked for: a plain run gets one
   of a run that had every check on and its hashes in the cache, and an L1
   verdict never answers a --deep request nor the other way round.  The latter
   needs blocks that do not meet in white space. *)
HitAnswersTheRequest ==
  \A s \in served : /\ s.request.kind = "plain"
                    /\ s.verdict.request.kind \in {"plain", "model"}
                    /\ s.verdict.request.deep = s.request.deep

(* "Source-only cache entries cannot certify those inputs" (the comment in
   tryCacheHit): a hit is about the project's own inputs.  A run on a build
   model reads other ones, and saves its verdict all the same. *)
HitIsOfTheSources == \A s \in served : s.verdict.request.kind = "plain"
=============================================================================
