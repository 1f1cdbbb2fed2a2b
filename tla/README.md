# A TLA+ verification of topo-cli

topo-cli is the set of command line tools of the Topo language: `topo-check`
(declaration checks and audits), `topo-build` (build orchestration),
`topo-profile`, `topo-init` and `topo-transpile`. This directory holds TLA+
models of the tools' own stateful parts, TLC configurations that check them on
small instances, and theorems about them that TLAPS checks for every instance.
The models are written from the C++ under `src/tools/`. `PROJECT.json` lists for
every definition the lines of code it stands for.

To check a model: `tlc -config <cfg> <module>`. To check the proofs of a module:
`tlapm <module>`.

## 1. Inventory

| Component | Source | State | Operations | Interacts with | What is hard |
|---|---|---|---|---|---|
| File pool, `parallelMap` | `topo-check/CheckRunner.cpp` 62-166 | task queue, in-flight counter, stop flag, worker threads, atomic cursor, result vector | construct, submit, wait, worker loop, destruct, claim | the checks map extractors over files with it | threads, condition variables, exceptions in workers |
| Verdict cache | `CheckRunner.cpp` 179-311 | `.topo-check-cache` in the project directory: mode, hashes of the files, the last verdict | `tryCacheHit`, `saveCheckCache` | every run of the project, from any terminal or build | in-place writes, crashes, concurrent runs, edits, several kinds of runs |
| Run orchestration | `CheckRunner.cpp` 316-1669, `main.cpp` | resolved configuration, language server, results, `anyErrors` | `loadConfig`, `run`, the six checks, `listUnsafePoints`, `main` | provider plugins, server, cache, audit | degradations, early returns, exit codes, two sources of configuration |
| Audit trust store | `AuditSupport.cpp` 99-130, 300-376; `CheckRunner.cpp` 1425-1552 | `trust.json`, its lock, saved reports | accept review, accept dependency, revoke, load, apply | audits read it twice; reviewers write it | lock, lost updates, time of check and of use, partial failure |
| Audit facts cache, policy | `AuditSupport.cpp` 114-297, `CheckRunner.cpp` 725-757, 1517-1540 | `<identity>.json` under the audit cache directory, `audit-policy.json` | digest, look up, restore, digest again, save | audits, also of other users of the directory | inputs edited between digests, overlapping saves, damaged entries |
| Mixed provider | `MixedAnalysisProvider.cpp` | two providers | dispatch by file extension | the checks | none: stateless |
| Build: frontend cache and pipeline | `topo-build/main.cpp` | `.topo-cache` (symbols, visibility, manifest), audit directory and lock, temporary directory, request file | frontend, cache load and save, request, check model, check, dispatch, cleanup | `topo-check` and the backends as child processes; other builds through the files | multi-file cache, crashes, concurrent builds, time of check and of use |
| Build: configuration | `topo-build/Config.cpp`, head of `main` | `BuildConfig` | `parseArgs`, `loadTopoToml`, `resolveAndApplyProfile`, `autoExtension`, guards | the pipeline | three passes with different precedence, chains of profiles |
| `topo-profile` | `topo-profile/main.cpp` | `CliConfig`, spans, pass events, the document | `parseCli`, guards, `collectSpans`, `routePassEvent`, `transformSpan`, `runSamplingConversion` | the traced process, sampling files, the JFR bridge | a stream read while it is written, 64-bit arithmetic, exit codes of two failures |
| `topo-init` | `topo-init/*.cpp` | symbols grouped by namespace and type; the scaffold's files | `detectLanguage`, `collectSourceFiles`, `generateTopoBody`, the writes of `main` | an extractor, the file system | ties, the order of symbols, partial writes |
| `topo-transpile` | `topo-transpile/main.cpp` | options | validation, exit policy | plugins | none beyond its rules |
| Plugins, server bridge, frontend, sema, `IncrementalCache`, `FileLock` | not in this repository (topo-core, topo-lang-*) | | | called by all of the above | external outcomes |

What makes each modelled component correct:

* pool: a file is worked on once, nobody touches the caller's data after the
  drain, what is missing is explained, the map ends;
* verdict cache: a hit serves a verdict about the files as they are, of the depth
  that is asked for, from a run that had every check, and about nothing the entry's
  hashes do not cover;
* run: a fresh PASS follows from every requested check having run to its end on
  real facts; a cached one from a run of all checks that passed;
* trust store: commands are atomic and none is lost; a passing audit is approved;
* build: the backend compiles this build's own current declarations, from this
  build's own request, bound to the model that was checked, and what was checked
  are the sources this build selected;
* configuration: each field has the value that the order command line,
  `Topo.toml`, profiles gives it, and a chain of profiles is refused exactly
  when it has no end or a gap;
* audit facts: reusing facts is no different from analysing, and a passing audit
  is about one state of its inputs (of its configuration too, which the code
  does not ensure: see the observations);
* `topo-profile`: the document has what the target wrote, all of it, in order and
  in its place, and the sampling segment is of the one input that was given;
* `topo-init`: every symbol is declared once and in its place, whatever order
  they come in, and a file of the scaffold that names another is begun after it.

## 2. Modules

| Module | Role |
|---|---|
| `ParallelMap` | what `parallelMap` promises: the abstract specification |
| `FilePool` | the pool and the map, one action per critical section, notification and wake-up |
| `FilePoolProofs` | its theorems |
| `CheckCache` | the verdict cache under overlapping, dying invocations and edits |
| `CheckCacheProofs` | its theorems |
| `TrustLedger` | the trust store as an atomic ledger: the abstract specification |
| `AuditTrust` | trust commands under the lock, audits without it |
| `AuditTrustProofs` | its theorems |
| `CheckRun` | one `topo-check` invocation after another, with the outcomes of the external parts |
| `CheckRunProofs` | its theorems |
| `TopoBuild` | `topo-build` invocations that share a project directory |
| `TopoBuildProofs` | its theorems |
| `BuildConfig` | how `topo-build` arrives at its configuration |
| `ConfigurationProofs` | its theorems and those of `TopoInit` |
| `AuditFacts` | audits that overlap on the audit facts cache |
| `AuditFactsProofs` | its theorems |
| `TopoProfile` | `topo-profile trace` and the process it traces |
| `TopoProfileProofs` | its theorems |
| `TopoInit` | `topo-init` from detection to the last file |
| `MC*` | constants for TLC: sets of processes, recipes, selections |

In several modules an operator that the code's rule is named by is preceded by a
variant that a plausible mistake would leave (`CountOnly` before `HashesMatch`,
`NothingInFlightOnly` before `WaitDrained`). Nothing uses the variants: they are there
to be put in place of the rule, and each makes TLC report the property that the
rule is there for (`mutants` in `PROJECT.json`).

### FilePool

`main` is the place of the calling thread in `parallelMap` (and so in the pool's
constructor, `submit`, `wait` and destructor), `worker[w]` that of each thread in
`workerLoop`. A block under `m_` is one action; `cv.wait` releases the mutex in
the action that goes to `asleep`; `notify_one` and `notify_all` outside the lock
are actions of their own, and `SpuriousWorker`, `SpuriousMain` wake a thread for
no reason. `next` is the atomic cursor, `out` the result vector with `out[i] = i`
for "the result of file i". The loop body is three places: claim, apply, finish;
`Throw` is an exception of the mapped function, which the worker loop swallows
together with the rest of the claiming task. `Sequential` is the branch without a
pool: one job, one file, or a caller that asks for one thread because the language
server is up (`serial`, the argument `isLSPReady() ? 1 : config_.jobs` of the calls
at 889, 1037, 1172, 1227 and 1282). `lost` is a history variable. `ParallelMap` is what
a caller sees of all this: calls of the function, each of which gives a result, costs
one together with its task or, in one thread, reaches the caller; and the return.

### CheckCache

`tree` is the content of the files, `disk` the cache file in two blocks (it is
written in place through a stream buffer; the blocks of two writers may end up
side by side, and a reader or a kill may come between them), `proc[p]` an
invocation with what it has read. `Analyse` reads one file at a time; `Hash`
takes the hashes again, after the verdict, as `saveCheckCache` does. `Kinds` are
the runs that share the file: plain, narrowed (`--check`, `--filter`), with a
build model (every check that `topo-build` starts), Java, audit; `LooksUp` and
`Saves` are the two lists of exceptions of the reader and the writer. `served`
holds the last hit.

When do two blocks of different writers parse together (`Parses`)? The texts of two
runs over the same files differ in `true` and `false` alone, so behind that word
they are one character out of step. If the blocks meet within a path, a hash or a
bracket, a character is there twice or missing, and the entry does not parse or
names a file that is not there. If they meet in the white space of the indentation
the character is made up for and the mixture parses. `BlankSeam` says which of the two
the block border falls on: the length of the paths decides, so neither can be
ruled out. With `FALSE` the passing run shows what the format keeps; with `TRUE` TLC
reports what it does not (the second observation in section 5). Texts over different
files are taken to fit whatever their lengths, which allows more mixtures than there are.

### AuditTrust

A trust command goes through `Start`, `Acquire` (or `Busy`), `Load`, `Apply`,
`Replace` (the atomic rename), `Confirm`; it may `Fail` or be killed anywhere.
`Replace` and `Confirm` are apart because the permissions are set after the
rename: the command can report failure when its change is in force. An audit goes
through `Analyse`, `FirstTrust`, `Checks`, `Snapshot`, `SecondTrust`, `Save`. A
review key is the content it was computed from. The options of a command are
chosen at `Load`, where they first make a difference, and what a step has used for
the last time it forgets. `LedgerOf` and `RequestOf` are
the refinement mapping: a command takes effect at `Replace`.

### CheckRun

`at` walks through `main` and `run`: configuration, cache lookup, frontend,
language server, audit report, the six checks, diagnostics, finish. The external
parts may answer in any way their interface allows. `results` is what the checks
come to: which ran, failed, were off, were starved (source files exist, nothing
was extracted). `cache` carries a verdict to later invocations, with a note for the
properties whether the run was whole; `Forget` is an edit that invalidates it. How
many threads an extraction takes is left out: each place that starts one asks for
the server's state itself, just before (889, 912, 1037 and their like), and with or
without threads the outcome is any the extractors may have.

### TopoBuild

`at[p]` walks through `main` of `topo-build`. `cache` is the three files of the
frontend cache, each read and saved in a step of its own. `dir` are the
directories of intermediates: one per process id, or the target's in an audit,
under `lock`. A file's modification time is its version. `Kill` is a kill at any
place; neither it nor `Fail` removes anything. `Overwrite` is
another process writing a check model. `Select` writes `resolved-check-model.json`:
the sources `topo-check` is to look at, those of the configuration or, in a Java
project with a bound model, those of the model. `Fail` is every return with an error
where `Fallible` says the code has one: an import or a parse that fails
(`main.cpp:241-244`, 277-280, 319-321), a directory or a lock (206-221), the request
(516-521), the tool (529-534), the probe and the bind (568-570), `topo-check` not found
(578-585), the Java model or the sources (600-608), the model changed or the check
failed (625-633), the backend (659-665). The modules reachable from a root stand
as one file: a mixture of versions read from several files needs an edit during
the build, which the passing run excludes anyway. A save that fails leaves no
file that loads, unless `FailedSaveKeepsOld`: how `IncrementalCache` writes is not
in this repository.

### BuildConfig

`cfg` is a function from fields to values. A field stands for all options that
are handled in its way: `Fills` are those `Topo.toml` sets only if the command
line left the default, `Replaces` those it overwrites, `Raises` those it can only
set to one value, `LineOnly` those it cannot set, `Features` (a parameter) those
without an option. A list (`sources`, and `-I` like it, both of which the code appends
to) stands for its first member: an argument adds behind it, so it changes only an
empty one (`Appends`, `Given`). `EndOfLine` refuses an evidence mode that is neither
`commands` nor `isolated-build` and a mode without an output. `Parse` consumes one argument, `LoadFile` the sections and the
generated salt, `Follow` one link of `extends`, `ApplyProfile` one profile from
base to derived, `Guards` what `main` forces and refuses. `file = Missing` is the
early return of `loadTopoToml`, which leaves out profile and validation too.

### AuditFacts

`config` is what an audit reads before anything is digested: `Topo.toml` and the build
model, parsed at the head of `loadConfig` (482-617; `Configuration` are these files).
`identity`, `facts` and `current` are the three readings it then takes of its
inputs, each file by file: the digest in `loadConfig` (737-745), what the provider reads
(or restores), the digest before the verdict. What the facts are of is `config` for the
configuration, which is not read again. `Declarations` are inputs that no facts are kept
of (.topo files, policy, evidence): an audit that restores facts reads them afresh. `store` holds an entry per identity;
`Stage` and `Replace` are the temporary file and the rename under the key's lock.
`Damage` alters an entry or puts it under another key. What `Sealed` and `IsOf`
test is what `loadAuditFactsCache` tests before it restores.

### TopoProfile

The command line is parsed argument by argument into `cfg`; `Accepted` and
`Refusal` are the guards of the five modes. `target` is the spawned process:
`Write`, `Close` and `Die` are its steps and interleave with `Drain`, which takes
one line and routes it (`IsPassEvent` first, then `IsSpan`), and `Stop`, the
five-second wait at the end of the output. Numbers are those of a machine whose
largest integer is `Top`: `Ns`, `Wrapped`, `Clamped` and `End` are the conversions
and the checked addition. A line is known by its number, so a span in the
document can be traced to what was written.

### TopoInit

`Counted`, `Beats` and `Detected` are the guess of the language, `Looked` and
`Sources` what is collected. `Group` takes one symbol after the other, as
`generateTopoBody` does; `types` and `placed` are what it fills in, `Levels`,
`PrintedTypes` and `Printed` what is printed of them. `Steps` are the opening and
closing of the scaffold's files in the order of `main`, where closing is what
writes a buffer out; a step may fail unnoticed, a directory that cannot be made
ends the program, and it may be killed anywhere. Its definitions have names that
`BuildConfig` does not use (`ScaffoldSpec`, `place`, `initVars`), because one
module holds the theorems of both.

## 3. Runs

| Run | Instance | What it shows |
|---|---|---|
| `pool_map` | 4 files, 3 workers (`--jobs 0`, hardware 3) or one thread, every call may throw | safety under every interleaving, no lost wake-up, termination, and that pool and loop implement `ParallelMap`, exceptions included |
| `cache_shared` | 2 invocations of all five kinds, deep or not, 2 files in different blocks, 2 contents each after the first | what a hit serves: present files, all checks, the depth asked for |
| `cache_edited` (violation) | 1 invocation, edits at any time | finding 1 |
| `cache_model` (violation) | 1 invocation at a time, plain or on a build model | finding 2 |
| `trust_reviews` | 2 reviewers, 1 auditor, 1 project with 2 contents, 1 dependency | the store implements the ledger; what an audit that passes had established |
| `run_verdicts` | checks and `--list-unsafe`, with and without selection, checks off, deep or not | what a PASS and a cached PASS follow from |
| `build_shared` | 2 builds, one target; plain, Java, Java audit with `--clean-cache`; an edit between builds, one overwritten model | the declarations and the request the backend is handed, the check model and the sources checked |
| `build_roots` (violation) | 1 build at a time, two roots | finding 3 |
| `config_profiles` | 4 profiles, one of them built in, in every shape of `extends`; 11 command lines; 7 sets of sections | what each field ends with, which chains are refused, and that there is an end |
| `audit_facts` | 2 audits; `Topo.toml`, a .topo file and a source, each edited once; one damage | what is reused and what a pass is about |
| `profile_stream` | every mode with every choice of at most two inputs; streams of 2 lines out of 11 kinds; `Top` = 3 | the document, span arithmetic, the segment, and that only an open output holds `topo-profile` |
| `init_scaffold` | up to 2 files of each language, 6 x 7 lone files, up to 3 of 9 symbols | the guess, the arrangement, the order of the writes |

Why the bounds are enough to be of interest. Two invocations, reviewers or
builds are what it takes for a lost update, an interleaved write or a removed
directory; the rules name no third party, and a dead process plays one. Two files
are what it takes for two blocks to differ. In the pool three workers give a
worker that sleeps, one that works and one that ends; four files with three
workers let a worker claim twice. The counters have no other role than to bound
edits and overwrites: two contents tell "before" from "after", `cache_shared`
has a third one so that an old entry may be neither of the last two.
Four profiles make a circle that is entered from outside, a chain that mixes
user's and built-in profiles, and a base two links away. Two lines of a target
are what it takes for an order; with `Top` = 3 every sum, wrap and clamp that is
possible at 64 bits happens. Three symbols let a type come before, between or
after its members and a name come twice; two files of a language tell a tie from
a lead. In `audit_facts` one edit of each input lets a digest see any mixture; there
a state constraint, `Bounded`, keeps the instance small: while two audits
overlap only one of the inputs is edited and the store is whole; once more inputs are
edited, or an entry is damaged, TLC goes on with one audit at a time, over whatever the
two have stored. (The theorems have no such bound.)

The runs of `CheckCache`, `TopoBuild`, `AuditTrust` and `AuditFacts` that have several
of them use the symmetry of processes, reviewers and audits; they check no liveness.
Where files are edited only between runs (`EditsDuringRun`, `EditsDuringBuild` FALSE) this
is the precondition of the property: finding 1 and the observations show what happens
without it. In `AuditFacts` edits come at any time, and `PassIsOfItsInputs` speaks of the
inputs that are read after the first digest: the third observation is about the others.

Deadlock is checked in every run; a system that has nothing more to do
stutters explicitly (`Over` in `FilePool`, `Finished` in `BuildConfig` and
`TopoProfile`, `Stop` in `TopoInit`) or can start again.

### Fairness

`FilePool`: weak fairness of the caller and of each worker, the operating
system's scheduling of a thread that can run; none for spurious wake-ups, so
termination never depends on them. `ParallelMap` asks for weak fairness of its
next step, since the function applied to each file returns. `BuildConfig`: weak
fairness of the one thread's next step. `TopoProfile`: weak fairness of the
tool's own steps and none of the target's, which may stay silent for ever with
its output open; that is the one thing `OnlyTheTargetHoldsIt` allows to keep the
tool. The other models have no fairness and no liveness property.

## 4. Proofs

All are for arbitrary constants, under the assumptions the modules name.

**FilePoolProofs.** The inductive invariant `IInv` adds to types and `ClaimedOnce`
three parts. `Flow` says how far the caller is and that the queue and the in-flight counter
are zero after the drain. `Counting` says that `inflight` is the number of
workers inside a task and that submitted tasks are queued, live, ended past the
last index (each of which moved the cursor one beyond, hence `Excess`) or lost to an
exception. `Cursor` says that below the cursor each index is done, lost or held
by one worker and above it untouched. `Counting` is what makes `wait()` sound: with the queue
empty and the counter zero nobody is inside a task. Proved: `TypeCorrect`,
`EachClaimedOnce`, `DrainIsQuiet`, `LossesAreAccounted`, `ResultIsStable`,
`CompleteResults` (every result, if no call throws or there is no pool) and
`Implements`: every behaviour's initial state and steps are those of `ParallelMap`, in
a pool or in one thread, whatever throws. An exception is a step of the abstract map as
long as a task is left that could have met it (`TaskIsLeft`, from `Counting`). The
liveness part of `MapSpec` is TLC's.

Who sleeps and who wakes is a second invariant, `WakeInv`: `Shutdown` (which places
of the caller go with the stop flag, and that workers are born in order and end
only behind the flag) and `NobodyWaitsInVain`: while a worker sleeps, each queued
task has a worker of its own on the way to the queue, but for the one whose
`notify_one` is still to come. A worker that goes to sleep saw an empty queue; one
that takes a task takes one worker and one task off the inequality; one that wakes,
notified or not, adds a worker. `NoWakeUpIsLost` states it, and `NeverStuck` what
follows: somebody is awake whom the caller in `wait` or in the destructor's `join`
waits for, so pool and caller do not deadlock. `WorkIsBounded` gives the map a
measure, `StepsLeft`: at first `10 * WorkerCount + 2 * N + 7`, it is a natural
number that every step makes smaller, but a wake-up for no reason, which adds one.
So a run without spurious wake-ups has at most that many steps, whatever the
interleaving and whatever throws, and each spurious wake-up lengthens it by two at
the most, itself and one more. That fair threads do take the steps that are left,
however often they are woken for no reason, `pool_map` checks as `Terminates`.

**CheckCacheProofs.** `TypeCorrect`, and `HitsAreCertified` under
`~EditsDuringRun`: the invariant says that a running invocation has read what is
there, that each block on disk certifies itself, that two blocks that are both
present carry the same hashes, and that while somebody is writing, whatever is on
disk is about the present tree (it was truncated in this period without edits).
The last part is needed because the blocks come from different writers.
`HitsAnswerTheRequest` holds for all kinds of runs and with edits at any time, under
`~BlankSeam`: invocations that save are plain ones or on a build model (`KindsAreKept`),
so each block has the mode of its own verdict, whoever wrote the other one, and blocks
that parse together have the same. Neither condition can be left out: finding 1 and the
second observation of section 5.

**AuditTrustProofs.** `TypeCorrect`, `PassesAreApproved` and `Implements`
(`Spec => LedgerSpec`, for any number of reviewers, projects and dependencies).
The invariant: whoever is inside the critical section holds the lock, the copy it
works on is the store as it is, and after `Apply` the copy is the store plus its
own command. The mapping then makes `Replace` the ledger's `Commit`.

**CheckRunProofs.** `TypeCorrect`, `PassesAreWhole`, `DegradedRunsFail`. The invariant
follows the run through its checks: those before the present one that should run are
in the list of results (`InOrder`), and every error, starved extraction and degraded
deep analysis is in `anyErrors` (`Accounted`), from which verdict and cache entry are
made; an audit past the configuration gate asks for everything (`Gated`, `Forced`); and
a passing entry of the cache is that of a whole run, because narrowed runs and audits do
not save.

**TopoBuildProofs.** `TypeCorrect`; `RequestsAreOwn` and `CheckedModelsAreBound`
without further conditions; `DeclarationsAreCurrent` under `OneRoot`,
`~EditsDuringBuild` and `~FailedSaveKeepsOld`, each of which is needed (finding 3 and the
observations of section 5), and with it `ManifestsCertify`: a manifest that is valid now has
nothing older beside it.
The first invariant (`Proper`) says that an audit build past its lock holds it, so
that no two running builds have the same directory (`Disjoint`); that the request
there is the build's own; and that the digest bound, the model that sources are
selected from, the model checked and the model on disk are ever later ones, so that when
the last equals the first all are the same. The second (`DInv`) says that a manifest of the present files has
fresh symbols and visibility beside it (`Certified`), that none is of later files
(`NotAhead`: so an edit leaves a manifest that matches nothing), and what each
build that loads or saves knows of the files it is not looking at (`Sound`).

**ConfigurationProofs**, of `BuildConfig`. For any table of profiles. `Resolution`
says that the chain is a line of inheritance without repetition, that its members are all
ancestors of the profile asked for, and that the profile looked at next is what
the last one extends; the chain being closed under `extends`, it is then all of
the ancestors, so `Circular` and `UnknownProfile` are reported exactly when they
have to be (`ChainsAreExact`). `Overridden` says of the profiles applied so far
that the first one of the chain decides each field (`NearestDecides`). `LineSaid`
follows what the command line has said through the later passes (`LineHolds`).
`SaltKept` and `Guarded` lead to `SaltsAreKept` and `AuditsAreWhole`, which no run
checks: a salted build without a salt has no `Topo.toml` or a profile that sets
mode or salt; an audit asked for in either place has its check, keeps what it
refers to and rebuilds everything. `ResolutionIsBounded`, for finite tables
(`TablesAssumption`: a file is finite), is `Decides` without its fairness: every step
lowers `RoundsLeft`, which is `Len(line) + 2 * Cardinality(Table) + 6` at first and
never less than zero. While the chain is followed it counts each profile of `Table`
twice that is not in the chain and each that is once, so a circle is found before
the profiles run out.

**ConfigurationProofs**, of `TopoInit`. For every set of projects, of any number of
files and symbols; assumed are the types of the constants and that a project has
finitely many files (`ProjectsAssumption`, `QualifiedNamesAssumption`,
`TreesAssumption`). The invariant `SetupInv` of `SetupInvariance` has seven parts.
`Requested`, `Chosen` and `Phases` say what cannot change, that the language is
decided once, and that nothing is written before all is generated. `Writing`:
each of the `Steps` taken so far was done or its file is lost, and nothing
else was begun or written; with the table of `Steps` this gives `FilesAreInOrder`: a file
that names another is there only if that one was begun before it or could not be
opened, and a refused or dry run leaves no file. (That a file which was begun also has
its contents is not said: see the observations.)
`Arranged` and `TypesKnown` are the induction over the symbols that
`generateTopoBody` takes one after the other. They describe `placed` and `types` by
the first symbol of each name below `next`: a type is there as soon as it or a
member of it has come, with the visibility of its own declaration, if there was
exactly one, and with `protected` and a TODO, if there was none. With `Generated`
(the document is what there was after the last symbol) `PlacesAreRight` follows,
for whatever order the symbols come in. `DetectionIsOfTheCommonest` is about the
counts alone: the four `if`s of the detection end with a maximum, but where Rust
and Java tie above C++ (an observation in section 5). `ScaffoldTypes` is the
type invariant.

**AuditFactsProofs.** Versions only grow, and an audit reads each input that is not
of its configuration three times (`Ordered`); if the first and the third reading are the
same, so is the second (`Agreement`). So what is stored under an identity is of that
identity, but for the configuration, and its digest says so whatever is done to the entry
later (`Truth`). From this follow `HitsAreFresh`, `PassesAreOfTheirInputs` and
`EntriesAreKept`, for any number of audits, inputs and damages. The configuration is
read before the first digest, so the argument does not reach it, and could not: see the
third observation of section 5.

**TopoProfileProofs.** For command lines and streams of any length, any width of
integers and any number of passes. `Placed` says what has been accepted where the
tool is; `Sorted` that the lines read are split between spans and pass events, in
order; `Told` what is printed and which exit code goes with it. From these
`DocumentsAreWhole`, `SegmentsAreOfTheInput`, `SpansAreForward`, and two that no
run checks: `ExitsTell` (0 and 3 come with one document, 1 and 2 with none, 3
means that the target failed) and `TargetsKeepTheirArguments` (what is behind
`--` has no influence on the tool), with an invariant of the parsed prefix.
`OnlyLinesAreWork` bounds the tool's work: each of its steps lowers `WorkLeft`, at
first the number of arguments and six, and only a line that the target writes raises
it, by one. Once the output has ended nothing adds to it; that a fair tool then gets
to its end, a target that stays alive notwithstanding, TLC checks as
`OnlyTheTargetHoldsIt`.

Only model-checked: liveness (`Terminates`, `Decides`, `OnlyTheTargetHoldsIt`, the
fairness part of `MapSpec`), which the proof system does not reach. Every other
property that a passing run checks is a theorem.

## 5. Findings

Each is a property that a comment or message in the code states and that a run
shows to be violated. Lines are those of `topo-check/CheckRunner.cpp` or of
`topo-build/main.cpp`.

1. `cache_edited`: hashes are taken after the verdict (`CheckRunner.cpp:300`); an
   edit during the checks is stored as checked, and the next run says "no files
   changed".
2. `cache_model`: a run with `--build-model` does not read the verdict cache (240),
   because "source-only cache entries cannot certify those inputs" (238), but writes it
   (286): a later plain run is served a verdict of a build model's inputs.
3. `build_roots`: the frontend cache is not keyed by the root (`main.cpp:342` of
   topo-build). Build root A; build root B and kill it between symbols and
   manifest; build A again: A's manifest is valid and B's symbols are compiled.

Observations that have no run of their own:

topo-check and topo-build:

* `topo-build/main.cpp` says at 575 that "the incremental check cache keeps no-change
  rebuilds near zero cost"; the check it starts always has a build model (610), and such
  a run never reads that cache (`CheckRunner.cpp:240`, `LooksUp`).
* `CheckCache` with `BlankSeam = TRUE` and two plain runs violates
  `HitAnswersTheRequest`: a deep and an L1 run that write the cache at once
  (`CheckRunner.cpp:305-308`) may leave a mixture that parses, with the mode of the one
  and the verdict of the other. The comment at 261 says that the cache must not be
  shared across modes.
* `AuditFacts` violates `PassIsOfItsConfiguration`: `Topo.toml` and the build model are
  parsed (482, 597) before they are digested (745). An edit in between is in both digests,
  so "analysis input identity changed during audit" (1532) is not reported: the audit
  exits 0 on the old configuration, and its facts are stored under the identity of the
  new one.
* `TopoBuild` with `EditsDuringBuild = TRUE` violates `ValidCacheIsCurrent`: the
  manifest's times are read after the parse (`topo-build/main.cpp:360`), so a file that
  is edited in between is recorded with its new time beside the symbols of its old
  contents. The comment at 249 counts on the times to catch such edits.
* `TopoBuild` with `FailedSaveKeepsOld = TRUE` violates `DeclarationsAreOwn`: what
  saving the symbols came to is not looked at (`topo-build/main.cpp:342`).
* `--list-unsafe` exits 1 when the `.topo` files do not parse
  (`topo-check/main.cpp:207`); the usage text at line 67 says 2.
* An approval given between an audit's two reads of the trust store leaves a
  report that says passed and exit code 1.
* A `--filter` that matches no check passes with nothing checked
  (`CheckRunner.cpp:1305`).
* A dependency has one slot in the trust store: accepting it for one project
  replaces an acceptance for the user.
* A deep containment result without any diagnostic, a clean one, counts as
  missing infrastructure and becomes an error (`CheckRunner.cpp:967`).
* An exception in a pooled call is dropped together with the rest of its claiming
  task (`CheckRunner.cpp:112`), with `--jobs 1` it ends the program; the comment at
  133 promises results in input order. `MissingWereLost` is what remains true.
* A `--deep` run passes although a check went by regular expressions
  (`CheckRunner.cpp:909`), which the comments at 985 and 1412 exclude.
* An edit that is undone within one audit is seen by neither of the audit's
  digests. An exception while the facts are exported makes the audit fail, though
  its verdict is reached.

Configuration:

* `--profile` without a `Topo.toml` is ignored (`Config.cpp:280`), though the usage
  text at 130 names profiles that are built in.
* `main.cpp` of topo-build says at 119 "Try Topo.toml for any fields not set by
  CLI"; `output_type`, `obfuscation`, `debug_internal`, `warn_only` and others
  replace what the command line set. `mode = "dev"` does nothing against
  `--mode aggressive`, and `-std=c++17` on the command line counts as unset.
* The salt is made up before the profile is applied and only if there is a
  `Topo.toml`: a profile that selects `salted`, or `--obfuscation salted` without a
  file, builds without a salt.

topo-profile:

* Integers of 2^63 and more wrap to negative times, floats are clamped. The
  comment at 424 says the time stamp marks the end of a span and the start is
  recovered from it; the code takes it for the start.
* In hybrid mode the comment at 1024-1028 promises the spans of a target that
  failed, with exit code 3; if the sampling input fails as well, the exit code is
  1 or 2 and nothing is printed.
* The message of hybrid mode about its inputs names `--cprofile-input`, which the
  guard before it refuses with 2. `--help` exits with 1.
* A target that forks and leaves its standard output open keeps `topo-profile`
  until that is closed.

topo-init:

* As many Rust as Java files make the project C++, even without a C++ file, and
  then no source file is found. Detection counts files where collection does not
  look, and skips `node_modules`, which collection does not.
* Overloads share a qualified name and only the first is declared. The wrapper
  namespace of global symbols may coincide with a real one.
* `--output` makes its directory, but the file is always `topo/main.topo`.
  `Topo.toml` is overwritten without a question. What the writes came to is not
  looked at. If the formatter's directory cannot be made, `Topo.toml` stays empty,
  since its stream is open until the end of `main`.
* `--language mixed` is accepted and collects nothing.

## 6. Not modelled

What the checks find in a program, the parsers and the analysers (external
outcomes); the contents of requests, reports and messages; `*.topo-dbg.json`,
written once and never read here; how an audit policy is parsed and an audit
report written (no state is kept, and their outcomes are branches of `CheckRun`
and `AuditTrust`); `autoExtension`; the text `topo-init` puts into a declaration
(types, parameters, bindings). The Mixed provider and `topo-transpile` keep no
state: the one forwards each call to one or both of two providers, the other
checks its arguments one after the other and calls the driver in topo-core, so a
model would repeat the guards and nothing else. Build files, CI and smoke tests
are no part of the program.

## 7. Plan

Done, in this order, the most important behaviour first: `FilePool` with
`ParallelMap`; `CheckCache`; `AuditTrust` with `TrustLedger`; `CheckRun`;
`TopoBuild`; `BuildConfig`; `TopoProfile`; `AuditFacts`; `TopoInit`.

Left:

1. The composition of `AuditFacts` and `AuditTrust` in one module: which of an
   audit's two reads of the trust store falls between which digests. Today each
   has the other as an external outcome.
2. `topo-dbg.json` and the contents of a build request, should the backends begin
   to read what other builds wrote.

Each keeps to the pattern used so far: an abstract promise where there is one, a
detailed module with one action per step, one small instance per question, and
theorems for what holds for every instance.
