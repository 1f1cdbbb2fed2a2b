------------------------------ MODULE FilePool ------------------------------
(***************************************************************************)
(* The file-level thread pool of topo-check and the parallelMap helper     *)
(* built on it (tools/topo-check/CheckRunner.cpp, class FilePool and       *)
(* template parallelMap).  The calling thread spawns the workers, submits  *)
(* one claiming task per worker, waits for the pool to drain and joins the *)
(* workers in the destructor.                                              *)
(*                                                                         *)
(* Every access to the queue, the in-flight counter and the stop flag is   *)
(* inside a critical section of m_, so a critical section is one step, and *)
(* blocking on a condition variable gives the mutex up in the same step.   *)
(* Notifications made outside the lock are steps of their own, and a       *)
(* blocked thread may also wake for no reason.  All submitted tasks are    *)
(* the same closure, so the queue is its length.                           *)
(***************************************************************************)
EXTENDS Integers, FiniteSets

CONSTANTS N,        (* files.size()                                        *)
          Jobs,     (* config_.jobs; <= 0 asks for the hardware's threads  *)
          Hardware, (* std::thread::hardware_concurrency(), 0 if unknown   *)
          MayThrow, (* the indices whose call of fn may throw              *)
          Empty     (* a default-constructed slot of the result vector     *)

ASSUME NAssumption == N \in Nat
ASSUME JobsAssumption == Jobs \in Int /\ Hardware \in Nat
ASSUME ThrowAssumption == MayThrow \subseteq 0 .. N - 1
ASSUME EmptyAssumption == Empty \notin Int

VARIABLES
  main,      (* where the calling thread is                                *)
  spawned,   (* how many workers the constructor has started               *)
  submitted, (* how many tasks the calling thread has submitted            *)
  tasks,     (* the length of tasks_                                       *)
  inflight,  (* inflight_                                                  *)
  stopping,  (* stopping_                                                  *)
  worker,    (* where each worker thread is                                *)
  held,      (* the index each worker claimed last                         *)
  next,      (* the atomic cursor of parallelMap, or its loop variable     *)
  out,       (* the result vector; out[i] = i stands for fn(i, files[i])   *)
  lost,      (* history: the indices whose call of fn threw                *)
  serial     (* the caller asks for one thread: the language server is up  *)

vars == <<main, spawned, submitted, tasks, inflight, stopping, worker, held,
          next, out, lost, serial>>

-----------------------------------------------------------------------------
Index == 0 .. N - 1

(* Thread count: the request, else the hardware's, at least 1 and at most 16. *)
EffectiveJobs ==
  IF Jobs > 0 THEN Jobs
  ELSE IF Hardware = 0 THEN 1
  ELSE IF Hardware > 16 THEN 16
  ELSE Hardware

Sequential == serial \/ EffectiveJobs = 1 \/ N = 1

WorkerCount == IF EffectiveJobs < N THEN EffectiveJobs ELSE N

Workers == 1 .. WorkerCount

(* A worker inside task(): between taking a task and its last lock. *)
InTask == {"claim", "apply", "finish"}
Busy == {w \in Workers : worker[w] \in InTask}

MainPlaces == {"enter", "sequential", "spawn", "submit", "notify", "wait",
               "asleep", "stop", "notifyAll", "join", "returned", "raised"}
WorkerPlaces == InTask \cup {"unborn", "check", "asleep", "exited"}

(* next.fetch_add(1) stores the successor ... *)
ForgottenIncrement == next
Advanced == next + 1

(* ... of a value that is a file's index, or not. *)
OnePastTheEnd == next <= N
LastFileSkipped == next + 1 < N
HasFile == next < N

(* The slot a result goes to: that of the index the worker holds. *)
Slot(w) == held[w]

(* An exception of fn in the sequential loop leaves parallelMap; no pool is
   there to swallow it. *)
Swallowed == main' = "returned" /\ UNCHANGED next
Escapes == main' = "raised" /\ UNCHANGED next

(* The drain predicate of wait ... *)
NothingInFlightOnly == inflight = 0
WaitDrained == tasks = 0 /\ inflight = 0

(* ... and the test under which a worker that ends its task, and takes
   itself off the in-flight count in the same critical section, wakes it. *)
TestedBeforeDecrement == tasks = 0 /\ inflight = 0
LastToFinish == tasks = 0 /\ inflight - 1 = 0

(* The calling thread is past pool.wait(): the cursor `next` is about to be
   destroyed and the result vector handed to the caller. *)
Drained == main \in {"stop", "notifyAll", "join", "returned"}

Init == /\ main = "enter"
        /\ spawned = 0
        /\ submitted = 0
        /\ tasks = 0
        /\ inflight = 0
        /\ stopping = FALSE
        /\ worker = [w \in Workers |-> "unborn"]
        /\ held = [w \in Workers |-> 0]
        /\ next = 0
        /\ out = [i \in Index |-> Empty]
        /\ lost = {}
        /\ serial \in BOOLEAN

-----------------------------------------------------------------------------
(* The calling thread.                                                     *)

(* No files: the empty vector; one thread or one file: the plain loop; else
   the pool. *)
Enter == /\ main = "enter"
         /\ main' = IF N = 0 THEN "returned"
                    ELSE IF Sequential THEN "sequential" ELSE "spawn"
         /\ UNCHANGED <<spawned, submitted, tasks, inflight, stopping, worker,
                        held, next, out, lost, serial>>

(* An iteration of the sequential loop; an exception leaves the function. *)
SequentialApply ==
  /\ main = "sequential"
  /\ next < N
  /\ \/ /\ out' = [out EXCEPT ![next] = next]
        /\ next' = next + 1
        /\ UNCHANGED <<main, lost>>
     \/ /\ next \in MayThrow
        /\ lost' = lost \cup {next}
        /\ Escapes
        /\ UNCHANGED out
  /\ UNCHANGED <<spawned, submitted, tasks, inflight, stopping, worker, held,
                 serial>>

SequentialReturn ==
  /\ main = "sequential"
  /\ next = N
  /\ main' = "returned"
  /\ UNCHANGED <<spawned, submitted, tasks, inflight, stopping, worker, held,
                 next, out, lost, serial>>

(* FilePool's constructor starts the workers one after the other; each runs
   from the moment it is started. *)
Spawn == /\ main = "spawn"
         /\ spawned' = spawned + 1
         /\ worker' = [worker EXCEPT ![spawned + 1] = "check"]
         /\ main' = IF spawned + 1 = WorkerCount THEN "submit" ELSE "spawn"
         /\ UNCHANGED <<submitted, tasks, inflight, stopping, held, next, out,
                        lost, serial>>

(* submit: push under the lock ... *)
Submit == /\ main = "submit"
          /\ tasks' = tasks + 1
          /\ submitted' = submitted + 1
          /\ main' = "notify"
          /\ UNCHANGED <<spawned, inflight, stopping, worker, held, next, out,
                         lost, serial>>

(* ... and cv_.notify_one() after it: one blocked worker, if there is one. *)
NotifyOne ==
  /\ main = "notify"
  /\ IF \E w \in Workers : worker[w] = "asleep"
     THEN \E w \in Workers : /\ worker[w] = "asleep"
                             /\ worker' = [worker EXCEPT ![w] = "check"]
     ELSE UNCHANGED worker
  /\ main' = IF submitted = WorkerCount THEN "wait" ELSE "submit"
  /\ UNCHANGED <<spawned, submitted, tasks, inflight, stopping, held, next,
                 out, lost, serial>>

(* wait: test the drain predicate under the lock, leave or block. *)
Wait == /\ main = "wait"
        /\ main' = IF WaitDrained THEN "stop" ELSE "asleep"
        /\ UNCHANGED <<spawned, submitted, tasks, inflight, stopping, worker,
                       held, next, out, lost, serial>>

(* ~FilePool: raise the stop flag under the lock ... *)
Stop == /\ main = "stop"
        /\ stopping' = TRUE
        /\ main' = "notifyAll"
        /\ UNCHANGED <<spawned, submitted, tasks, inflight, worker, held,
                       next, out, lost, serial>>

(* ... wake every blocked worker ... *)
NotifyAll ==
  /\ main = "notifyAll"
  /\ worker' = [w \in Workers |->
                  IF worker[w] = "asleep" THEN "check" ELSE worker[w]]
  /\ main' = "join"
  /\ UNCHANGED <<spawned, submitted, tasks, inflight, stopping, held, next,
                 out, lost, serial>>

(* ... and join them all; parallelMap returns its vector. *)
Join == /\ main = "join"
        /\ \A w \in Workers : worker[w] = "exited"
        /\ main' = "returned"
        /\ UNCHANGED <<spawned, submitted, tasks, inflight, stopping, worker,
                       held, next, out, lost, serial>>

-----------------------------------------------------------------------------
(* A worker thread.                                                        *)

(* The head of workerLoop, under the lock: block, exit or take a task. *)
Check(w) ==
  /\ worker[w] = "check"
  /\ \/ /\ ~stopping /\ tasks = 0
        /\ worker' = [worker EXCEPT ![w] = "asleep"]
        /\ UNCHANGED <<tasks, inflight>>
     \/ /\ stopping /\ tasks = 0
        /\ worker' = [worker EXCEPT ![w] = "exited"]
        /\ UNCHANGED <<tasks, inflight>>
     \/ /\ tasks > 0
        /\ tasks' = tasks - 1
        /\ inflight' = inflight + 1
        /\ worker' = [worker EXCEPT ![w] = "claim"]
  /\ UNCHANGED <<main, spawned, submitted, stopping, held, next, out, lost,
                 serial>>

(* next.fetch_add(1): an index to work on, or the end of the task. *)
Claim(w) ==
  /\ worker[w] = "claim"
  /\ next' = Advanced
  /\ IF HasFile
     THEN /\ held' = [held EXCEPT ![w] = next]
          /\ worker' = [worker EXCEPT ![w] = "apply"]
     ELSE /\ worker' = [worker EXCEPT ![w] = "finish"]
          /\ UNCHANGED held
  /\ UNCHANGED <<main, spawned, submitted, tasks, inflight, stopping, out,
                 lost, serial>>

(* out[i] = fn(i, files[i]). *)
Apply(w) ==
  /\ worker[w] = "apply"
  /\ out' = [out EXCEPT ![Slot(w)] = held[w]]
  /\ worker' = [worker EXCEPT ![w] = "claim"]
  /\ UNCHANGED <<main, spawned, submitted, tasks, inflight, stopping, held,
                 next, lost, serial>>

(* fn throws: the worker loop swallows the exception, the slot keeps its
   default and the claiming task is over. *)
Throw(w) ==
  /\ worker[w] = "apply"
  /\ held[w] \in MayThrow
  /\ lost' = lost \cup {held[w]}
  /\ worker' = [worker EXCEPT ![w] = "finish"]
  /\ UNCHANGED <<main, spawned, submitted, tasks, inflight, stopping, held,
                 next, out, serial>>

(* The task is over: the counter goes down and, when nothing is queued or in
   flight any more, the waiting caller is woken, all under the lock. *)
Finish(w) ==
  /\ worker[w] = "finish"
  /\ inflight' = inflight - 1
  /\ worker' = [worker EXCEPT ![w] = "check"]
  /\ main' = IF main = "asleep" /\ LastToFinish THEN "wait" ELSE main
  /\ UNCHANGED <<spawned, submitted, tasks, stopping, held, next, out, lost,
                 serial>>

-----------------------------------------------------------------------------
(* A condition variable may wake a blocked thread for no reason. *)
SpuriousWorker(w) ==
  /\ worker[w] = "asleep"
  /\ worker' = [worker EXCEPT ![w] = "check"]
  /\ UNCHANGED <<main, spawned, submitted, tasks, inflight, stopping, held,
                 next, out, lost, serial>>

SpuriousMain ==
  /\ main = "asleep"
  /\ main' = "wait"
  /\ UNCHANGED <<spawned, submitted, tasks, inflight, stopping, worker, held,
                 next, out, lost, serial>>

-----------------------------------------------------------------------------
Caller == \/ Enter \/ SequentialApply \/ SequentialReturn
          \/ Spawn \/ Submit \/ NotifyOne \/ Wait \/ Stop \/ NotifyAll \/ Join

Work(w) == Check(w) \/ Claim(w) \/ Apply(w) \/ Throw(w) \/ Finish(w)

(* parallelMap has returned or raised: nothing is left to do. *)
Over == main \in {"returned", "raised"} /\ UNCHANGED vars

Next == \/ Caller
        \/ \E w \in Workers : Work(w)
        \/ \E w \in Workers : SpuriousWorker(w)
        \/ SpuriousMain
        \/ Over

Spec == Init /\ [][Next]_vars

(* Each runnable thread is eventually scheduled.  A critical section never
   stays enabled for ever without being entered, because the whole map makes
   finitely many of them apart from spurious wake-ups, which are not fair. *)
FairSpec == Spec /\ WF_vars(Caller) /\ \A w \in Workers : WF_vars(Work(w))

-----------------------------------------------------------------------------
(* Type correctness of the pool's and the map's state. *)
TypeOK ==
  /\ main \in MainPlaces
  /\ spawned \in 0 .. WorkerCount
  /\ submitted \in 0 .. WorkerCount
  /\ tasks \in 0 .. WorkerCount
  /\ inflight \in 0 .. WorkerCount
  /\ stopping \in BOOLEAN
  /\ worker \in [Workers -> WorkerPlaces]
  /\ held \in [Workers -> Index]
  /\ next \in 0 .. N + WorkerCount
  /\ out \in [Index -> Index \cup {Empty}]
  /\ lost \subseteq MayThrow
  /\ serial \in BOOLEAN

(* No file is analysed twice at once or again: the index a worker works on
   is claimed by no other worker, has no result yet and was not given up. *)
ClaimedOnce ==
  \A w \in Workers : worker[w] = "apply" =>
    /\ out[held[w]] = Empty
    /\ held[w] \notin lost
    /\ \A v \in Workers \ {w} : worker[v] = "apply" => held[v] # held[w]

(* Once pool.wait() has returned no task is queued and no worker is inside
   one: the cursor and the vector, which die or move before the destructor
   joins the threads, are not referred to any more. *)
QuietOnceDrained == Drained => tasks = 0 /\ inflight = 0 /\ Busy = {}

(* How many workers are in a place; submit's task that is not announced yet. *)
Population(places, place) == Cardinality({w \in Workers : places[w] = place})

Unannounced == IF main = "notify" THEN 1 ELSE 0

(* No wake-up is lost.  While a worker sleeps, every queued task has a worker
   of its own on the way to the queue, but for the one whose notification is
   still to come, and no worker sleeps through the stop flag; and the waiting
   caller sleeps only while a task is queued or in flight. *)
NobodyWaitsInVain ==
  /\ \A w \in Workers : worker[w] = "asleep" =>
       /\ tasks <= Population(worker, "check") + Unannounced
       /\ main \notin {"join", "returned"}
  /\ main = "asleep" => tasks + inflight > 0

(* What an exception in fn can cost.  A result that is missing from a
   returned vector is the result of a call that threw, unless as many calls
   threw as there were claiming tasks: then nobody was left to claim the
   rest.  In particular a map in which fewer calls throw than it has tasks
   loses only the results of those calls. *)
MissingWereLost ==
  main = "returned" =>
    \/ \A i \in Index : out[i] = i \/ i \in lost
    \/ ~Sequential /\ Cardinality(lost) = WorkerCount

(* Every index applied gave its result to its own slot, and a map that
   returned applied fn to every file: what the comment on parallelMap says of
   its result, and what an exception in the pool breaks. *)
AppliedToAll == main = "returned" => \A i \in Index : out[i] = i

(* After pool.wait() nobody moves the cursor or writes the vector: the caller
   sees a stable result while the destructor is still joining the workers. *)
StableOnceDrained == [][Drained => UNCHANGED <<next, out>>]_vars

(* parallelMap terminates whatever fn throws: no wake-up of a worker or of
   the waiting caller is lost, and the destructor's join ends. *)
Terminates == <>(main \in {"returned", "raised"})

(* Each step of the pool, and of the loop in its place, is a step of the
   abstract map or is invisible to the caller: a file's result goes to its slot,
   once, in order if in one thread; what throws costs its own result and, at
   most, its task; the caller gets the vector when nothing else is left to come
   of it, and it does get it, or in one thread the exception. *)
AbstractStatus == IF main \in {"returned", "raised"} THEN main ELSE "running"

Map == INSTANCE ParallelMap WITH status <- AbstractStatus, serial <- Sequential,
                                 Tasks <- WorkerCount
MapSpec == Map!Spec
=============================================================================
