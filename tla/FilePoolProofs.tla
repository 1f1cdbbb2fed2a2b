--------------------------- MODULE FilePoolProofs ---------------------------
(***************************************************************************)
(* The pool's safety for every number of files, every thread count and     *)
(* every set of throwing calls, and its implementation of ParallelMap.     *)
(***************************************************************************)
EXTENDS FilePool, FiniteSetTheorems, TLAPS

(* Workers whose task still claims indices: Busy ones that have not reached
   the end of the task. *)
Live == {w \in Workers : worker[w] \in {"claim", "apply"}}

(* How often the cursor was moved past the last file: once per task that
   ended because nothing was left to claim. *)
Excess == IF next > N THEN next - N ELSE 0

(* Which branch of parallelMap the caller's place belongs to, and how far the
   caller is with its submissions there. *)
Flow ==
  /\ main = "enter" => next = 0 /\ lost = {}
  /\ main \in {"enter", "spawn"} => submitted = 0
  /\ \A w \in Workers : w > spawned => worker[w] = "unborn"
  /\ main \in {"sequential", "raised"} => Sequential /\ N # 0
  /\ main \in {"spawn", "submit", "notify", "wait", "asleep", "stop",
               "notifyAll", "join"} => ~Sequential /\ N # 0
  /\ main = "spawn" => spawned < WorkerCount
  /\ main = "submit" => submitted < WorkerCount
  /\ main \in {"wait", "asleep", "stop", "notifyAll", "join"}
        => submitted = WorkerCount
  /\ main = "returned" /\ N # 0 /\ ~Sequential => submitted = WorkerCount
  /\ Sequential \/ N = 0 \/ main = "enter"
        => submitted = 0 /\ spawned = 0 /\ next <= N
  /\ main = "returned" /\ (Sequential \/ N = 0) => next = N
  /\ Sequential /\ lost # {} => main = "raised"
  /\ Drained => tasks = 0 /\ inflight = 0

(* The counter counts, and no submitted task is forgotten: it is queued,
   live, ended past the last file or was killed by a throw. *)
Counting ==
  /\ inflight = Cardinality(Busy)
  /\ tasks + inflight <= submitted
  /\ ~Sequential =>
       Excess + tasks + Cardinality(Live) + Cardinality(lost) = submitted

(* Below the cursor every index is done, lost or held; from the cursor on
   every index is untouched. *)
Cursor ==
  /\ \A i \in Index : i < next =>
       \/ out[i] = i
       \/ i \in lost
       \/ \E w \in Workers : worker[w] = "apply" /\ held[w] = i
  /\ \A i \in Index : i >= next =>
       out[i] = Empty /\ (i \in lost => main = "raised")
  /\ \A w \in Workers : worker[w] = "apply" => held[w] < next

(* The inductive invariant. *)
IInv == TypeOK /\ Flow /\ Counting /\ Cursor /\ ClaimedOnce

-----------------------------------------------------------------------------
(* The thread count is a positive number and bounds the pool. *)
LEMMA Sizes ==
  /\ EffectiveJobs \in Nat \ {0}
  /\ WorkerCount \in 0 .. N
  /\ N # 0 => WorkerCount # 0
  /\ WorkerCount = 0 => Workers = {}
BY NAssumption, JobsAssumption DEF EffectiveJobs, WorkerCount, Workers

(* Every set the invariant counts is finite. *)
LEMMA Finite ==
  ASSUME TypeOK
  PROVE  /\ IsFiniteSet(Busy) /\ Cardinality(Busy) \in Nat
         /\ IsFiniteSet(Live) /\ Cardinality(Live) \in Nat
         /\ IsFiniteSet(lost) /\ Cardinality(lost) \in Nat
<1>1. IsFiniteSet(Workers)
  BY Sizes, NAssumption, FS_Interval DEF Workers
<1>2. IsFiniteSet(0 .. N - 1)
  BY NAssumption, FS_Interval
<1>3. Busy \subseteq Workers /\ Live \subseteq Workers
  BY DEF Busy, Live
<1>4. lost \subseteq 0 .. N - 1
  BY ThrowAssumption DEF TypeOK
<1>5. IsFiniteSet(Busy) /\ IsFiniteSet(Live) /\ IsFiniteSet(lost)
  BY <1>1, <1>2, <1>3, <1>4, FS_Subset
<1> QED
  BY <1>5, FS_CardinalityType

(* Moving one worker changes each count by at most one, as its old and its
   new place say. *)
LEMMA BusyMoves ==
  ASSUME TypeOK, NEW w \in Workers, NEW p \in WorkerPlaces,
         worker' = [worker EXCEPT ![w] = p]
  PROVE  /\ p \in InTask /\ worker[w] \in InTask
              => Cardinality(Busy') = Cardinality(Busy)
         /\ p \in InTask /\ worker[w] \notin InTask
              => Cardinality(Busy') = Cardinality(Busy) + 1
         /\ p \notin InTask /\ worker[w] \in InTask
              => Cardinality(Busy') = Cardinality(Busy) - 1
         /\ p \notin InTask /\ worker[w] \notin InTask
              => Cardinality(Busy') = Cardinality(Busy)
<1>1. p \in InTask => Busy' = Busy \cup {w}
  BY DEF Busy, TypeOK
<1>2. p \notin InTask => Busy' = Busy \ {w}
  BY DEF Busy, TypeOK
<1>3. w \in Busy <=> worker[w] \in InTask
  BY DEF Busy
<1> QED
  BY <1>1, <1>2, <1>3, Finite, FS_AddElement, FS_RemoveElement

LEMMA LiveMoves ==
  ASSUME TypeOK, NEW w \in Workers, NEW p \in WorkerPlaces,
         worker' = [worker EXCEPT ![w] = p]
  PROVE  LET L == {"claim", "apply"} IN
         /\ p \in L /\ worker[w] \in L
              => Cardinality(Live') = Cardinality(Live)
         /\ p \in L /\ worker[w] \notin L
              => Cardinality(Live') = Cardinality(Live) + 1
         /\ p \notin L /\ worker[w] \in L
              => Cardinality(Live') = Cardinality(Live) - 1
         /\ p \notin L /\ worker[w] \notin L
              => Cardinality(Live') = Cardinality(Live)
<1> DEFINE L == {"claim", "apply"}
<1>1. p \in L => Live' = Live \cup {w}
  BY DEF Live, TypeOK
<1>2. p \notin L => Live' = Live \ {w}
  BY DEF Live, TypeOK
<1>3. w \in Live <=> worker[w] \in L
  BY DEF Live
<1> QED
  BY <1>1, <1>2, <1>3, Finite, FS_AddElement, FS_RemoveElement

(* When no worker is in a task the counters are zero. *)
LEMMA NobodyBusy ==
  ASSUME TypeOK, Counting, inflight = 0
  PROVE  Busy = {}
BY Finite, FS_EmptySet DEF Counting

(* The caller's request does not change under way. *)
LEMMA RigidCall == [Next]_vars => Sequential' = Sequential
<1>1. [Next]_vars => UNCHANGED serial
  BY DEF Next, vars, Caller, Work, Over, Enter, SequentialApply, SequentialReturn,
         Spawn, Submit, NotifyOne, Wait, Stop, NotifyAll, Join, Check, Claim, Apply,
         Throw, Finish, SpuriousWorker, SpuriousMain
<1> QED
  BY <1>1 DEF Sequential

-----------------------------------------------------------------------------
(* The steps of the calling thread that move only the thread itself.       *)

LEMMA EnterStep ==
  ASSUME IInv, UNCHANGED Sequential, Enter
  PROVE  IInv'
<1> USE DEF IInv
<1>1. TypeOK'
  BY Sizes, NAssumption DEF TypeOK, Enter, MainPlaces, WorkerPlaces, InTask
<1>2. Flow'
  BY Sizes, NAssumption DEF TypeOK, Flow, Enter, Drained, Counting
<1>3. Counting'
  BY DEF Counting, Enter, Busy, Live, Excess
<1>4. Cursor'
  BY DEF Cursor, Enter, TypeOK
<1>5. ClaimedOnce'
  BY DEF ClaimedOnce, Enter
<1> QED
  BY <1>1, <1>2, <1>3, <1>4, <1>5

LEMMA SequentialReturnStep ==
  ASSUME IInv, UNCHANGED Sequential, SequentialReturn
  PROVE  IInv'
<1> USE DEF IInv
<1>1. TypeOK'
  BY Sizes, NAssumption DEF TypeOK, SequentialReturn, MainPlaces, WorkerPlaces, InTask
<1>2. Flow'
  BY Sizes, NAssumption DEF TypeOK, Flow, SequentialReturn, Drained, Counting, Busy, Live
<1>3. Counting'
  BY DEF Counting, SequentialReturn, Busy, Live, Excess
<1>4. Cursor'
  BY DEF Cursor, SequentialReturn, TypeOK
<1>5. ClaimedOnce'
  BY DEF ClaimedOnce, SequentialReturn
<1> QED
  BY <1>1, <1>2, <1>3, <1>4, <1>5

LEMMA WaitStep ==
  ASSUME IInv, UNCHANGED Sequential, Wait
  PROVE  IInv'
<1> USE DEF IInv
<1>1. TypeOK'
  BY Sizes, NAssumption DEF TypeOK, Wait, MainPlaces, WorkerPlaces, InTask
<1>2. Flow'
  BY Sizes, NAssumption DEF TypeOK, Flow, Wait, Drained, WaitDrained
<1>3. Counting'
  BY DEF Counting, Wait, Busy, Live, Excess
<1>4. Cursor'
  BY DEF Cursor, Wait, TypeOK
<1>5. ClaimedOnce'
  BY DEF ClaimedOnce, Wait
<1> QED
  BY <1>1, <1>2, <1>3, <1>4, <1>5

LEMMA StopStep ==
  ASSUME IInv, UNCHANGED Sequential, Stop
  PROVE  IInv'
<1> USE DEF IInv
<1>1. TypeOK'
  BY Sizes, NAssumption DEF TypeOK, Stop, MainPlaces, WorkerPlaces, InTask
<1>2. Flow'
  BY Sizes, NAssumption DEF TypeOK, Flow, Stop, Drained
<1>3. Counting'
  BY DEF Counting, Stop, Busy, Live, Excess
<1>4. Cursor'
  BY DEF Cursor, Stop, TypeOK
<1>5. ClaimedOnce'
  BY DEF ClaimedOnce, Stop
<1> QED
  BY <1>1, <1>2, <1>3, <1>4, <1>5

LEMMA JoinStep ==
  ASSUME IInv, UNCHANGED Sequential, Join
  PROVE  IInv'
<1> USE DEF IInv
<1>1. TypeOK'
  BY Sizes, NAssumption DEF TypeOK, Join, MainPlaces, WorkerPlaces, InTask
<1>2. Flow'
  BY Sizes, NAssumption DEF TypeOK, Flow, Join, Drained
<1>3. Counting'
  BY DEF Counting, Join, Busy, Live, Excess
<1>4. Cursor'
  BY DEF Cursor, Join, TypeOK
<1>5. ClaimedOnce'
  BY DEF ClaimedOnce, Join
<1> QED
  BY <1>1, <1>2, <1>3, <1>4, <1>5

LEMMA SpuriousMainStep ==
  ASSUME IInv, UNCHANGED Sequential, SpuriousMain
  PROVE  IInv'
<1> USE DEF IInv
<1>1. TypeOK'
  BY Sizes, NAssumption DEF TypeOK, SpuriousMain, MainPlaces, WorkerPlaces, InTask
<1>2. Flow'
  BY Sizes, NAssumption DEF TypeOK, Flow, SpuriousMain, Drained
<1>3. Counting'
  BY DEF Counting, SpuriousMain, Busy, Live, Excess
<1>4. Cursor'
  BY DEF Cursor, SpuriousMain, TypeOK
<1>5. ClaimedOnce'
  BY DEF ClaimedOnce, SpuriousMain
<1> QED
  BY <1>1, <1>2, <1>3, <1>4, <1>5

LEMMA SequentialApplyStep ==
  ASSUME IInv, UNCHANGED Sequential, SequentialApply
  PROVE  IInv'
<1> USE DEF IInv
<1>1. TypeOK'
  BY Sizes, NAssumption DEF TypeOK, SequentialApply, Escapes, MainPlaces, Index
<1>2. Flow'
  BY Sizes, NAssumption DEF TypeOK, Flow, SequentialApply, Escapes, Drained
<1>3. Counting'
  BY DEF Counting, SequentialApply, Escapes, Busy, Live, Flow
<1>4. Cursor'
  BY NAssumption DEF Cursor, SequentialApply, Escapes, TypeOK, Index
<1>5. \A w \in Workers : worker[w] = "unborn"
  BY Sizes DEF Flow, SequentialApply, Escapes, Workers
<1>6. ClaimedOnce'
  BY <1>5 DEF ClaimedOnce, SequentialApply, Escapes
<1> QED
  BY <1>1, <1>2, <1>3, <1>4, <1>6

-----------------------------------------------------------------------------
(* The steps of the calling thread that start, feed or wake workers.       *)

LEMMA SpawnStep ==
  ASSUME IInv, UNCHANGED Sequential, Spawn
  PROVE  IInv'
<1> USE DEF IInv
<1>1. spawned + 1 \in Workers /\ worker[spawned + 1] = "unborn"
  BY Sizes DEF TypeOK, Flow, Spawn, Workers
<1>2. TypeOK'
  BY <1>1, Sizes DEF TypeOK, Spawn, MainPlaces, WorkerPlaces, Workers
<1>3. Flow'
  BY <1>1, Sizes DEF TypeOK, Flow, Spawn, Drained, Workers
<1>4. /\ TypeOK
      /\ spawned + 1 \in Workers
      /\ "check" \in WorkerPlaces
      /\ worker' = [worker EXCEPT ![spawned + 1] = "check"]
      /\ "check" \notin InTask /\ worker[spawned + 1] \notin InTask
  BY <1>1 DEF Spawn, WorkerPlaces, InTask
<1>5. /\ Cardinality(Busy') = Cardinality(Busy)
      /\ Cardinality(Live') = Cardinality(Live)
  BY <1>4, BusyMoves, LiveMoves, Zenon DEF InTask
<1>6. Counting'
  BY <1>5 DEF Counting, Spawn, Excess
<1>7. Cursor'
  BY <1>1 DEF Cursor, Spawn, TypeOK
<1>8. ClaimedOnce'
  BY <1>1 DEF ClaimedOnce, Spawn, TypeOK
<1> QED
  BY <1>2, <1>3, <1>6, <1>7, <1>8

LEMMA SubmitStep ==
  ASSUME IInv, UNCHANGED Sequential, Submit
  PROVE  IInv'
<1> USE DEF IInv
<1>1. Cardinality(Busy) \in Nat /\ Cardinality(Live) \in Nat
      /\ Cardinality(lost) \in Nat
  BY Finite
<1>2. tasks + inflight <= submitted /\ submitted < WorkerCount
  BY DEF Counting, Flow, Submit
<1>3. TypeOK'
  BY <1>2, Sizes DEF TypeOK, Submit, MainPlaces
<1>4. Flow'
  BY Sizes DEF TypeOK, Flow, Submit, Drained
<1>5. Busy' = Busy /\ Live' = Live /\ Excess' = Excess
  BY DEF Submit, Busy, Live, Excess
<1>6. Excess \in Nat
  BY NAssumption, Sizes DEF Excess, TypeOK
<1>7. Counting'
  BY <1>1, <1>2, <1>5, <1>6, Sizes DEF Counting, Submit, TypeOK
<1>8. Cursor'
  BY DEF Cursor, Submit
<1>9. ClaimedOnce'
  BY DEF ClaimedOnce, Submit
<1> QED
  BY <1>3, <1>4, <1>7, <1>8, <1>9

(* Waking a worker that sleeps outside any task disturbs no count. *)
LEMMA WakingIsQuiet ==
  ASSUME TypeOK,
         \A w \in Workers : \/ worker'[w] = worker[w]
                            \/ worker[w] = "asleep" /\ worker'[w] = "check"
  PROVE  Busy' = Busy /\ Live' = Live
BY DEF Busy, Live, InTask

LEMMA NotifyOneStep ==
  ASSUME IInv, UNCHANGED Sequential, NotifyOne
  PROVE  IInv'
<1> USE DEF IInv
<1>1. \A w \in Workers : \/ worker'[w] = worker[w]
                         \/ worker[w] = "asleep" /\ worker'[w] = "check"
  BY DEF NotifyOne, TypeOK
<1>2. Busy' = Busy /\ Live' = Live
  BY <1>1, WakingIsQuiet
<1>3. TypeOK'
  BY DEF TypeOK, NotifyOne, MainPlaces, WorkerPlaces
<1>4. Flow'
  BY <1>1, Sizes DEF TypeOK, Flow, NotifyOne, Drained
<1>5. Counting'
  BY <1>2 DEF Counting, NotifyOne, Excess
<1>6. \A w \in Workers : worker'[w] = "apply" <=> worker[w] = "apply"
  BY <1>1
<1>7. Cursor'
  BY <1>6 DEF Cursor, NotifyOne
<1>8. ClaimedOnce'
  BY <1>6 DEF ClaimedOnce, NotifyOne
<1> QED
  BY <1>3, <1>4, <1>5, <1>7, <1>8

LEMMA NotifyAllStep ==
  ASSUME IInv, UNCHANGED Sequential, NotifyAll
  PROVE  IInv'
<1> USE DEF IInv
<1>1. \A w \in Workers : \/ worker'[w] = worker[w]
                         \/ worker[w] = "asleep" /\ worker'[w] = "check"
  BY DEF NotifyAll
<1>2. Busy' = Busy /\ Live' = Live
  BY <1>1, WakingIsQuiet
<1>3. TypeOK'
  BY DEF TypeOK, NotifyAll, MainPlaces, WorkerPlaces
<1>4. Flow'
  BY <1>1, Sizes DEF TypeOK, Flow, NotifyAll, Drained
<1>5. Counting'
  BY <1>2 DEF Counting, NotifyAll, Excess
<1>6. \A w \in Workers : worker'[w] = "apply" <=> worker[w] = "apply"
  BY <1>1
<1>7. Cursor'
  BY <1>6 DEF Cursor, NotifyAll
<1>8. ClaimedOnce'
  BY <1>6 DEF ClaimedOnce, NotifyAll
<1> QED
  BY <1>3, <1>4, <1>5, <1>7, <1>8

-----------------------------------------------------------------------------
(* The steps of a worker.                                                  *)

LEMMA SpuriousWorkerStep ==
  ASSUME IInv, UNCHANGED Sequential, NEW w \in Workers, SpuriousWorker(w)
  PROVE  IInv'
<1> USE DEF IInv
<1>1. \A v \in Workers : \/ worker'[v] = worker[v]
                         \/ worker[v] = "asleep" /\ worker'[v] = "check"
  BY DEF SpuriousWorker, TypeOK
<1>2. Busy' = Busy /\ Live' = Live
  BY <1>1, WakingIsQuiet
<1>3. TypeOK'
  BY DEF TypeOK, SpuriousWorker, WorkerPlaces
<1>4. Flow'
  BY <1>1 DEF TypeOK, Flow, SpuriousWorker, Drained
<1>5. Counting'
  BY <1>2 DEF Counting, SpuriousWorker, Excess
<1>6. \A v \in Workers : worker'[v] = "apply" <=> worker[v] = "apply"
  BY <1>1
<1>7. Cursor'
  BY <1>6 DEF Cursor, SpuriousWorker
<1>8. ClaimedOnce'
  BY <1>6 DEF ClaimedOnce, SpuriousWorker
<1> QED
  BY <1>3, <1>4, <1>5, <1>7, <1>8

(* A running worker was started in a pooled map of at least one file. *)
LEMMA RunningIsPooled ==
  ASSUME IInv, NEW w \in Workers, worker[w] # "unborn"
  PROVE  ~Sequential /\ N # 0 /\ main # "enter" /\ main # "raised" /\ w <= spawned
BY DEF IInv, Flow, Workers, TypeOK

LEMMA CheckStep ==
  ASSUME IInv, UNCHANGED Sequential, NEW w \in Workers, Check(w)
  PROVE  IInv'
<1> USE DEF IInv
<1> DEFINE p == worker'[w]
<1>1. /\ TypeOK
      /\ p \in {"asleep", "exited", "claim"} /\ p \in WorkerPlaces
      /\ worker' = [worker EXCEPT ![w] = p]
      /\ worker[w] = "check"
  BY DEF Check, TypeOK, WorkerPlaces, InTask
<1>2. Cardinality(Busy') = Cardinality(Busy) + (IF p = "claim" THEN 1 ELSE 0)
  <2>1. Cardinality(Busy) \in Nat
    BY Finite
  <2>2. p \in InTask <=> p = "claim"
    BY <1>1 DEF InTask
  <2>3. worker[w] \notin InTask
    BY <1>1 DEF InTask
  <2>4. /\ p \in InTask => Cardinality(Busy') = Cardinality(Busy) + 1
        /\ p \notin InTask => Cardinality(Busy') = Cardinality(Busy)
    BY <1>1, <2>3, BusyMoves, Zenon
  <2> QED
    BY <2>1, <2>2, <2>4
<1>3. Cardinality(Live') = Cardinality(Live) + (IF p = "claim" THEN 1 ELSE 0)
  <2> DEFINE L == {"claim", "apply"}
  <2>1. Cardinality(Live) \in Nat
    BY Finite
  <2>2. p \in L <=> p = "claim"
    BY <1>1
  <2>3. worker[w] \notin L
    BY <1>1
  <2>4. /\ p \in L => Cardinality(Live') = Cardinality(Live) + 1
        /\ p \notin L => Cardinality(Live') = Cardinality(Live)
    <3> HIDE DEF p
    <3> QED BY <1>1, <2>3, LiveMoves
  <2> QED
    BY <2>1, <2>2, <2>4
<1>4. \/ /\ p = "claim" /\ tasks > 0
         /\ tasks' = tasks - 1 /\ inflight' = inflight + 1
      \/ p # "claim" /\ UNCHANGED <<tasks, inflight>>
  BY DEF Check, TypeOK
<1>5. TypeOK'
  BY <1>1, <1>4, Sizes DEF Check, TypeOK, Counting
<1>6. Flow'
  BY <1>1, <1>4, RunningIsPooled DEF Flow, Check, TypeOK, Drained
<1>7. Counting'
  <2>1. Cardinality(Busy) \in Nat /\ Cardinality(Live) \in Nat
        /\ Cardinality(lost) \in Nat /\ Excess \in Nat
    BY Finite, NAssumption, Sizes DEF Excess, TypeOK
  <2>2. Excess' = Excess /\ lost' = lost /\ submitted' = submitted
        /\ UNCHANGED Sequential
    BY DEF Excess, Check, Sequential
  <2> QED
    BY <1>2, <1>3, <1>4, <2>1, <2>2, Sizes DEF Counting, TypeOK
<1>8. \A v \in Workers : worker'[v] = "apply" <=> worker[v] = "apply"
  BY <1>1 DEF TypeOK
<1>9. Cursor'
  BY <1>8 DEF Cursor, Check
<1>10. ClaimedOnce'
  BY <1>8 DEF ClaimedOnce, Check
<1> QED
  BY <1>5, <1>6, <1>7, <1>9, <1>10

LEMMA ClaimStep ==
  ASSUME IInv, UNCHANGED Sequential, NEW w \in Workers, Claim(w)
  PROVE  IInv'
<1> USE DEF IInv, HasFile, Advanced
<1>1. ~Sequential /\ N # 0 /\ main # "enter" /\ main # "raised" /\ w <= spawned
  BY RunningIsPooled DEF Claim
<1>2. /\ TypeOK /\ worker[w] = "claim"
      /\ "apply" \in WorkerPlaces /\ "finish" \in WorkerPlaces
      /\ worker' = [worker EXCEPT ![w] = IF next < N THEN "apply" ELSE "finish"]
  BY DEF Claim, WorkerPlaces, InTask
<1>3. /\ Cardinality(Busy') = Cardinality(Busy)
      /\ Cardinality(Live') = Cardinality(Live) - (IF next < N THEN 0 ELSE 1)
  <2>1. Cardinality(Busy) \in Nat /\ Cardinality(Live) \in Nat
    BY Finite
  <2>2. "apply" \in InTask /\ "finish" \in InTask /\ worker[w] \in InTask
    BY <1>2 DEF InTask
  <2>3. CASE next < N
    <3>1. worker' = [worker EXCEPT ![w] = "apply"]
      BY <1>2, <2>3
    <3>2. Cardinality(Busy') = Cardinality(Busy)
      BY <1>2, <2>2, <3>1, BusyMoves
    <3>3. Cardinality(Live') = Cardinality(Live)
      BY <1>2, <3>1, LiveMoves
    <3> QED
      BY <2>1, <2>3, <3>2, <3>3
  <2>4. CASE ~(next < N)
    <3>1. worker' = [worker EXCEPT ![w] = "finish"]
      BY <1>2, <2>4
    <3>2. Cardinality(Busy') = Cardinality(Busy)
      BY <1>2, <2>2, <3>1, BusyMoves
    <3>3. Cardinality(Live') = Cardinality(Live) - 1
      BY <1>2, <3>1, LiveMoves
    <3> QED
      BY <2>1, <2>4, <3>2, <3>3
  <2> QED
    BY <2>3, <2>4
<1>4. /\ Cardinality(Live) \in Nat /\ Cardinality(lost) \in Nat
      /\ w \in Live /\ Cardinality(Live) # 0 /\ Excess \in Nat
  <2>1. w \in Live
    BY <1>2 DEF Live
  <2>2. /\ Cardinality(Live) \in Nat /\ Cardinality(lost) \in Nat
        /\ IsFiniteSet(Live)
    BY Finite
  <2>3. Cardinality(Live) # 0
    BY <2>1, <2>2, FS_EmptySet
  <2>4. Excess \in Nat
    BY NAssumption, Sizes DEF Excess, TypeOK
  <2> QED
    BY <2>1, <2>2, <2>3, <2>4
<1>5. next' = next + 1
  BY DEF Claim
<1>6. Excess' = Excess + (IF next < N THEN 0 ELSE 1)
  BY <1>5, NAssumption, Sizes DEF Excess, TypeOK
<1>7. Counting'
  <2>1. UNCHANGED <<tasks, inflight, submitted, lost, Sequential>>
    BY DEF Claim, Sequential
  <2> QED
    BY <1>1, <1>3, <1>4, <1>6, <2>1, Sizes DEF Counting, TypeOK
<1>8. TypeOK'
  <2>1. next + 1 <= N + WorkerCount
    BY <1>1, <1>4, Sizes, NAssumption DEF Counting, Excess, TypeOK
  <2>2. worker' \in [Workers -> WorkerPlaces]
    BY <1>2 DEF TypeOK
  <2>3. held' \in [Workers -> Index]
    BY NAssumption, Sizes DEF Claim, TypeOK, Index
  <2> QED
    BY <1>5, <2>1, <2>2, <2>3, NAssumption, Sizes DEF Claim, TypeOK
<1>9. Flow'
  BY <1>1, <1>2, <1>4 DEF Flow, Claim, TypeOK, Drained, Live, Counting
<1>10. CASE next < N
  <2>1. worker' = [worker EXCEPT ![w] = "apply"] /\ held' = [held EXCEPT ![w] = next]
    BY <1>10 DEF Claim
  <2>2. /\ UNCHANGED <<out, lost, main>> /\ next \in Index
    BY <1>10, NAssumption, Sizes DEF Claim, TypeOK, Index
  <2>3. out[next] = Empty /\ next \notin lost
    BY <1>1, <2>2, Sizes, NAssumption DEF Cursor, TypeOK
  <2>4. Cursor'
    <3>1. worker'[w] = "apply" /\ held'[w] = next
      BY <2>1 DEF TypeOK
    <3>2. \A v \in Workers \ {w} : worker'[v] = worker[v] /\ held'[v] = held[v]
      BY <2>1 DEF TypeOK
    <3>3. ASSUME NEW i \in Index, i < next'
          PROVE  \/ out'[i] = i
                 \/ i \in lost'
                 \/ \E v \in Workers : worker'[v] = "apply" /\ held'[v] = i
      <4>1. CASE i = next
        BY <3>1, <4>1
      <4>2. CASE i < next
        BY <1>2, <2>2, <3>2, <4>2 DEF Cursor
      <4> QED
        BY <1>5, <3>3, <4>1, <4>2, NAssumption, Sizes DEF Index, TypeOK
    <3>4. \A i \in Index : i >= next' =>
            out'[i] = Empty /\ (i \in lost' => main' = "raised")
      BY <1>5, <2>2, NAssumption, Sizes DEF Cursor, Index, TypeOK
    <3>5. \A v \in Workers : worker'[v] = "apply" => held'[v] < next'
      BY <1>5, <3>1, <3>2, NAssumption, Sizes DEF Cursor, Index, TypeOK
    <3> QED
      BY <3>3, <3>4, <3>5 DEF Cursor
  <2>5. ClaimedOnce'
    <3> SUFFICES ASSUME NEW v \in Workers, worker'[v] = "apply"
                 PROVE  /\ out[held'[v]] = Empty
                        /\ held'[v] \notin lost
                        /\ \A u \in Workers \ {v} :
                             worker'[u] = "apply" => held'[u] # held'[v]
      BY <2>2 DEF ClaimedOnce
    <3>1. \A u \in Workers \ {w} :
            /\ worker'[u] = worker[u] /\ held'[u] = held[u]
            /\ worker[u] = "apply" => held[u] # next
      BY <2>1, Sizes, NAssumption DEF TypeOK, Cursor, Index
    <3>2. held'[w] = next
      BY <2>1 DEF TypeOK
    <3> QED
      BY <2>3, <3>1, <3>2 DEF ClaimedOnce
  <2> QED
    BY <1>7, <1>8, <1>9, <2>4, <2>5
<1>11. CASE ~(next < N)
  <2>1. worker' = [worker EXCEPT ![w] = "finish"] /\ UNCHANGED <<out, lost, main, held>>
    BY <1>11 DEF Claim
  <2>2. \A v \in Workers : worker'[v] = "apply" <=> worker[v] = "apply"
    BY <1>2, <2>1 DEF TypeOK
  <2>3. Cursor'
    BY <1>5, <1>11, <2>1, <2>2, Sizes, NAssumption DEF Cursor, TypeOK, Index
  <2>4. ClaimedOnce'
    BY <2>1, <2>2 DEF ClaimedOnce
  <2> QED
    BY <1>7, <1>8, <1>9, <2>3, <2>4
<1> QED
  BY <1>10, <1>11

LEMMA ApplyStep ==
  ASSUME IInv, UNCHANGED Sequential, NEW w \in Workers, Apply(w)
  PROVE  IInv'
<1> USE DEF IInv, Slot
<1>1. ~Sequential /\ N # 0 /\ main # "enter" /\ main # "raised" /\ w <= spawned
  BY RunningIsPooled DEF Apply
<1>2. /\ TypeOK /\ worker[w] = "apply" /\ "claim" \in WorkerPlaces
      /\ worker' = [worker EXCEPT ![w] = "claim"]
      /\ held[w] \in Index /\ held[w] < next
      /\ out' = [out EXCEPT ![held[w]] = held[w]]
  BY DEF Apply, WorkerPlaces, InTask, TypeOK, Cursor
<1>3. /\ Cardinality(Busy') = Cardinality(Busy)
      /\ Cardinality(Live') = Cardinality(Live)
  <2>1. "claim" \in InTask /\ worker[w] \in InTask
    BY <1>2 DEF InTask
  <2> QED
    BY <1>2, <2>1, BusyMoves, LiveMoves
<1>4. TypeOK'
  BY <1>2 DEF TypeOK, Apply
<1>5. Flow'
  BY <1>1, <1>2 DEF Flow, Apply, TypeOK, Drained
<1>6. Counting'
  BY <1>3 DEF Counting, Apply, Excess
<1>7. \A v \in Workers \ {w} : worker'[v] = worker[v]
  BY <1>2 DEF TypeOK
<1>8. worker'[w] = "claim"
  BY <1>2 DEF TypeOK
<1>9. \A i \in Index : out'[i] = IF i = held[w] THEN i ELSE out[i]
  BY <1>2 DEF TypeOK
<1>10. UNCHANGED <<next, lost, held, main>>
  BY DEF Apply
<1>11. Cursor'
  BY <1>2, <1>7, <1>8, <1>9, <1>10, Sizes, NAssumption DEF Cursor, TypeOK, Index
<1>12. ClaimedOnce'
  BY <1>2, <1>7, <1>8, <1>9, <1>10 DEF ClaimedOnce, TypeOK
<1> QED
  BY <1>4, <1>5, <1>6, <1>11, <1>12

LEMMA ThrowStep ==
  ASSUME IInv, UNCHANGED Sequential, NEW w \in Workers, Throw(w)
  PROVE  IInv'
<1> USE DEF IInv
<1>1. ~Sequential /\ N # 0 /\ main # "enter" /\ main # "raised" /\ w <= spawned
  BY RunningIsPooled DEF Throw
<1>2. /\ TypeOK /\ worker[w] = "apply" /\ "finish" \in WorkerPlaces
      /\ worker' = [worker EXCEPT ![w] = "finish"]
      /\ held[w] \in Index /\ held[w] < next
      /\ held[w] \notin lost /\ held[w] \in MayThrow
      /\ lost' = lost \cup {held[w]}
  BY DEF Throw, WorkerPlaces, InTask, TypeOK, Cursor, ClaimedOnce
<1>3. /\ Cardinality(Busy') = Cardinality(Busy)
      /\ Cardinality(Live') = Cardinality(Live) - 1
  <2>1. "finish" \in InTask /\ worker[w] \in InTask
    BY <1>2 DEF InTask
  <2> QED
    BY <1>2, <2>1, BusyMoves, LiveMoves
<1>4. Cardinality(lost') = Cardinality(lost) + 1
  BY <1>2, Finite, FS_AddElement
<1>5. TypeOK'
  BY <1>2 DEF TypeOK, Throw
<1>6. Flow'
  BY <1>1, <1>2 DEF Flow, Throw, TypeOK, Drained
<1>7. Counting'
  <2>1. UNCHANGED <<tasks, inflight, submitted, Sequential, Excess>>
    BY DEF Throw, Sequential, Excess
  <2>2. Cardinality(Live) \in Nat /\ Cardinality(lost) \in Nat /\ Excess \in Nat
    BY Finite, NAssumption, Sizes DEF Excess, TypeOK
  <2> QED
    BY <1>3, <1>4, <2>1, <2>2, Sizes DEF Counting, TypeOK
<1>8. \A v \in Workers \ {w} : worker'[v] = worker[v]
  BY <1>2 DEF TypeOK
<1>9. worker'[w] = "finish"
  BY <1>2 DEF TypeOK
<1>10. UNCHANGED <<next, out, held, main>>
  BY DEF Throw
<1>11. Cursor'
  BY <1>2, <1>8, <1>9, <1>10, Sizes, NAssumption DEF Cursor, TypeOK, Index
<1>12. ClaimedOnce'
  BY <1>2, <1>8, <1>9, <1>10 DEF ClaimedOnce
<1> QED
  BY <1>5, <1>6, <1>7, <1>11, <1>12

LEMMA FinishStep ==
  ASSUME IInv, UNCHANGED Sequential, NEW w \in Workers, Finish(w)
  PROVE  IInv'
<1> USE DEF IInv
<1>1. ~Sequential /\ N # 0 /\ main # "enter" /\ main # "raised" /\ w <= spawned
  BY RunningIsPooled DEF Finish
<1>2. /\ TypeOK /\ worker[w] = "finish" /\ "check" \in WorkerPlaces
      /\ worker' = [worker EXCEPT ![w] = "check"]
  BY DEF Finish, WorkerPlaces
<1>3. /\ Cardinality(Busy') = Cardinality(Busy) - 1
      /\ Cardinality(Live') = Cardinality(Live)
  <2>1. "check" \notin InTask /\ worker[w] \in InTask
    BY <1>2 DEF InTask
  <2> QED
    BY <1>2, <2>1, BusyMoves, LiveMoves
<1>4. Cardinality(Busy) \in Nat \ {0}
  <2>1. w \in Busy
    BY <1>2 DEF Busy, InTask
  <2> QED
    BY <2>1, Finite, FS_EmptySet
<1>5. inflight \in Nat \ {0} /\ inflight' = inflight - 1
  BY <1>4 DEF Counting, Finish
<1>6. TypeOK'
  BY <1>2, <1>5, Sizes DEF TypeOK, Finish, MainPlaces
<1>7. Flow'
  BY <1>1, <1>2, <1>5 DEF Flow, Finish, TypeOK, Drained
<1>8. Counting'
  <2>1. UNCHANGED <<tasks, submitted, lost, Sequential, Excess>>
    BY DEF Finish, Sequential, Excess
  <2> QED
    BY <1>3, <1>5, <2>1, Sizes DEF Counting, TypeOK
<1>9. \A v \in Workers : worker'[v] = "apply" <=> worker[v] = "apply"
  BY <1>2 DEF TypeOK
<1>10. Cursor'
  BY <1>1, <1>9 DEF Cursor, Finish
<1>11. ClaimedOnce'
  BY <1>9 DEF ClaimedOnce, Finish
<1> QED
  BY <1>6, <1>7, <1>8, <1>10, <1>11

-----------------------------------------------------------------------------
(* The invariant holds initially and every step preserves it.              *)

LEMMA InitIInv == Init => IInv
<1> SUFFICES ASSUME Init PROVE IInv
  OBVIOUS
<1>1. Busy = {} /\ Live = {}
  BY DEF Init, Busy, Live, InTask
<1>2. TypeOK
  <2>1. Workers # {} => 0 \in Index
    BY Sizes, NAssumption DEF Index, Workers
  <2>2. held \in [Workers -> Index]
    BY <2>1 DEF Init
  <2>3. /\ worker \in [Workers -> WorkerPlaces]
        /\ out \in [Index -> Index \cup {Empty}]
    BY DEF Init, WorkerPlaces
  <2>4. main \in MainPlaces
    BY DEF Init, MainPlaces
  <2>5. /\ spawned \in 0 .. WorkerCount /\ submitted \in 0 .. WorkerCount
        /\ tasks \in 0 .. WorkerCount /\ inflight \in 0 .. WorkerCount
        /\ next \in 0 .. N + WorkerCount
    BY Sizes, NAssumption DEF Init
  <2>6. stopping \in BOOLEAN /\ lost \subseteq MayThrow /\ serial \in BOOLEAN
    BY DEF Init
  <2> QED
    BY <2>2, <2>3, <2>4, <2>5, <2>6 DEF TypeOK
<1>3. Flow
  BY NAssumption DEF Init, Flow, Drained
<1>4. Counting
  BY <1>1, FS_EmptySet, NAssumption DEF Init, Counting, Excess
<1>5. Cursor /\ ClaimedOnce
  BY NAssumption DEF Init, Cursor, ClaimedOnce, Index
<1> QED
  BY <1>2, <1>3, <1>4, <1>5 DEF IInv

LEMMA NextIInv == IInv /\ [Next]_vars => IInv'
<1> SUFFICES ASSUME IInv, [Next]_vars PROVE IInv'
  OBVIOUS
<1>0. UNCHANGED Sequential
  BY RigidCall
<1>1. CASE Caller
  BY <1>0, <1>1, EnterStep, SequentialApplyStep, SequentialReturnStep, SpawnStep,
     SubmitStep, NotifyOneStep, WaitStep, StopStep, NotifyAllStep, JoinStep
     DEF Caller
<1>2. ASSUME NEW w \in Workers, Work(w) PROVE IInv'
  BY <1>0, <1>2, CheckStep, ClaimStep, ApplyStep, ThrowStep, FinishStep DEF Work
<1>3. ASSUME NEW w \in Workers, SpuriousWorker(w) PROVE IInv'
  BY <1>0, <1>3, SpuriousWorkerStep
<1>4. CASE SpuriousMain
  BY <1>0, <1>4, SpuriousMainStep
<1>5. CASE UNCHANGED vars
  BY <1>0, <1>5 DEF vars, IInv, TypeOK, Flow, Counting, Cursor, ClaimedOnce, Busy,
              Live, Excess, Drained
<1> QED
  BY <1>1, <1>2, <1>3, <1>4, <1>5 DEF Next, Over

LEMMA Inductive == Spec => []IInv
BY InitIInv, NextIInv, PTL DEF Spec

-----------------------------------------------------------------------------
(* Every variable of the pool keeps its type: in particular the in-flight
   counter never goes below zero and the cursor moves past the last file at
   most once per submitted task. *)
THEOREM TypeCorrect == Spec => []TypeOK
<1>1. IInv => TypeOK
  BY DEF IInv
<1> QED
  BY <1>1, Inductive, PTL

(* No index is worked on by two workers or twice, for any number of files,
   workers and throwing calls. *)
THEOREM EachClaimedOnce == Spec => []ClaimedOnce
<1>1. IInv => ClaimedOnce
  BY DEF IInv
<1> QED
  BY <1>1, Inductive, PTL

(* When the waiting caller proceeds, nothing is queued and no worker is in a
   task: the locals the tasks capture by reference may die. *)
THEOREM DrainIsQuiet == Spec => []QuietOnceDrained
<1>1. IInv => QuietOnceDrained
  BY NobodyBusy DEF IInv, QuietOnceDrained, Flow
<1> QED
  BY <1>1, Inductive, PTL

(* A missing result belongs to a call that threw, or every claiming task was
   killed by a throw. *)
LEMMA Accounted == IInv => MissingWereLost
<1>1. ASSUME IInv, main = "returned" 
      PROVE  \/ \A i \in Index : out[i] = i \/ i \in lost
             \/ ~Sequential /\ Cardinality(lost) = WorkerCount
  <2> USE DEF IInv
  <2>1. tasks = 0 /\ inflight = 0 /\ Busy = {}
    BY <1>1, NobodyBusy DEF Flow, Drained
  <2>2. \A w \in Workers : worker[w] # "apply"
    BY <2>1 DEF Busy, InTask
  <2>3. CASE next >= N
    BY <1>1, <2>2, <2>3, NAssumption, Sizes DEF Cursor, Index, TypeOK
  <2>4. CASE next < N
    <3>1. N # 0 /\ ~Sequential /\ submitted = WorkerCount
      BY <1>1, <2>4, NAssumption, Sizes DEF Flow, TypeOK
    <3>2. Live = {}
      BY <2>1 DEF Live, Busy, InTask
    <3>3. Cardinality(Live) = 0
      BY <3>2, FS_EmptySet
    <3>4. Excess = 0
      BY <1>1, <2>4, NAssumption, Sizes DEF Excess, TypeOK
    <3>5. 0 + 0 + 0 + Cardinality(lost) = WorkerCount
      BY <1>1, <2>1, <3>1, <3>3, <3>4 DEF Counting
    <3>6. Cardinality(lost) \in Nat
      BY <1>1, Finite
    <3> QED
      BY <3>1, <3>5, <3>6
  <2> QED
    BY <1>1, <2>3, <2>4, NAssumption, Sizes DEF TypeOK
<1> QED
  BY <1>1 DEF MissingWereLost

(* Whatever fn throws, no result is lost but those of the throwing calls,
   unless every claiming task of the pool was killed by a throw. *)
THEOREM LossesAreAccounted == Spec => []MissingWereLost
BY Accounted, Inductive, PTL

(* From the end of pool.wait() on, the cursor and the result vector are left
   alone while the destructor stops and joins the workers. *)
THEOREM ResultIsStable == Spec => StableOnceDrained
<1>1. IInv /\ [Next]_vars => [Drained => UNCHANGED <<next, out>>]_vars
  <2> SUFFICES ASSUME IInv, Next, Drained PROVE UNCHANGED <<next, out>>
    OBVIOUS
  <2>1. Busy = {}
    BY NobodyBusy DEF IInv, Flow
  <2>2. \A w \in Workers : ~Claim(w) /\ ~Apply(w)
    BY <2>1 DEF Busy, InTask, Claim, Apply
  <2>3. ~SequentialApply
    BY DEF Drained, SequentialApply, Escapes
  <2>4. CASE Caller
    BY <2>3, <2>4 DEF Caller, Enter, SequentialReturn, Spawn, Submit, NotifyOne,
                Wait, Stop, NotifyAll, Join
  <2>5. ASSUME NEW w \in Workers, Work(w) PROVE UNCHANGED <<next, out>>
    BY <2>2, <2>5 DEF Work, Check, Throw, Finish
  <2>6. ASSUME NEW w \in Workers, SpuriousWorker(w) PROVE UNCHANGED <<next, out>>
    BY <2>6 DEF SpuriousWorker
  <2> QED
    BY <2>4, <2>5, <2>6 DEF Next, SpuriousMain, Over, vars
<1> QED
  BY <1>1, Inductive, PTL DEF Spec, StableOnceDrained

-----------------------------------------------------------------------------
(* When the map is sequential or no call can throw, a returned map is
   complete: the comment on parallelMap holds exactly there. *)
LEMMA CompleteWhenNothingLost ==
  ASSUME IInv, MayThrow = {} \/ Sequential
  PROVE  AppliedToAll
<1> SUFFICES ASSUME main = "returned"
             PROVE  \A i \in Index : out[i] = i
  BY DEF AppliedToAll
<1>1. lost = {}
  BY DEF IInv, Flow, TypeOK
<1>2. WorkerCount = 0 => Index = {}
  BY Sizes, NAssumption DEF Index
<1>3. \/ \A i \in Index : out[i] = i
      \/ WorkerCount = 0
  BY <1>1, Accounted, FS_EmptySet DEF MissingWereLost
<1> QED
  BY <1>2, <1>3

(* With no throwing call, or on one thread, every file has its result in its
   own slot when parallelMap returns. *)
THEOREM CompleteResults == Spec => [](MayThrow = {} \/ Sequential => AppliedToAll)
<1>1. IInv => (MayThrow = {} \/ Sequential => AppliedToAll)
  BY CompleteWhenNothingLost
<1> QED
  BY <1>1, Inductive, PTL

(* A worker that applies fn is in the pool, and one of the claiming tasks is
   its own: fewer than all have ended by an exception. *)
LEMMA TaskIsLeft ==
  ASSUME IInv, NEW w \in Workers, worker[w] = "apply"
  PROVE  ~Sequential /\ Cardinality(lost) < WorkerCount
<1> USE DEF IInv
<1>1. ~Sequential
  BY RunningIsPooled
<1>2. Live # {} /\ IsFiniteSet(Live) /\ Cardinality(Live) \in Nat
  BY Finite DEF Live
<1>3. Cardinality(Live) # 0
  BY <1>2, FS_EmptySet
<1>4. Excess \in Nat /\ tasks \in Nat /\ Cardinality(lost) \in Nat
      /\ submitted \in 0 .. WorkerCount
  BY Finite, Sizes, NAssumption DEF Excess, TypeOK
<1>5. Excess + tasks + Cardinality(Live) + Cardinality(lost) = submitted
  BY <1>1 DEF Counting
<1> QED
  BY <1>1, <1>2, <1>3, <1>4, <1>5, Sizes

(* What the abstract map counts is what the pool counts. *)
LEMMA SameCount == \A S : Map!Cardinality(S) = Cardinality(S)
BY DEF Map!Cardinality, Cardinality

(* The pool implements the abstract map, whatever throws: every step is a call
   of fn for one fresh file that fills its slot, costs its result and its task
   or, in one thread, reaches the caller; or the return of what there is; or is
   invisible to the caller. *)
THEOREM Implements == Spec => Map!Init /\ [][Map!Next]_(Map!vars)
<1> USE DEF AbstractStatus
<1>1. Init => Map!Init
  BY DEF Init, Map!Init, Index, Map!Index, Sequential
<1>2. IInv' => MissingWereLost'
  BY Accounted, PTL
<1>3. ASSUME IInv, IInv', [Next]_vars PROVE [Map!Next]_(Map!vars)
  <2> USE DEF IInv
  <2>1. Index = Map!Index
    BY DEF Index, Map!Index
  <2>2. Sequential' = Sequential
    BY <1>3, RigidCall
  <2>3. ASSUME main' = "returned", main \notin {"returned", "raised"},
               UNCHANGED <<out, lost>>
        PROVE  Map!Return
    <3>1. MissingWereLost'
      BY <1>2, <1>3
    <3>2. Sequential => lost' = {}
      BY <1>3, <2>2, <2>3 DEF Flow
    <3> QED
      BY <2>1, <2>2, <2>3, <3>1, <3>2, SameCount DEF MissingWereLost, Map!Return
  <2>4. ASSUME UNCHANGED <<out, lost>>,
               \/ UNCHANGED main
               \/ /\ main \notin {"returned", "raised"}
                  /\ main' \notin {"returned", "raised"}
        PROVE  UNCHANGED Map!vars
    BY <2>2, <2>4 DEF Map!vars
  <2>5. CASE Enter
    BY <2>3, <2>4, <2>5 DEF Enter, Map!Next
  <2>6. CASE SequentialApply
    <3>1. Sequential /\ lost = {}
      BY <1>3, <2>6 DEF SequentialApply, Flow
    <3>2. next \in Index /\ out[next] = Empty
      BY <1>3, <2>6, NAssumption, Sizes
         DEF SequentialApply, Cursor, TypeOK, Index
    <3>3. \A j \in Index : j < next => out[j] = j
      BY <1>3, <3>1, RunningIsPooled DEF Cursor
    <3>4. Map!Called(next)
      BY <2>1, <2>6, <3>1, <3>2, <3>3 DEF SequentialApply, Map!Called
    <3>5. CASE out' = [out EXCEPT ![next] = next] /\ UNCHANGED <<main, lost>>
      BY <2>1, <2>2, <3>2, <3>4, <3>5 DEF Map!Next, Map!Apply
    <3>6. CASE /\ next \in MayThrow /\ main' = "raised" /\ UNCHANGED out
               /\ lost' = lost \cup {next}
      BY <2>1, <2>2, <3>1, <3>2, <3>4, <3>6 DEF Map!Next, Map!Raise
    <3> QED
      BY <2>6, <3>5, <3>6 DEF SequentialApply, Escapes
  <2>7. CASE SequentialReturn
    BY <2>3, <2>7 DEF SequentialReturn, Map!Next
  <2>8. CASE Spawn \/ Submit \/ NotifyOne \/ Wait \/ Stop \/ NotifyAll
    BY <2>4, <2>8 DEF Spawn, Submit, NotifyOne, Wait, Stop, NotifyAll
  <2>9. CASE Join
    BY <2>3, <2>9 DEF Join, Map!Next
  <2>10. ASSUME NEW w \in Workers, worker[w] = "apply"
         PROVE  Map!Called(held[w]) /\ held[w] \in Map!Index /\ ~Sequential
                /\ main \notin {"returned", "raised"}
    <3>1. held[w] \in Index /\ out[held[w]] = Empty /\ held[w] \notin lost
      BY <1>3, <2>10 DEF ClaimedOnce, TypeOK
    <3>2. main \notin {"returned", "raised"} /\ ~Sequential
      BY <1>3, <2>10, NobodyBusy, RunningIsPooled DEF Flow, Drained, Busy, InTask
    <3> QED
      BY <2>1, <3>1, <3>2 DEF Map!Called
  <2>11. ASSUME NEW w \in Workers, Apply(w) PROVE Map!Next
    <3>1. Map!Apply(held[w])
      BY <2>2, <2>10, <2>11 DEF Apply, Slot, Map!Apply
    <3> QED
      BY <2>10, <2>11, <3>1 DEF Apply, Map!Next
  <2>12. ASSUME NEW w \in Workers, Throw(w) PROVE Map!Next
    <3>1. Map!Lose(held[w])
      BY <1>3, <2>2, <2>10, <2>12, TaskIsLeft, SameCount DEF Throw, Map!Lose
    <3> QED
      BY <2>10, <2>12, <3>1 DEF Throw, Map!Next
  <2>13. ASSUME NEW w \in Workers, Check(w) \/ Claim(w) \/ SpuriousWorker(w)
         PROVE  UNCHANGED Map!vars
    BY <2>4, <2>13 DEF Check, Claim, SpuriousWorker
  <2>14. ASSUME NEW w \in Workers, Finish(w)
         PROVE  UNCHANGED Map!vars
    BY <2>4, <2>14 DEF Finish
  <2>15. CASE SpuriousMain
    BY <2>4, <2>15 DEF SpuriousMain
  <2>16. CASE UNCHANGED vars
    BY <2>4, <2>16 DEF vars
  <2> QED
    BY <1>3, <2>5, <2>6, <2>7, <2>8, <2>9, <2>11, <2>12, <2>13, <2>14, <2>15,
       <2>16 DEF Next, Caller, Work, Over
<1> QED
  BY <1>1, <1>3, Inductive, PTL DEF Spec

-----------------------------------------------------------------------------
(* No wake-up is lost.  A place holds no more workers than there are.      *)

LEMMA PopulationType ==
  ASSUME NEW f
  PROVE  \A q : Population(f, q) \in 0 .. WorkerCount
<1>1. IsFiniteSet(Workers) /\ Cardinality(Workers) = WorkerCount
  BY Sizes, NAssumption, FS_Interval DEF Workers
<1>2. ASSUME NEW q PROVE Population(f, q) \in 0 .. WorkerCount
  <2> DEFINE There == {w \in Workers : f[w] = q}
  <2>1. There \subseteq Workers
    OBVIOUS
  <2>2. IsFiniteSet(There) /\ Cardinality(There) <= WorkerCount
    BY <1>1, <2>1, FS_Subset
  <2>3. QED
    BY <2>2, Sizes, NAssumption, FS_CardinalityType DEF Population
<1>3. QED
  BY <1>2

(* A worker that moves leaves one place and enters one. *)
LEMMA OneMoves ==
  ASSUME NEW f, NEW g, NEW w \in Workers, \A v \in Workers \ {w} : g[v] = f[v]
  PROVE  \A q : /\ q = g[w] /\ q = f[w] => Population(g, q) = Population(f, q)
                /\ q = g[w] /\ q # f[w] => Population(g, q) = Population(f, q) + 1
                /\ q # g[w] /\ q = f[w] => Population(g, q) = Population(f, q) - 1
                /\ q # g[w] /\ q # f[w] => Population(g, q) = Population(f, q)
<1> SUFFICES ASSUME NEW q
             PROVE  /\ q = g[w] /\ q = f[w] => Population(g, q) = Population(f, q)
                    /\ q = g[w] /\ q # f[w] => Population(g, q) = Population(f, q) + 1
                    /\ q # g[w] /\ q = f[w] => Population(g, q) = Population(f, q) - 1
                    /\ q # g[w] /\ q # f[w] => Population(g, q) = Population(f, q)
  OBVIOUS
<1> DEFINE Before == {v \in Workers : f[v] = q}
           After == {v \in Workers : g[v] = q}
<1>1. IsFiniteSet(Before)
  <2>1. IsFiniteSet(Workers) /\ Before \subseteq Workers
    BY Sizes, NAssumption, FS_Interval DEF Workers
  <2>2. QED
    BY <2>1, FS_Subset
<1>2. w \in Before <=> q = f[w]
  OBVIOUS
<1>3. q = g[w] => After = Before \cup {w}
  OBVIOUS
<1>4. q # g[w] => After = Before \ {w}
  OBVIOUS
<1>5. Cardinality(Before) = Population(f, q) /\ Cardinality(After) = Population(g, q)
  BY DEF Population
<1> HIDE DEF Before, After
<1>6. QED
  BY <1>1, <1>2, <1>3, <1>4, <1>5, FS_AddElement, FS_RemoveElement

LEMMA OneSteps ==
  ASSUME NEW w \in Workers, \A v \in Workers \ {w} : worker'[v] = worker[v]
  PROVE  LET now(q) == Population(worker, q)
             then(q) == Population(worker', q)
         IN  \A q : /\ q = worker'[w] /\ q = worker[w] => then(q) = now(q)
                    /\ q = worker'[w] /\ q # worker[w] => then(q) = now(q) + 1
                    /\ q # worker'[w] /\ q = worker[w] => then(q) = now(q) - 1
                    /\ q # worker'[w] /\ q # worker[w] => then(q) = now(q)
BY OneMoves

LEMMA WorkerMoves ==
  ASSUME worker \in [Workers -> WorkerPlaces], NEW w \in Workers, NEW p,
         worker' = [worker EXCEPT ![w] = p]
  PROVE  LET now(q) == Population(worker, q)
             then(q) == Population(worker', q)
         IN  \A q : /\ q = p /\ q = worker[w] => then(q) = now(q)
                    /\ q = p /\ q # worker[w] => then(q) = now(q) + 1
                    /\ q # p /\ q = worker[w] => then(q) = now(q) - 1
                    /\ q # p /\ q # worker[w] => then(q) = now(q)
<1>1. worker'[w] = p /\ \A v \in Workers \ {w} : worker'[v] = worker[v]
  OBVIOUS
<1>2. QED
  BY <1>1, OneSteps

(* How the stop flag, the places of the workers and the caller go together:
   with it NobodyWaitsInVain is inductive. *)
Shutdown ==
  /\ main \in {"notifyAll", "join"} => stopping
  /\ stopping => main \in {"notifyAll", "join", "returned"}
  /\ \A w \in Workers :
       /\ worker[w] = "exited" => stopping
       /\ worker[w] = "unborn" => w > spawned
       /\ main = "returned" => worker[w] \in {"unborn", "exited"}
  /\ main \in {"submit", "notify", "wait", "asleep", "stop", "notifyAll", "join"}
        => spawned = WorkerCount

WakeInv == IInv /\ Shutdown /\ NobodyWaitsInVain

LEMMA InitWake == Init => WakeInv
<1> SUFFICES ASSUME Init PROVE WakeInv
  OBVIOUS
<1>1. Shutdown /\ NobodyWaitsInVain
  BY Sizes DEF Init, Shutdown, NobodyWaitsInVain, Workers
<1>2. QED
  BY <1>1, InitIInv DEF WakeInv

(* The steps that leave the workers alone. *)
LEMMA CallerWake ==
  ASSUME WakeInv, IInv',
         \/ Enter \/ SequentialApply \/ SequentialReturn \/ Submit \/ Wait \/ Stop
         \/ Join \/ SpuriousMain \/ UNCHANGED vars
  PROVE  Shutdown' /\ NobodyWaitsInVain'
<1> USE DEF WakeInv
<1>1. Population(worker, "check") \in Nat /\ tasks \in Nat /\ inflight \in Nat /\ tasks' \in Nat
  BY PopulationType, Sizes DEF IInv, TypeOK
<1>2. UNCHANGED worker
  BY DEF Enter, SequentialApply, SequentialReturn, Submit, Wait, Stop, Join, SpuriousMain,
         vars
<1>3. Population(worker, "check")' = Population(worker, "check")
  BY <1>2
<1>4. CASE Enter
  <2>1. \A w \in Workers : worker[w] = "unborn"
    BY <1>4, Sizes DEF IInv, Flow, Enter, Workers
  <2>2. QED
    BY <1>4, <2>1 DEF Enter, Shutdown, NobodyWaitsInVain
<1>5. CASE SequentialApply \/ SequentialReturn
  <2>1. \A w \in Workers : worker[w] = "unborn"
    BY <1>5, Sizes DEF IInv, Flow, SequentialApply, SequentialReturn, Workers
  <2>2. main' \in {"sequential", "returned", "raised"}
    BY <1>5 DEF SequentialApply, SequentialReturn, Escapes
  <2>3. UNCHANGED <<stopping, worker, spawned>>
    BY <1>5 DEF SequentialApply, SequentialReturn
  <2>4. ~stopping
    BY <1>5 DEF Shutdown, SequentialApply, SequentialReturn
  <2>5. QED
    BY <2>1, <2>2, <2>3, <2>4 DEF Shutdown, NobodyWaitsInVain
<1>6. CASE Submit
  BY <1>1, <1>3, <1>6 DEF Submit, Shutdown, NobodyWaitsInVain, Unannounced
<1>7. CASE Wait
  BY <1>1, <1>3, <1>7 DEF Wait, WaitDrained, Shutdown, NobodyWaitsInVain, Unannounced
<1>8. CASE Stop
  BY <1>1, <1>3, <1>8 DEF Stop, Shutdown, NobodyWaitsInVain, Unannounced
<1>9. CASE Join
  BY <1>9 DEF Join, Shutdown, NobodyWaitsInVain
<1>10. CASE SpuriousMain
  BY <1>1, <1>3, <1>10 DEF SpuriousMain, Shutdown, NobodyWaitsInVain, Unannounced
<1>11. CASE UNCHANGED vars
  BY <1>3, <1>11 DEF vars, Shutdown, NobodyWaitsInVain, Unannounced
<1>12. QED
  BY <1>4, <1>5, <1>6, <1>7, <1>8, <1>9, <1>10, <1>11

(* Spawning and waking bring workers to the queue. *)
LEMMA BringingWake ==
  ASSUME WakeInv, IInv',
         Spawn \/ NotifyOne \/ NotifyAll \/ \E w \in Workers : SpuriousWorker(w)
  PROVE  Shutdown' /\ NobodyWaitsInVain'
<1> USE DEF WakeInv
<1>1. /\ Population(worker, "check") \in Nat /\ tasks \in Nat
      /\ TypeOK /\ worker \in [Workers -> WorkerPlaces]
  BY PopulationType, Sizes DEF IInv, TypeOK
<1>2. CASE Spawn
  <2>1. spawned + 1 \in Workers /\ worker[spawned + 1] = "unborn"
    BY <1>2, Sizes DEF IInv, TypeOK, Flow, Spawn, Workers
  <2>2. Population(worker', "check") = Population(worker, "check") + 1
    BY <1>1, <1>2, <2>1, WorkerMoves DEF Spawn
  <2>3. Shutdown'
    BY <1>1, <1>2, <2>1, Sizes DEF IInv, TypeOK, Flow, Spawn, Shutdown, Workers
  <2>4. NobodyWaitsInVain'
    BY <1>1, <1>2, <2>1, <2>2 DEF Spawn, NobodyWaitsInVain, Unannounced
  <2>5. QED
    BY <2>3, <2>4
<1>3. CASE NotifyOne
  <2>1. Shutdown'
    BY <1>1, <1>3 DEF NotifyOne, Shutdown
  <2>2. CASE \E w \in Workers : worker[w] = "asleep"
    <3>1. PICK w \in Workers : /\ worker[w] = "asleep"
                               /\ worker' = [worker EXCEPT ![w] = "check"]
      BY <1>3, <2>2 DEF NotifyOne
    <3>2. Population(worker', "check") = Population(worker, "check") + 1
      BY <1>1, <3>1, WorkerMoves
    <3>3. QED
      BY <1>1, <1>3, <2>1, <3>1, <3>2 DEF NotifyOne, NobodyWaitsInVain, Unannounced
  <2>3. CASE ~ \E w \in Workers : worker[w] = "asleep"
    BY <1>3, <2>1, <2>3 DEF NotifyOne, NobodyWaitsInVain
  <2>4. QED
    BY <2>1, <2>2, <2>3
<1>4. CASE NotifyAll
  <2>1. \A w \in Workers : worker'[w] # "asleep"
    BY <1>4 DEF NotifyAll
  <2>2. Shutdown'
    BY <1>1, <1>4 DEF NotifyAll, Shutdown
  <2>3. QED
    BY <1>4, <2>1, <2>2 DEF NotifyAll, NobodyWaitsInVain
<1>5. CASE \E w \in Workers : SpuriousWorker(w)
  <2>1. PICK w \in Workers : SpuriousWorker(w)
    BY <1>5
  <2>2. Population(worker', "check") = Population(worker, "check") + 1
    BY <1>1, <2>1, WorkerMoves DEF SpuriousWorker
  <2>3. Shutdown'
    BY <1>1, <2>1 DEF SpuriousWorker, Shutdown
  <2>4. NobodyWaitsInVain'
    BY <1>1, <2>1, <2>2 DEF SpuriousWorker, NobodyWaitsInVain, Unannounced
  <2>5. QED
    BY <2>3, <2>4
<1>6. QED
  BY <1>2, <1>3, <1>4, <1>5

(* A worker blocks when nothing is queued, takes one task with it and comes
   back to the queue; it wakes the caller with the last task. *)
LEMMA WorkerWake ==
  ASSUME WakeInv, IInv', NEW w \in Workers, Work(w)
  PROVE  Shutdown' /\ NobodyWaitsInVain'
<1> USE DEF WakeInv
<1>1. /\ Population(worker, "check") \in Nat /\ tasks \in Nat /\ inflight \in Nat
      /\ TypeOK /\ worker \in [Workers -> WorkerPlaces] /\ inflight' \in Nat /\ tasks' \in Nat
      /\ Population(worker', "check") \in Nat
  <2>1. TypeOK /\ TypeOK'
    BY DEF IInv
  <2>2. Population(worker', "check") \in Nat
    BY <2>1, PopulationType, Sizes
  <2>3. QED
    BY <2>1, <2>2, PopulationType, Sizes DEF TypeOK
<1>2. CASE Check(w)
  <2>1. CASE tasks = 0
    <3>1. /\ worker' = [worker EXCEPT ![w] = IF stopping THEN "exited" ELSE "asleep"]
          /\ worker[w] = "check" /\ UNCHANGED <<main, spawned, stopping, tasks, inflight>>
      BY <1>2, <2>1 DEF Check
    <3>2. main # "returned" /\ (~stopping => main # "join")
      BY <3>1 DEF Shutdown
    <3>3. Shutdown'
      BY <1>1, <3>1, <3>2 DEF Shutdown
    <3>4. ASSUME NEW v \in Workers, worker'[v] = "asleep"
          PROVE  tasks' <= Population(worker', "check") + Unannounced'
                   /\ main' \notin {"join", "returned"}
      <4>1. tasks' = 0 /\ Unannounced' \in {0, 1}
        BY <2>1, <3>1 DEF Unannounced
      <4>2. main \notin {"join", "returned"}
        BY <1>1, <3>1, <3>2, <3>4 DEF NobodyWaitsInVain
      <4>3. QED
        BY <1>1, <3>1, <4>1, <4>2
    <3>5. QED
      BY <3>1, <3>3, <3>4 DEF NobodyWaitsInVain
  <2>2. CASE tasks > 0
    <3>1. /\ worker' = [worker EXCEPT ![w] = "claim"] /\ worker[w] = "check"
          /\ tasks' = tasks - 1 /\ inflight' = inflight + 1
      BY <1>2, <2>2 DEF Check
    <3>2. Population(worker', "check") = Population(worker, "check") - 1
      BY <1>1, <3>1, WorkerMoves
    <3>3. QED
      BY <1>1, <1>2, <3>1, <3>2 DEF Check, Shutdown, NobodyWaitsInVain, Unannounced
  <2>3. QED
    BY <1>1, <2>1, <2>2
<1>3. CASE Claim(w) \/ Apply(w) \/ Throw(w)
  <2>1. PICK p \in InTask : worker' = [worker EXCEPT ![w] = p]
    BY <1>3 DEF Claim, Apply, Throw, InTask
  <2>2. worker[w] \in InTask
    BY <1>3 DEF Claim, Apply, Throw, InTask
  <2>3. Population(worker', "check") = Population(worker, "check")
    <3>1. p # "check" /\ worker[w] # "check"
      BY <2>2 DEF InTask
    <3>2. QED
      BY <1>1, <2>1, <3>1, WorkerMoves
  <2>4. UNCHANGED <<main, spawned, tasks, inflight, stopping>>
    BY <1>3 DEF Claim, Apply, Throw
  <2>5. QED
    BY <1>1, <2>1, <2>2, <2>3, <2>4
       DEF Shutdown, NobodyWaitsInVain, Unannounced, InTask
<1>4. CASE Finish(w)
  <2>1. Population(worker', "check") = Population(worker, "check") + 1
    BY <1>1, <1>4, WorkerMoves DEF Finish
  <2>2. Shutdown'
    BY <1>1, <1>4 DEF Finish, Shutdown
  <2>3. NobodyWaitsInVain'
    BY <1>1, <1>4, <2>1 DEF Finish, LastToFinish, NobodyWaitsInVain, Unannounced
  <2>4. QED
    BY <2>2, <2>3
<1>5. QED
  BY <1>2, <1>3, <1>4 DEF Work

LEMMA WakeInvariance == Spec => []WakeInv
<1>1. WakeInv /\ [Next]_vars => WakeInv'
  <2> SUFFICES ASSUME WakeInv, [Next]_vars PROVE WakeInv'
    OBVIOUS
  <2>1. IInv'
    BY NextIInv DEF WakeInv
  <2>2. Shutdown' /\ NobodyWaitsInVain'
    BY <2>1, CallerWake, BringingWake, WorkerWake DEF Next, Caller, Over
  <2>3. QED
    BY <2>1, <2>2 DEF WakeInv
<1>2. QED
  BY <1>1, InitWake, PTL DEF Spec

(* No wake-up of a worker or of the waiting caller is lost, for any number of
   workers and files and whatever fn throws. *)
THEOREM NoWakeUpIsLost == Spec => []NobodyWaitsInVain
<1>1. WakeInv => NobodyWaitsInVain
  BY DEF WakeInv
<1>2. QED
  BY <1>1, WakeInvariance, PTL

(* A worker is left to wake the caller that sleeps in wait, and none sleeps
   that the caller joins. *)
SomeoneIsUp ==
  /\ main = "asleep" => \E w \in Workers : worker[w] \in InTask \cup {"check"}
  /\ main = "join" => \A w \in Workers : worker[w] \in InTask \cup {"check", "exited"}

(* The caller is never left waiting for sleepers alone: pool and caller do not
   deadlock, for any number of workers and files and whatever fn throws. *)
THEOREM NeverStuck == Spec => []SomeoneIsUp
<1>1. WakeInv => SomeoneIsUp
  <2> SUFFICES ASSUME WakeInv PROVE SomeoneIsUp
    OBVIOUS
  <2> USE DEF WakeInv
  <2>1. /\ worker \in [Workers -> WorkerPlaces] /\ tasks \in Nat /\ inflight \in Nat
        /\ Population(worker, "check") \in Nat
        /\ IsFiniteSet(Busy) /\ inflight = Cardinality(Busy)
    BY PopulationType, Finite, Sizes DEF IInv, TypeOK, Counting
  <2>2. main \in {"asleep", "join"} => /\ Workers # {}
                                       /\ \A w \in Workers : worker[w] # "unborn"
    BY Sizes DEF IInv, Flow, Shutdown, Workers
  <2>3. ASSUME main = "asleep"
        PROVE  \E w \in Workers : worker[w] \in InTask \cup {"check"}
    <3>1. CASE inflight > 0
      <4>1. Busy # {}
        BY <2>1, <3>1, FS_EmptySet
      <4>2. QED
        BY <4>1 DEF Busy
    <3>2. CASE inflight = 0
      <4>1. tasks > 0
        BY <2>1, <2>3, <3>2 DEF NobodyWaitsInVain
      <4>2. CASE \E w \in Workers : worker[w] = "asleep"
        <5>1. Population(worker, "check") > 0
          BY <2>1, <2>3, <4>1, <4>2 DEF NobodyWaitsInVain, Unannounced
        <5>2. {w \in Workers : worker[w] = "check"} # {}
          BY <5>1, FS_EmptySet DEF Population
        <5>3. QED
          BY <5>2
      <4>3. CASE ~ \E w \in Workers : worker[w] = "asleep"
        BY <2>1, <2>2, <2>3, <4>3 DEF Shutdown, WorkerPlaces, InTask
      <4>4. QED
        BY <4>2, <4>3
    <3>3. QED
      BY <2>1, <3>1, <3>2
  <2>4. ASSUME main = "join"
        PROVE  \A w \in Workers : worker[w] \in InTask \cup {"check", "exited"}
    BY <2>1, <2>2, <2>4 DEF NobodyWaitsInVain, WorkerPlaces, InTask
  <2>5. QED
    BY <2>3, <2>4 DEF SomeoneIsUp
<1>2. QED
  BY <1>1, WakeInvariance, PTL

-----------------------------------------------------------------------------
(* The whole map is bounded work.                                          *)

(* What the caller, the workers in their places, a queued task, an index and a
   submission can still cost, in critical sections and notifications. *)
CallerLeft ==
  CASE main \in {"returned", "raised"} -> 0
    [] main \in {"join", "sequential"} -> 1
    [] main = "notifyAll"              -> WorkerCount + 2
    [] main = "stop"                   -> WorkerCount + 3
    [] main = "asleep"                 -> WorkerCount + 4
    [] main \in {"wait", "submit"}     -> WorkerCount + 5
    [] main = "spawn"                  -> WorkerCount + 6
    [] main \in {"enter", "notify"}    -> WorkerCount + 7

WorkersLeft ==
  2 * Population(worker, "unborn") + Population(worker, "check")
    + 4 * Population(worker, "claim") + 5 * Population(worker, "apply")
    + 3 * Population(worker, "finish")

Unclaimed == IF next < N THEN N - next ELSE 0

StepsLeft == CallerLeft + WorkersLeft + 4 * tasks
               + 7 * (WorkerCount - submitted) + 2 * Unclaimed

Spurious == SpuriousMain \/ \E w \in Workers : SpuriousWorker(w)

(* The whole map is bounded work: with every step less is left, whatever the
   interleaving and whatever fn throws, and a wake-up for no reason costs one
   step more.  No threads can keep each other busy for ever. *)
EveryStepCounts ==
  [][StepsLeft' < StepsLeft \/ (Spurious /\ StepsLeft' = StepsLeft + 1)]_vars

(* What a worker's place can still cost. *)
Weight(place) == (IF place = "unborn" THEN 2 ELSE 0) + (IF place = "check" THEN 1 ELSE 0)
                   + (IF place = "claim" THEN 4 ELSE 0) + (IF place = "apply" THEN 5 ELSE 0)
                   + (IF place = "finish" THEN 3 ELSE 0)

LEMMA LeftType ==
  ASSUME TypeOK
  PROVE  /\ WorkersLeft \in Nat /\ CallerLeft \in Nat /\ Unclaimed \in Nat
         /\ WorkerCount \in Nat /\ tasks \in Nat /\ submitted \in 0 .. WorkerCount
         /\ StepsLeft \in Nat
<1>1. /\ WorkerCount \in Nat /\ tasks \in Nat /\ submitted \in 0 .. WorkerCount
      /\ Unclaimed \in Nat
  BY Sizes, NAssumption DEF TypeOK, Unclaimed
<1>2. WorkersLeft \in Nat
  BY <1>1, PopulationType DEF WorkersLeft
<1>3. CallerLeft \in Nat
  BY <1>1 DEF CallerLeft, TypeOK, MainPlaces
<1>4. QED
  BY <1>1, <1>2, <1>3 DEF StepsLeft

(* A worker that moves changes what is left to the workers by the weights of
   its two places. *)
LEMMA WorkShifts ==
  ASSUME NEW w \in Workers, \A v \in Workers \ {w} : worker'[v] = worker[v]
  PROVE  WorkersLeft' = WorkersLeft + Weight(worker'[w]) - Weight(worker[w])
<1> DEFINE Shift(q) == (IF worker'[w] = q THEN 1 ELSE 0) - (IF worker[w] = q THEN 1 ELSE 0)
<1>1. Population(worker', "unborn") = Population(worker, "unborn") + Shift("unborn")
  BY OneSteps, PopulationType, Sizes
<1>2. Population(worker', "check") = Population(worker, "check") + Shift("check")
  BY OneSteps, PopulationType, Sizes
<1>3. Population(worker', "claim") = Population(worker, "claim") + Shift("claim")
  BY OneSteps, PopulationType, Sizes
<1>4. Population(worker', "apply") = Population(worker, "apply") + Shift("apply")
  BY OneSteps, PopulationType, Sizes
<1>5. Population(worker', "finish") = Population(worker, "finish") + Shift("finish")
  BY OneSteps, PopulationType, Sizes
<1>6. \A q : Population(worker, q) \in Nat
  BY PopulationType, Sizes
<1>7. Weight(worker'[w]) - Weight(worker[w]) =
        2 * Shift("unborn") + Shift("check") + 4 * Shift("claim") + 5 * Shift("apply")
          + 3 * Shift("finish")
  BY DEF Weight
<1>8. \A q : Shift(q) \in Int
  OBVIOUS
<1> HIDE DEF Shift
<1>9. Weight(worker'[w]) \in Int /\ Weight(worker[w]) \in Int
  BY DEF Weight
<1>10. QED
  BY <1>1, <1>2, <1>3, <1>4, <1>5, <1>6, <1>7, <1>8, <1>9 DEF WorkersLeft

LEMMA WorkMoves ==
  ASSUME TypeOK, NEW w \in Workers, NEW p \in WorkerPlaces,
         worker' = [worker EXCEPT ![w] = p]
  PROVE  WorkersLeft' = WorkersLeft + Weight(p) - Weight(worker[w])
<1>1. worker'[w] = p /\ \A v \in Workers \ {w} : worker'[v] = worker[v]
  BY DEF TypeOK
<1>2. QED
  BY <1>1, WorkShifts

LEMMA CallerCounts ==
  ASSUME IInv, IInv',
         \/ Enter \/ SequentialApply \/ SequentialReturn \/ Submit \/ Wait \/ Stop \/ Join
  PROVE  StepsLeft' < StepsLeft
<1>1. TypeOK /\ TypeOK'
  BY DEF IInv
<1>2. /\ WorkersLeft \in Nat /\ Unclaimed \in Nat /\ WorkerCount \in Nat
      /\ tasks \in Nat /\ submitted \in Nat
  BY <1>1, LeftType
<1>3. UNCHANGED WorkersLeft
  BY DEF Enter, SequentialApply, SequentialReturn, Submit, Wait, Stop, Join, WorkersLeft
<1>4. CASE SequentialApply
  <2>1. main = "sequential" /\ next \in Nat /\ next < N /\ N \in Nat
    BY <1>1, <1>4, NAssumption, Sizes DEF TypeOK, SequentialApply
  <2>2. UNCHANGED <<tasks, submitted>>
    BY <1>4 DEF SequentialApply
  <2>3. \/ main' = main /\ next' = next + 1
        \/ main' = "raised" /\ next' = next
    BY <1>4 DEF SequentialApply, Escapes
  <2>4. QED
    BY <1>2, <1>3, <2>1, <2>2, <2>3 DEF StepsLeft, CallerLeft, Unclaimed
<1>5. CASE ~SequentialApply
  <2>1. UNCHANGED Unclaimed
    BY <1>5 DEF Enter, SequentialReturn, Submit, Wait, Stop, Join, Unclaimed
  <2>2. CASE Submit
    BY <1>2, <1>3, <2>1, <2>2 DEF Submit, StepsLeft, CallerLeft
  <2>3. CASE Enter \/ SequentialReturn
    BY <1>2, <1>3, <2>1, <2>3 DEF Enter, SequentialReturn, StepsLeft, CallerLeft
  <2>4. CASE Wait \/ Stop \/ Join
    BY <1>2, <1>3, <2>1, <2>4 DEF Wait, Stop, Join, StepsLeft, CallerLeft
  <2>5. QED
    BY <1>5, <2>2, <2>3, <2>4
<1>6. QED
  BY <1>4, <1>5

LEMMA BringingCounts ==
  ASSUME IInv, IInv', Spawn \/ NotifyOne \/ NotifyAll
  PROVE  StepsLeft' < StepsLeft
<1>1. TypeOK /\ TypeOK' /\ worker \in [Workers -> WorkerPlaces]
  BY DEF IInv, TypeOK
<1>2. /\ WorkersLeft \in Nat /\ Unclaimed \in Nat /\ WorkerCount \in Nat
      /\ tasks \in Nat /\ submitted \in Nat
  BY <1>1, LeftType
<1>3. UNCHANGED <<Unclaimed, tasks, submitted>>
  BY DEF Spawn, NotifyOne, NotifyAll, Unclaimed
<1>4. CASE Spawn
  <2>1. spawned + 1 \in Workers /\ worker[spawned + 1] = "unborn"
    BY <1>4, Sizes DEF IInv, TypeOK, Flow, Spawn, Workers
  <2>2. worker' = [worker EXCEPT ![spawned + 1] = "check"] /\ "check" \in WorkerPlaces
    BY <1>4 DEF Spawn, WorkerPlaces
  <2>3. WorkersLeft' = WorkersLeft + Weight("check") - Weight("unborn")
    BY <1>1, <2>1, <2>2, WorkMoves
  <2>4. WorkersLeft' = WorkersLeft - 1
    BY <1>2, <2>3 DEF Weight
  <2>5. QED
    BY <1>2, <1>3, <1>4, <2>4 DEF Spawn, StepsLeft, CallerLeft
<1>5. CASE NotifyOne
  <2>1. WorkersLeft' \in {WorkersLeft, WorkersLeft + 1}
    <3>1. CASE \E w \in Workers : worker[w] = "asleep"
      <4>1. PICK w \in Workers : /\ worker[w] = "asleep"
                                 /\ worker' = [worker EXCEPT ![w] = "check"]
        BY <1>5, <3>1 DEF NotifyOne
      <4>2. WorkersLeft' = WorkersLeft + Weight("check") - Weight("asleep")
        BY <1>1, <4>1, WorkMoves DEF WorkerPlaces
      <4>3. QED
        BY <1>2, <4>2 DEF Weight
    <3>2. CASE ~ \E w \in Workers : worker[w] = "asleep"
      BY <1>5, <3>2 DEF NotifyOne, WorkersLeft
    <3>3. QED
      BY <3>1, <3>2
  <2>2. QED
    BY <1>2, <1>3, <1>5, <2>1 DEF NotifyOne, StepsLeft, CallerLeft
<1>6. CASE NotifyAll
  <2>1. ASSUME NEW q \in {"unborn", "claim", "apply", "finish"}
        PROVE  Population(worker', q) = Population(worker, q)
    <3>1. {w \in Workers : worker'[w] = q} = {w \in Workers : worker[w] = q}
      BY <1>6 DEF NotifyAll
    <3>2. QED
      BY <3>1 DEF Population
  <2>2. \A q : Population(worker, q) \in Nat /\ Population(worker', q) \in 0 .. WorkerCount
    BY PopulationType, Sizes
  <2>3. WorkersLeft' \in Nat /\ WorkersLeft' <= WorkersLeft + WorkerCount
    BY <1>2, <2>1, <2>2 DEF WorkersLeft
  <2>4. QED
    BY <1>2, <1>3, <1>6, <2>3 DEF NotifyAll, StepsLeft, CallerLeft
<1>7. QED
  BY <1>4, <1>5, <1>6

LEMMA WorkerCounts ==
  ASSUME IInv, IInv', NEW w \in Workers, Work(w)
  PROVE  StepsLeft' < StepsLeft
<1>1. TypeOK /\ TypeOK' /\ worker \in [Workers -> WorkerPlaces]
  BY DEF IInv, TypeOK
<1>2. /\ WorkersLeft \in Nat /\ Unclaimed \in Nat /\ CallerLeft \in Nat
      /\ WorkerCount \in Nat /\ tasks \in Nat /\ submitted \in Nat
      /\ next \in Nat /\ N \in Nat
  BY <1>1, LeftType, NAssumption, Sizes DEF TypeOK
<1>3. UNCHANGED submitted
  BY DEF Work, Check, Claim, Apply, Throw, Finish
<1>4. ASSUME NEW p \in WorkerPlaces, worker' = [worker EXCEPT ![w] = p]
      PROVE  WorkersLeft' = WorkersLeft + Weight(p) - Weight(worker[w])
  BY <1>1, <1>4, WorkMoves
<1>5. CASE Check(w)
  <2>1. UNCHANGED <<CallerLeft, Unclaimed>>
    BY <1>5 DEF Check, CallerLeft, Unclaimed
  <2>2. CASE tasks > 0
    <3>1. /\ worker[w] = "check" /\ worker' = [worker EXCEPT ![w] = "claim"]
          /\ tasks' = tasks - 1
      BY <1>5, <2>2 DEF Check
    <3>2. WorkersLeft' = WorkersLeft + Weight("claim") - Weight("check")
      BY <1>4, <3>1 DEF WorkerPlaces, InTask
    <3>3. QED
      BY <1>2, <1>3, <2>1, <3>1, <3>2 DEF StepsLeft, Weight
  <2>3. CASE ~(tasks > 0)
    <3>1. PICK p \in {"asleep", "exited"} : worker' = [worker EXCEPT ![w] = p]
      BY <1>5, <2>3 DEF Check
    <3>2. worker[w] = "check" /\ tasks' = tasks
      BY <1>5, <2>3 DEF Check
    <3>3. WorkersLeft' = WorkersLeft + Weight(p) - Weight("check")
      BY <1>4, <3>1, <3>2 DEF WorkerPlaces
    <3>4. Weight(p) = 0 /\ Weight("check") = 1
      BY DEF Weight
    <3>5. QED
      BY <1>2, <1>3, <2>1, <3>2, <3>3, <3>4 DEF StepsLeft
  <2>4. QED
    BY <2>2, <2>3
<1>6. CASE Claim(w)
  <2>1. UNCHANGED <<CallerLeft, tasks>> /\ next' = next + 1 /\ worker[w] = "claim"
    BY <1>6 DEF Claim, Advanced, CallerLeft
  <2>2. CASE HasFile
    <3>1. worker' = [worker EXCEPT ![w] = "apply"]
      BY <1>6, <2>2 DEF Claim
    <3>2. WorkersLeft' = WorkersLeft + Weight("apply") - Weight("claim")
      BY <1>4, <2>1, <3>1 DEF WorkerPlaces, InTask
    <3>3. Unclaimed' = Unclaimed - 1
      BY <1>2, <2>1, <2>2 DEF Unclaimed, HasFile
    <3>4. QED
      BY <1>2, <1>3, <2>1, <3>2, <3>3 DEF StepsLeft, Weight
  <2>3. CASE ~HasFile
    <3>1. worker' = [worker EXCEPT ![w] = "finish"]
      BY <1>6, <2>3 DEF Claim
    <3>2. WorkersLeft' = WorkersLeft + Weight("finish") - Weight("claim")
      BY <1>4, <2>1, <3>1 DEF WorkerPlaces, InTask
    <3>3. Unclaimed' = Unclaimed
      BY <1>2, <2>1, <2>3 DEF Unclaimed, HasFile
    <3>4. QED
      BY <1>2, <1>3, <2>1, <3>2, <3>3 DEF StepsLeft, Weight
  <2>4. QED
    BY <2>2, <2>3
<1>7. CASE Apply(w) \/ Throw(w)
  <2>1. UNCHANGED <<CallerLeft, Unclaimed, tasks>> /\ worker[w] = "apply"
    BY <1>7 DEF Apply, Throw, CallerLeft, Unclaimed
  <2>2. PICK p \in {"claim", "finish"} : worker' = [worker EXCEPT ![w] = p]
    BY <1>7 DEF Apply, Throw
  <2>3. WorkersLeft' = WorkersLeft + Weight(p) - Weight("apply")
    BY <1>4, <2>1, <2>2 DEF WorkerPlaces, InTask
  <2>4. Weight(p) \in {3, 4} /\ Weight("apply") = 5
    BY DEF Weight
  <2>5. QED
    BY <1>2, <1>3, <2>1, <2>3, <2>4 DEF StepsLeft
<1>8. CASE Finish(w)
  <2>1. /\ UNCHANGED <<Unclaimed, tasks>> /\ worker[w] = "finish"
        /\ worker' = [worker EXCEPT ![w] = "check"]
    BY <1>8 DEF Finish, Unclaimed
  <2>2. WorkersLeft' = WorkersLeft + Weight("check") - Weight("finish")
    BY <1>4, <2>1 DEF WorkerPlaces
  <2>3. Weight("check") = 1 /\ Weight("finish") = 3
    BY DEF Weight
  <2>4. CASE main' = main
    <3>1. UNCHANGED CallerLeft
      BY <2>4 DEF CallerLeft
    <3>2. QED
      BY <1>2, <1>3, <2>1, <2>2, <2>3, <3>1 DEF StepsLeft
  <2>5. CASE main = "asleep" /\ main' = "wait"
    <3>1. CallerLeft' = CallerLeft + 1
      BY <1>2, <2>5 DEF CallerLeft
    <3>2. QED
      BY <1>2, <1>3, <2>1, <2>2, <2>3, <3>1 DEF StepsLeft
  <2>6. QED
    BY <1>8, <2>4, <2>5 DEF Finish
<1>9. QED
  BY <1>5, <1>6, <1>7, <1>8 DEF Work

LEMMA SpuriousCosts ==
  ASSUME IInv, IInv', Spurious
  PROVE  StepsLeft' = StepsLeft + 1
<1>1. TypeOK /\ TypeOK' /\ worker \in [Workers -> WorkerPlaces]
  BY DEF IInv, TypeOK
<1>2. /\ WorkersLeft \in Nat /\ Unclaimed \in Nat /\ CallerLeft \in Nat
      /\ WorkerCount \in Nat /\ tasks \in Nat /\ submitted \in Nat
  BY <1>1, LeftType
<1>3. UNCHANGED <<Unclaimed, tasks, submitted>>
  BY DEF Spurious, SpuriousMain, SpuriousWorker, Unclaimed
<1>4. CASE SpuriousMain
  <2>1. UNCHANGED WorkersLeft /\ CallerLeft' = CallerLeft + 1
    BY <1>2, <1>4 DEF SpuriousMain, WorkersLeft, CallerLeft
  <2>2. QED
    BY <1>2, <1>3, <2>1 DEF StepsLeft
<1>5. CASE \E w \in Workers : SpuriousWorker(w)
  <2>1. PICK w \in Workers : SpuriousWorker(w)
    BY <1>5
  <2>2. /\ UNCHANGED CallerLeft /\ worker[w] = "asleep"
        /\ worker' = [worker EXCEPT ![w] = "check"]
    BY <2>1 DEF SpuriousWorker, CallerLeft
  <2>3. WorkersLeft' = WorkersLeft + Weight("check") - Weight("asleep")
    BY <1>1, <2>1, <2>2, WorkMoves DEF WorkerPlaces
  <2>4. QED
    BY <1>2, <1>3, <2>2, <2>3 DEF StepsLeft, Weight
<1>6. QED
  BY <1>4, <1>5 DEF Spurious

(* Every worker is still to be started at first. *)
LEMMA WholeWork == Init => StepsLeft = 10 * WorkerCount + 2 * N + 7
<1> SUFFICES ASSUME Init PROVE StepsLeft = 10 * WorkerCount + 2 * N + 7
  OBVIOUS
<1>1. Population(worker, "unborn") = WorkerCount
  <2>1. {w \in Workers : worker[w] = "unborn"} = Workers
    BY DEF Init
  <2>2. Cardinality(1 .. WorkerCount) = WorkerCount
    BY Sizes, NAssumption, FS_Interval
  <2>3. QED
    BY <2>1, <2>2 DEF Population, Workers
<1>2. \A q \in {"check", "claim", "apply", "finish"} : Population(worker, q) = 0
  <2>1. ASSUME NEW q \in {"check", "claim", "apply", "finish"}
        PROVE  Population(worker, q) = 0
    <3>1. {w \in Workers : worker[w] = q} = {}
      BY DEF Init
    <3>2. QED
      BY <3>1, FS_EmptySet DEF Population
  <2>2. QED
    BY <2>1
<1>3. WorkersLeft = 2 * WorkerCount
  BY <1>1, <1>2, Sizes DEF WorkersLeft
<1>4. CallerLeft = WorkerCount + 7 /\ Unclaimed = N
  BY NAssumption, Sizes DEF Init, CallerLeft, Unclaimed
<1>5. QED
  BY <1>3, <1>4, NAssumption, Sizes DEF Init, StepsLeft

(* The work is bounded: at first ten steps for each worker, two for each file
   and seven more are left, never less than none, and every step but a wake-up
   for no reason leaves less, for any number of files and workers and whatever
   fn throws.  With NeverStuck this is the safety part of termination. *)
THEOREM WorkIsBounded ==
  Spec => /\ StepsLeft = 10 * WorkerCount + 2 * N + 7
          /\ [](StepsLeft \in Nat)
          /\ EveryStepCounts
<1>1. IInv /\ IInv' /\ [Next]_vars
        => [StepsLeft' < StepsLeft \/ (Spurious /\ StepsLeft' = StepsLeft + 1)]_vars
  BY CallerCounts, BringingCounts, WorkerCounts, SpuriousCosts
     DEF Next, Caller, Spurious, Over
<1>2. IInv => StepsLeft \in Nat
  BY LeftType DEF IInv
<1>3. QED
  BY <1>1, <1>2, WholeWork, Inductive, PTL DEF Spec, EveryStepCounts
=============================================================================
