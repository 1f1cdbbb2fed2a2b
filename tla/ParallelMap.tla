---------------------------- MODULE ParallelMap ----------------------------
(***************************************************************************)
(* What parallelMap gives its callers in topo-check (CheckRunner.cpp):     *)
(* `fn(index, file)` is applied across the files and the results come back *)
(* in input order.  In one thread an exception of fn reaches the caller    *)
(* and no result vector does; in several it costs the result and the task  *)
(* that made the call, and the caller gets what there is.  Nothing is said *)
(* here of threads: an implementation may apply fn in any order.           *)
(***************************************************************************)
EXTENDS Integers, FiniteSets

CONSTANTS N,        (* the number of files                                 *)
          Tasks,    (* how many tasks share them when it is not serial     *)
          MayThrow, (* the indices whose call of fn may raise              *)
          Empty     (* a slot of the result vector that holds no result    *)

VARIABLES status,   (* "running", "returned" or "raised"                   *)
          serial,   (* one thread goes through the files in their order    *)
          out,      (* the result vector: out[i] = i is fn(i, files[i])    *)
          lost      (* the files whose call of fn raised                   *)

vars == <<status, serial, out, lost>>

Index == 0 .. N - 1

Init == /\ status = "running"
        /\ serial \in BOOLEAN
        /\ out = [i \in Index |-> Empty]
        /\ lost = {}

(* fn is called once for a file, in serial after all those before it. *)
Called(i) == /\ status = "running"
             /\ out[i] = Empty
             /\ i \notin lost
             /\ serial => \A j \in Index : j < i => out[j] = j

(* The result goes to the slot of its own file. *)
Apply(i) == /\ Called(i)
            /\ out' = [out EXCEPT ![i] = i]
            /\ UNCHANGED <<status, serial, lost>>

(* The exception ends the task that made the call ... *)
Lose(i) == /\ Called(i)
           /\ i \in MayThrow
           /\ ~serial
           /\ Cardinality(lost) < Tasks
           /\ lost' = lost \cup {i}
           /\ UNCHANGED <<status, serial, out>>

(* ... or the caller gets it. *)
Raise(i) == /\ Called(i)
            /\ i \in MayThrow
            /\ serial
            /\ lost' = lost \cup {i}
            /\ status' = "raised"
            /\ UNCHANGED <<serial, out>>

(* The caller gets the vector when every file has its result; when not serial,
   a result that was lost is not waited for, nor any when no task is left. *)
Return == /\ status = "running"
          /\ \/ \A i \in Index : out[i] = i \/ (~serial /\ i \in lost)
             \/ ~serial /\ Cardinality(lost) = Tasks
          /\ status' = "returned"
          /\ UNCHANGED <<serial, out, lost>>

Next == \/ \E i \in Index : Apply(i) \/ Lose(i) \/ Raise(i)
        \/ Return

Spec == Init /\ [][Next]_vars /\ WF_vars(Next)
=============================================================================
