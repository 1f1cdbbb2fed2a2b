-------------------------- MODULE CheckCacheProofs --------------------------
(***************************************************************************)
(* The verdict cache certifies what it serves, for every set of files,     *)
(* every number of overlapping or killed invocations and every split of    *)
(* the cache file into blocks, as long as nobody edits while a check runs. *)
(***************************************************************************)
EXTENDS CheckCache, TLAPS

(* What a running invocation has read is what is there. *)
ReadsAreFresh ==
  \A p \in Procs :
    /\ Running(p) => \A f \in Files : proc[p].seen[f] \in {Unread, tree[f]}
    /\ proc[p].at \in {"hash", "open", "head", "tail"} => proc[p].seen = tree
    /\ proc[p].at \in {"open", "head", "tail"} => proc[p].hashes = tree

(* A block certifies itself, and two blocks were written over one tree. *)
BlocksCertify ==
  /\ disk.head # Hole => disk.head.result.content = disk.head.hashes
  /\ disk.tail # Hole => disk.tail.result.content = disk.tail.hashes
  /\ disk.head # Hole /\ disk.tail # Hole => disk.head.hashes = disk.tail.hashes

(* Whoever is about to write truncated the file in this period without
   edits: all that has been written since then is about the present tree. *)
WritersSeePresent ==
  (\E p \in Procs : proc[p].at \in {"head", "tail"}) =>
    /\ disk.head # Hole => disk.head.hashes = tree
    /\ disk.tail # Hole => disk.tail.hashes = tree

(* Whoever is about to save has read every file. *)
ReadInFull ==
  \A p \in Procs : proc[p].at \in {"hash", "open", "head", "tail"} =>
                     \A f \in Files : proc[p].seen[f] # Unread

TInv == TypeOK /\ ReadInFull

IInv == /\ TInv
        /\ ReadsAreFresh
        /\ BlocksCertify
        /\ WritersSeePresent
        /\ HitIsCertified

-----------------------------------------------------------------------------
(* The types of the cache and of the invocations need no assumption on the
   edits. *)
LEMMA IdleType ==
  /\ Idle \in [at : Places, request : Request,
               seen : [Files -> Content \cup {Unread}],
               hashes : [Files -> Content]]
  /\ Idle.at = "idle"
BY VersionAssumption DEF Idle, Places, Request, AllKinds, NoFiles, NoHashes,
                         Content, Absent, Unread

(* Every step leaves each variable in its type. *)
LEMMA TypeStep == TInv /\ [Next]_vars => TInv'
<1> SUFFICES ASSUME TInv, [Next]_vars PROVE TInv'
  OBVIOUS
<1> USE DEF TInv
<1> DEFINE Process == [at : Places, request : Request,
                       seen : [Files -> Content \cup {Unread}],
                       hashes : [Files -> Content]]
<1>0. ASSUME NEW p \in Procs, NEW q \in Process,
             proc' = [proc EXCEPT ![p] = q],
             q.at \in {"hash", "open", "head", "tail"} =>
               \A f \in Files : q.seen[f] # Unread
      PROVE  proc' \in [Procs -> Process] /\ ReadInFull'
  BY <1>0 DEF TypeOK, ReadInFull
<1>00. \A p \in Procs : proc[p] \in Process
  BY DEF TypeOK
<1>1. ASSUME NEW f \in Files, Edit(f) PROVE TInv'
  BY <1>1 DEF Edit, TypeOK, ReadInFull
<1>2. ASSUME NEW p \in Procs, Launch(p) PROVE TInv'
  <2>1. PICK k \in Kinds, d \in BOOLEAN :
          proc' = [proc EXCEPT ![p] = [Idle EXCEPT
                     !.at = "lookup", !.request = [kind |-> k, deep |-> d]]]
    BY <1>2 DEF Launch
  <2>2. [kind |-> k, deep |-> d] \in Request
    BY KindsAssumption DEF Request
  <2> DEFINE q == [Idle EXCEPT !.at = "lookup", !.request = [kind |-> k, deep |-> d]]
  <2>3. q \in Process /\ q.at = "lookup"
    BY <2>2, IdleType DEF Places
  <2>4. proc' \in [Procs -> Process] /\ ReadInFull'
    <3>1. q.at \notin {"hash", "open", "head", "tail"}
      BY <2>3
    <3>2. proc' = [proc EXCEPT ![p] = q]
      BY <2>1
    <3> HIDE DEF q, Process
    <3> QED BY <2>3, <3>1, <3>2, <1>0
  <2> QED
    BY <1>2, <2>4 DEF Launch, TypeOK
<1>3. ASSUME NEW p \in Procs, Hit(p) PROVE TInv'
  <2>1. disk.tail \in Entry
    BY <1>3 DEF Hit, Matches, Parses, TypeOK
  <2>2. proc[p].request \in Request /\ disk.tail.result \in Verdict
    BY <2>1 DEF TypeOK, Entry
  <2>3. served' \subseteq [verdict : Verdict, request : Request,
                          tree : [Files -> Content]]
    BY <1>3, <2>2 DEF Hit, TypeOK
  <2>4. proc' \in [Procs -> Process] /\ ReadInFull'
    BY <1>0, <1>3, IdleType DEF Hit
  <2> QED
    BY <1>3, <2>3, <2>4 DEF Hit, TypeOK
<1>4. ASSUME NEW p \in Procs, Miss(p) PROVE TInv'
  BY <1>4 DEF Miss, TypeOK, Places, ReadInFull
<1>5. ASSUME NEW p \in Procs, NEW f \in Files, Analyse(p, f) PROVE TInv'
  <2>1. ReadInFull'
    BY <1>5 DEF Analyse, TypeOK, ReadInFull
  <2> QED
    BY <1>5, <2>1 DEF Analyse, TypeOK
<1>6. ASSUME NEW p \in Procs, Abandon(p) \/ Crash(p) PROVE TInv'
  <2>1. proc' \in [Procs -> Process] /\ ReadInFull'
    BY <1>0, <1>6, IdleType DEF Abandon, Crash
  <2> QED
    BY <1>6, <2>1 DEF Abandon, Crash, TypeOK
<1>7. ASSUME NEW p \in Procs, Conclude(p) PROVE TInv'
  <2> DEFINE q == IF Saves(proc[p].request.kind)
                  THEN [proc[p] EXCEPT !.at = "hash"] ELSE Idle
  <2>1. q \in Process
    BY <1>00, IdleType DEF Places
  <2>2. q.at \in {"hash", "open", "head", "tail"} =>
          \A f \in Files : q.seen[f] # Unread
    BY <1>7, <1>00, IdleType DEF Conclude, ReadAll
  <2>3. proc' = [proc EXCEPT ![p] = q]
    BY <1>7 DEF Conclude
  <2>4. proc' \in [Procs -> Process] /\ ReadInFull'
    <3> HIDE DEF q, Process
    <3> QED BY <2>1, <2>2, <2>3, <1>0
  <2> QED
    BY <1>7, <2>4 DEF Conclude, TypeOK
<1>8. ASSUME NEW p \in Procs, Hash(p) PROVE TInv'
  <2>1. ReadInFull'
    BY <1>8 DEF Hash, TypeOK, ReadInFull
  <2> DEFINE q == [proc[p] EXCEPT !.at = "open", !.hashes = tree]
  <2>2. q \in Process
    BY <1>00 DEF TypeOK, Places
  <2>3. proc' = [proc EXCEPT ![p] = q]
    BY <1>8, <1>00 DEF Hash
  <2>4. proc' \in [Procs -> Process]
    <3> HIDE DEF q, Process
    <3> QED BY <2>2, <2>3 DEF TypeOK, Process
  <2> QED
    BY <1>8, <2>1, <2>4 DEF Hash, TypeOK
<1>9. ASSUME NEW p \in Procs, Open(p) PROVE TInv'
  <2>1. disk' \in [head : Entry \cup {Hole}, tail : Entry \cup {Hole}]
    BY <1>9 DEF Open, TypeOK
  <2>2. CASE proc' = [proc EXCEPT ![p].at = "head"]
    <3>1. ReadInFull'
      BY <1>9, <2>2 DEF Open, TypeOK, ReadInFull
    <3> QED
      BY <1>9, <2>1, <2>2, <3>1 DEF Open, TypeOK, Places
  <2>3. CASE proc' = [proc EXCEPT ![p] = Idle]
    <3>1. proc' \in [Procs -> Process] /\ ReadInFull'
      BY <1>0, <2>3, IdleType
    <3> QED
      BY <1>9, <2>1, <3>1 DEF Open, TypeOK
  <2> QED
    BY <1>9, <2>2, <2>3 DEF Open
<1>10. ASSUME NEW p \in Procs, proc[p].at \in {"head", "tail"}
       PROVE  EntryOf(p) \in Entry
  BY <1>10, <1>00 DEF ReadInFull, EntryOf, Entry, Verdict, Request
<1>11. ASSUME NEW p \in Procs, WriteHead(p) PROVE TInv'
  <2>1. ReadInFull'
    BY <1>11 DEF WriteHead, TypeOK, ReadInFull
  <2> QED
    BY <1>10, <1>11, <2>1 DEF WriteHead, TypeOK, Places
<1>12. ASSUME NEW p \in Procs, WriteTail(p) PROVE TInv'
  <2>1. proc' \in [Procs -> Process] /\ ReadInFull'
    BY <1>0, <1>12, IdleType DEF WriteTail
  <2> QED
    BY <1>10, <1>12, <2>1 DEF WriteTail, TypeOK
<1>13. CASE UNCHANGED vars
  BY <1>13 DEF vars, TypeOK, ReadInFull
<1> QED
  BY <1>1, <1>2, <1>3, <1>4, <1>5, <1>6, <1>7, <1>8, <1>9, <1>11, <1>12, <1>13
     DEF Next, Check

LEMMA InitTInv == Init => TInv
<1> SUFFICES ASSUME Init PROVE TInv
  OBVIOUS
<1>1. proc \in [Procs -> [at : Places, request : Request,
                         seen : [Files -> Content \cup {Unread}],
                         hashes : [Files -> Content]]]
  BY IdleType DEF Init
<1>2. ReadInFull
  BY IdleType DEF Init, ReadInFull
<1>3. tree \in [Files -> Content]
  BY VersionAssumption DEF Init, Content, Absent
<1> QED
  BY <1>1, <1>2, <1>3 DEF Init, TInv, TypeOK

(* The tree, the cache file, the invocations and the served verdict keep
   their types even when files are edited during a run: in particular only
   verdicts reached from every file are ever written or served. *)
THEOREM TypeCorrect == Spec => []TypeOK
<1>1. Spec => []TInv
  BY InitTInv, TypeStep, PTL DEF Spec
<1>2. TInv => TypeOK
  BY DEF TInv
<1> QED
  BY <1>1, <1>2, PTL

-----------------------------------------------------------------------------
(* Certification, when nobody edits while a check is running.              *)

LEMMA InitIInv == Init => IInv
<1> SUFFICES ASSUME Init PROVE IInv
  OBVIOUS
<1>1. \A p \in Procs : proc[p].at = "idle"
  BY IdleType DEF Init
<1> QED
  BY <1>1, InitTInv DEF Init, IInv, ReadsAreFresh, BlocksCertify,
     WritersSeePresent, HitIsCertified, Running

(* The parts of the invariant that a step of one invocation preserves when it
   leaves the files and the cache alone. *)
LEMMA QuietStep ==
  ASSUME IInv, TInv', NEW p \in Procs, UNCHANGED <<tree, disk>>,
         served' \in {served, {}}, proc' = [proc EXCEPT ![p] = proc'[p]],
         proc'[p].at \in {"head", "tail"} => proc[p].at \in {"head", "tail"},
         proc'[p].at # "idle" =>
           \A f \in Files : proc'[p].seen[f] \in {Unread, tree[f]},
         proc'[p].at \in {"hash", "open", "head", "tail"} => proc'[p].seen = tree,
         proc'[p].at \in {"open", "head", "tail"} => proc'[p].hashes = tree
  PROVE  IInv'
<1> USE DEF IInv
<1>1. \A q \in Procs \ {p} : proc'[q] = proc[q]
  BY DEF TInv, TypeOK
<1>2. ReadsAreFresh'
  BY <1>1 DEF ReadsAreFresh, Running
<1>3. WritersSeePresent'
  BY <1>1 DEF WritersSeePresent
<1> QED
  BY <1>2, <1>3 DEF BlocksCertify, HitIsCertified

LEMMA CertifyStep ==
  ASSUME ~EditsDuringRun
  PROVE  IInv /\ [Next]_vars => IInv'
<1> SUFFICES ASSUME IInv, [Next]_vars PROVE IInv'
  OBVIOUS
<1>0. TInv'
  BY TypeStep DEF IInv
<1> USE DEF IInv
<1>t. TypeOK /\ TypeOK'
  BY <1>0 DEF TInv
<1>1. ASSUME NEW f \in Files, Edit(f) PROVE IInv'
  <2>1. \A p \in Procs : proc[p].at = "idle" /\ proc'[p].at = "idle"
    BY <1>1 DEF Edit, Running
  <2> QED
    BY <1>0, <1>1, <2>1 DEF Edit, ReadsAreFresh, BlocksCertify,
       WritersSeePresent, HitIsCertified, Running
<1>2. ASSUME NEW p \in Procs, Launch(p) PROVE IInv'
  <2>1. PICK k \in Kinds, d \in BOOLEAN :
          proc' = [proc EXCEPT ![p] = [Idle EXCEPT
                     !.at = "lookup", !.request = [kind |-> k, deep |-> d]]]
    BY <1>2 DEF Launch
  <2>2. /\ proc'[p].at = "lookup" /\ proc'[p].seen = NoFiles
        /\ proc' = [proc EXCEPT ![p] = proc'[p]]
    BY <1>t, <2>1 DEF TypeOK, Idle
  <2>3. \A f \in Files : proc'[p].seen[f] = Unread
    BY <2>2 DEF NoFiles
  <2>4. UNCHANGED <<tree, disk>> /\ served' = {}
    BY <1>2 DEF Launch
  <2> QED
    BY <1>0, <2>2, <2>3, <2>4, QuietStep
<1>3. ASSUME NEW p \in Procs, Hit(p) PROVE IInv'
  <2>1. /\ disk.head # Hole /\ disk.tail # Hole
        /\ \A f \in Files : CachedHash(f) = tree[f]
    BY <1>3 DEF Hit, Matches, Parses, HashesMatch
  <2>2. disk.head.hashes = disk.tail.hashes
        /\ disk.tail.result.content = disk.tail.hashes
    BY <2>1 DEF BlocksCertify
  <2>3. \A f \in Files : disk.tail.hashes[f] = tree[f]
    BY <2>1, <2>2 DEF CachedHash
  <2>4. tree \in [Files -> Content] /\ disk.tail.hashes \in [Files -> Content]
    BY <1>t, <2>1 DEF TypeOK, Entry
  <2>5. disk.tail.hashes = tree
    BY <2>3, <2>4
  <2>6. HitIsCertified'
    BY <1>3, <2>2, <2>5 DEF Hit, HitIsCertified
  <2>7. \A q \in Procs : proc'[q] = IF q = p THEN Idle ELSE proc[q]
    BY <1>3, <1>t DEF Hit, TypeOK
  <2>8. ReadsAreFresh'
    BY <1>3, <2>7, IdleType DEF Hit, ReadsAreFresh, Running
  <2>9. WritersSeePresent' /\ BlocksCertify'
    BY <1>3, <2>7, IdleType DEF Hit, WritersSeePresent, BlocksCertify
  <2> QED
    BY <1>0, <2>6, <2>8, <2>9
<1>4. ASSUME NEW p \in Procs, Miss(p) PROVE IInv'
  <2>1. /\ proc'[p].at = "analyse" /\ proc'[p].seen = proc[p].seen
        /\ proc' = [proc EXCEPT ![p] = proc'[p]]
    BY <1>4, <1>t DEF Miss, TypeOK
  <2>2. \A f \in Files : proc[p].seen[f] \in {Unread, tree[f]}
    BY <1>4 DEF Miss, ReadsAreFresh, Running
  <2>3. UNCHANGED <<tree, disk, served>>
    BY <1>4 DEF Miss
  <2> QED
    BY <1>0, <2>1, <2>2, <2>3, QuietStep
<1>5. ASSUME NEW p \in Procs, NEW f \in Files, Analyse(p, f) PROVE IInv'
  <2>1. /\ proc'[p].at = "analyse"
        /\ proc'[p].seen = [proc[p].seen EXCEPT ![f] = tree[f]]
        /\ proc' = [proc EXCEPT ![p] = proc'[p]]
        /\ proc[p].seen \in [Files -> Content \cup {Unread}]
    BY <1>5, <1>t DEF Analyse, TypeOK
  <2>2. \A g \in Files : proc[p].seen[g] \in {Unread, tree[g]}
    BY <1>5 DEF Analyse, ReadsAreFresh, Running
  <2>3. \A g \in Files : proc'[p].seen[g] \in {Unread, tree[g]}
    BY <2>1, <2>2
  <2>4. UNCHANGED <<tree, disk, served>>
    BY <1>5 DEF Analyse
  <2> QED
    BY <1>0, <2>1, <2>3, <2>4, QuietStep
<1>6. ASSUME NEW p \in Procs, proc' = [proc EXCEPT ![p] = Idle],
             UNCHANGED <<tree, disk, served>>
      PROVE  IInv'
  <2>1. proc'[p].at = "idle" /\ proc' = [proc EXCEPT ![p] = proc'[p]]
    BY <1>6, <1>t, IdleType DEF TypeOK
  <2> QED
    BY <1>0, <1>6, <2>1, QuietStep
<1>7. ASSUME NEW p \in Procs, Conclude(p) PROVE IInv'
  <2>1. UNCHANGED <<tree, disk, served>>
    BY <1>7 DEF Conclude
  <2>2. CASE Saves(proc[p].request.kind)
    <3>1. /\ proc'[p].at = "hash" /\ proc'[p].seen = proc[p].seen
          /\ proc' = [proc EXCEPT ![p] = proc'[p]]
          /\ proc[p].seen \in [Files -> Content \cup {Unread}]
          /\ tree \in [Files -> Content]
      BY <1>7, <1>t, <2>2 DEF Conclude, TypeOK
    <3>2. \A f \in Files : proc[p].seen[f] \in {Unread, tree[f]}
      BY <1>7 DEF Conclude, ReadsAreFresh, Running
    <3>3. \A f \in Files : proc[p].seen[f] = tree[f]
      BY <1>7, <3>2 DEF Conclude, ReadAll
    <3>4. proc[p].seen = tree
      BY <3>1, <3>3
    <3> QED
      BY <1>0, <2>1, <3>1, <3>2, <3>4, QuietStep
  <2>3. CASE ~Saves(proc[p].request.kind)
    BY <1>6, <1>7, <2>1, <2>3 DEF Conclude
  <2> QED
    BY <2>2, <2>3
<1>8. ASSUME NEW p \in Procs, Hash(p) PROVE IInv'
  <2>1. UNCHANGED <<tree, disk, served>>
    BY <1>8 DEF Hash
  <2>2. /\ proc'[p].at = "open" /\ proc'[p].seen = proc[p].seen
        /\ proc'[p].hashes = tree
        /\ proc' = [proc EXCEPT ![p] = proc'[p]]
    BY <1>8, <1>t DEF Hash, TypeOK
  <2>3. /\ proc[p].seen = tree
        /\ \A f \in Files : proc[p].seen[f] \in {Unread, tree[f]}
    BY <1>8 DEF Hash, ReadsAreFresh, Running
  <2> QED
    BY <1>0, <2>1, <2>2, <2>3, QuietStep
<1>9. ASSUME NEW p \in Procs, proc[p].at = "open",
             proc' = [proc EXCEPT ![p].at = "head"],
             disk' = [head |-> Hole, tail |-> Hole], UNCHANGED <<tree, served>>
      PROVE  IInv'
  <2>1. ReadsAreFresh'
    BY <1>9, <1>t DEF ReadsAreFresh, Running, TypeOK
  <2>2. BlocksCertify' /\ WritersSeePresent'
    BY <1>9 DEF BlocksCertify, WritersSeePresent
  <2> QED
    BY <1>0, <1>9, <2>1, <2>2 DEF HitIsCertified
<1>10. ASSUME NEW p \in Procs, Open(p) PROVE IInv'
  BY <1>6, <1>9, <1>10 DEF Open
<1>11. ASSUME NEW p \in Procs, proc[p].at \in {"head", "tail"}
       PROVE  /\ EntryOf(p).hashes = tree
              /\ EntryOf(p).result.content = tree
              /\ disk.head # Hole => disk.head.hashes = tree
              /\ disk.tail # Hole => disk.tail.hashes = tree
  BY <1>11 DEF EntryOf, ReadsAreFresh, WritersSeePresent
<1>12. ASSUME NEW p \in Procs, WriteHead(p) PROVE IInv'
  <2>1. /\ disk'.head = EntryOf(p) /\ disk'.tail = disk.tail
        /\ UNCHANGED <<tree, served>>
    BY <1>12, <1>t DEF WriteHead, TypeOK
  <2>2. BlocksCertify' /\ WritersSeePresent'
    BY <1>11, <1>12, <2>1 DEF WriteHead, BlocksCertify, WritersSeePresent
  <2>3. ReadsAreFresh'
    BY <1>12, <1>t DEF WriteHead, ReadsAreFresh, Running, TypeOK
  <2> QED
    BY <1>0, <2>1, <2>2, <2>3 DEF HitIsCertified
<1>13. ASSUME NEW p \in Procs, WriteTail(p) PROVE IInv'
  <2>1. /\ disk'.tail = EntryOf(p) /\ disk'.head = disk.head
        /\ UNCHANGED <<tree, served>>
    BY <1>13, <1>t DEF WriteTail, TypeOK
  <2>2. BlocksCertify' /\ WritersSeePresent'
    BY <1>11, <1>13, <2>1 DEF WriteTail, BlocksCertify, WritersSeePresent
  <2>3. \A q \in Procs : proc'[q] = IF q = p THEN Idle ELSE proc[q]
    BY <1>13, <1>t DEF WriteTail, TypeOK
  <2>4. ReadsAreFresh'
    BY <2>1, <2>3, IdleType DEF ReadsAreFresh, Running
  <2> QED
    BY <1>0, <2>1, <2>2, <2>4 DEF HitIsCertified
<1>14. CASE UNCHANGED vars
  BY <1>0, <1>14 DEF vars, ReadsAreFresh, BlocksCertify, WritersSeePresent,
                     HitIsCertified, Running
<1> QED
  BY <1>1, <1>2, <1>3, <1>4, <1>5, <1>6, <1>7, <1>8, <1>10, <1>12, <1>13, <1>14
     DEF Next, Check, Abandon, Crash

(* As long as the project is not edited while a check runs, a served verdict
   was reached from exactly the files that are there: no crash in the middle
   of a write and no overlap of writers can make the cache lie. *)
THEOREM HitsAreCertified ==
  ASSUME ~EditsDuringRun
  PROVE  Spec => []HitIsCertified
<1>1. Spec => []IInv
  BY InitIInv, CertifyStep, PTL DEF Spec
<1>2. IInv => HitIsCertified
  BY DEF IInv
<1> QED
  BY <1>1, <1>2, PTL

-----------------------------------------------------------------------------
(* The kind and the depth of what is served; edits make no difference here. *)

(* An invocation saves only if it may. *)
OnlySaversSave ==
  \A p \in Procs :
    proc[p].at \in {"hash", "open", "head", "tail"} => Saves(proc[p].request.kind)

(* A block has the mode of its verdict, which every check had a part in. *)
IsWhole(e) == /\ e.deep = e.result.request.deep
              /\ e.result.request.kind \in {"plain", "model"}
BlocksAreWhole == /\ disk.head # Hole => IsWhole(disk.head)
                  /\ disk.tail # Hole => IsWhole(disk.tail)

AInv == /\ TypeOK
        /\ OnlySaversSave
        /\ BlocksAreWhole
        /\ HitAnswersTheRequest

(* What is saved is of a run with every check on. *)
LEMMA SavedIsWhole ==
  ASSUME NEW k \in AllKinds, Saves(k)
  PROVE  k \in {"plain", "model"}
BY DEF AllKinds, Saves

(* A step of one invocation that leaves the cache and the history alone. *)
LEMMA StepAside ==
  ASSUME AInv, TypeOK', NEW p \in Procs, UNCHANGED disk,
         served' \in {served, {}}, proc' = [proc EXCEPT ![p] = proc'[p]],
         proc'[p].at \in {"hash", "open", "head", "tail"} => Saves(proc'[p].request.kind)
  PROVE  AInv'
<1> USE DEF AInv
<1>1. \A q \in Procs \ {p} : proc'[q] = proc[q]
  BY DEF TypeOK
<1>2. OnlySaversSave'
  BY <1>1 DEF OnlySaversSave, Running
<1> QED
  BY <1>2 DEF BlocksAreWhole, HitAnswersTheRequest

LEMMA InitAInv == Init => AInv
<1> SUFFICES ASSUME Init PROVE AInv
  OBVIOUS
<1>1. \A p \in Procs : proc[p].at = "idle"
  BY IdleType DEF Init
<1> QED
  BY <1>1, InitTInv DEF Init, AInv, TInv, OnlySaversSave, BlocksAreWhole,
     HitAnswersTheRequest, Running

LEMMA AnswerStep ==
  ASSUME ~BlankSeam, TypeOK'
  PROVE  AInv /\ [Next]_vars => AInv'
<1> SUFFICES ASSUME AInv, [Next]_vars PROVE AInv'
  OBVIOUS
<1> USE DEF AInv
<1>1. ASSUME NEW f \in Files, Edit(f) PROVE AInv'
  BY <1>1 DEF Edit, OnlySaversSave, BlocksAreWhole, HitAnswersTheRequest, Running
<1>2. ASSUME NEW p \in Procs, Launch(p) PROVE AInv'
  <2>1. PICK k \in Kinds, d \in BOOLEAN :
          proc' = [proc EXCEPT ![p] = [Idle EXCEPT
                     !.at = "lookup", !.request = [kind |-> k, deep |-> d]]]
    BY <1>2 DEF Launch
  <2>2. /\ proc'[p].at = "lookup" /\ proc'[p].request.kind = k
        /\ proc' = [proc EXCEPT ![p] = proc'[p]]
    BY <2>1 DEF TypeOK, Idle
  <2> QED
    BY <1>2, <2>2, StepAside DEF Launch
<1>3. ASSUME NEW p \in Procs, proc' = [proc EXCEPT ![p] = Idle],
             UNCHANGED <<disk, served>>
      PROVE  AInv'
  <2>1. proc'[p].at = "idle" /\ proc' = [proc EXCEPT ![p] = proc'[p]]
    BY <1>3, IdleType DEF TypeOK
  <2> QED
    BY <1>3, <2>1, StepAside
<1>4. ASSUME NEW p \in Procs, Hit(p) PROVE AInv'
  <2>1. /\ disk.head # Hole /\ disk.tail # Hole
        /\ disk.head.deep = disk.tail.deep /\ disk.head.deep = proc[p].request.deep
    BY <1>4 DEF Hit, Matches, Parses, ModeMatches
  <2>a. proc[p].request.kind = "plain"
    BY <1>4 DEF Hit, LooksUp, AllKinds, TypeOK, Request
  <2>2. HitAnswersTheRequest'
    BY <1>4, <2>1, <2>a DEF Hit, HitAnswersTheRequest, BlocksAreWhole, IsWhole
  <2>3. \A q \in Procs : proc'[q] = IF q = p THEN Idle ELSE proc[q]
    BY <1>4 DEF Hit, TypeOK
  <2>4. OnlySaversSave'
    BY <2>3, IdleType DEF OnlySaversSave, Running
  <2> QED
    BY <1>4, <2>2, <2>4 DEF Hit, BlocksAreWhole
<1>5. ASSUME NEW p \in Procs, Running(p), UNCHANGED <<disk, served>>,
             proc'[p].at \in Places \ {"idle"}, proc' = [proc EXCEPT ![p] = proc'[p]],
             proc'[p].request = proc[p].request,
             proc'[p].at \in {"hash", "open", "head", "tail"} =>
               Saves(proc[p].request.kind)
      PROVE  AInv'
  BY <1>5, StepAside DEF OnlySaversSave
<1>6. ASSUME NEW p \in Procs, Miss(p) PROVE AInv'
  BY <1>5, <1>6 DEF Miss, Running, TypeOK, Places
<1>7. ASSUME NEW p \in Procs, NEW f \in Files, Analyse(p, f) PROVE AInv'
  BY <1>5, <1>7 DEF Analyse, Running, TypeOK, Places
<1>8. ASSUME NEW p \in Procs, Conclude(p) PROVE AInv'
  <2>1. CASE Saves(proc[p].request.kind)
    BY <1>5, <1>8, <2>1 DEF Conclude, Running, TypeOK, Places
  <2>2. CASE ~Saves(proc[p].request.kind)
    BY <1>3, <1>8, <2>2 DEF Conclude
  <2> QED
    BY <2>1, <2>2
<1>9. ASSUME NEW p \in Procs, Hash(p) PROVE AInv'
  BY <1>5, <1>9 DEF Hash, Running, TypeOK, Places, OnlySaversSave
<1>10. ASSUME NEW p \in Procs, Open(p) PROVE AInv'
  <2>1. CASE proc' = [proc EXCEPT ![p] = Idle] /\ UNCHANGED disk
    BY <1>3, <1>10, <2>1 DEF Open
  <2>2. CASE disk' = [head |-> Hole, tail |-> Hole] /\ proc' = [proc EXCEPT ![p].at = "head"]
    <3>1. OnlySaversSave'
      BY <1>10, <2>2 DEF Open, OnlySaversSave, Running, TypeOK
    <3> QED
      BY <1>10, <2>2, <3>1 DEF Open, BlocksAreWhole, HitAnswersTheRequest
  <2> QED
    BY <1>10, <2>1, <2>2 DEF Open
<1>11. ASSUME NEW p \in Procs, proc[p].at \in {"head", "tail"}
       PROVE  IsWhole(EntryOf(p))
  <2>1. proc[p].request.kind \in AllKinds /\ Saves(proc[p].request.kind)
    BY <1>11 DEF OnlySaversSave, TypeOK, Request
  <2> QED
    BY <2>1, SavedIsWhole DEF IsWhole, EntryOf
<1>12. ASSUME NEW p \in Procs, WriteHead(p) PROVE AInv'
  <2>1. disk'.head = EntryOf(p) /\ disk'.tail = disk.tail /\ served' = served
    BY <1>12 DEF WriteHead, TypeOK
  <2>2. OnlySaversSave'
    BY <1>12 DEF WriteHead, OnlySaversSave, Running, TypeOK
  <2> QED
    BY <1>11, <1>12, <2>1, <2>2 DEF WriteHead, BlocksAreWhole, HitAnswersTheRequest, IsWhole
<1>13. ASSUME NEW p \in Procs, WriteTail(p) PROVE AInv'
  <2>1. disk'.tail = EntryOf(p) /\ disk'.head = disk.head /\ served' = served
    BY <1>13 DEF WriteTail, TypeOK
  <2>2. \A q \in Procs : proc'[q] = IF q = p THEN Idle ELSE proc[q]
    BY <1>13 DEF WriteTail, TypeOK
  <2>3. OnlySaversSave'
    BY <2>2, IdleType DEF OnlySaversSave, Running
  <2> QED
    BY <1>11, <1>13, <2>1, <2>3 DEF WriteTail, BlocksAreWhole, HitAnswersTheRequest, IsWhole
<1>14. CASE UNCHANGED vars
  BY <1>14 DEF vars, OnlySaversSave, BlocksAreWhole, HitAnswersTheRequest, Running
<1> QED
  BY <1>1, <1>2, <1>3, <1>4, <1>6, <1>7, <1>8, <1>9, <1>10, <1>12, <1>13, <1>14
     DEF Next, Check, Abandon, Crash

(* A verdict is never served for another depth, nor one that was reached with
   fewer checks, whatever overlaps, crashes or is edited, unless the blocks of
   two writers meet in white space. *)
THEOREM HitsAnswerTheRequest ==
  ASSUME ~BlankSeam
  PROVE  Spec => []HitAnswersTheRequest
<1>1. TypeOK' /\ AInv /\ [Next]_vars => AInv'
  BY AnswerStep
<1>2. AInv => HitAnswersTheRequest
  BY DEF AInv
<1> QED
  BY <1>1, <1>2, InitAInv, TypeCorrect, PTL DEF Spec
=============================================================================
