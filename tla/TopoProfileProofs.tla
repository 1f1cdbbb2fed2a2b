------------------------- MODULE TopoProfileProofs -------------------------
(***************************************************************************)
(* What holds of topo-profile for every command line, every set of lines a *)
(* target may write and any number of them, and every width of the times.  *)
(***************************************************************************)
EXTENDS TopoProfile, FiniteSetTheorems, SequenceTheorems, TLAPS

(* What the guards let through, by mode. *)
LEMMA AcceptedModes ==
  ASSUME NEW c, Accepted(c)
  PROVE  /\ ~Misplaced(c) /\ c.mode \in Modes
         /\ c.mode \in {"sampling", "hybrid"} => samplingInputCount(c) = 1
         /\ c.mode = "async-profiler" =>
              /\ c.type \in Types
              /\ samplingInputCount(c) <= 1 /\ "async" \in c.inputs
         /\ c.mode = "sys-monitoring" =>
              samplingInputCount(c) <= 1 /\ "sysmon" \in c.inputs
BY DEF Accepted, SamplingFits, AsyncProfilerFits, SysMonitoringFits, HybridFits,
       SpansFits, Modes

-----------------------------------------------------------------------------
(* Times: whatever a record has, what is calculated from it is an int64_t. *)
LEMMA IntType == Top \in Int /\ Bottom \in Int /\ Bottom < 0 /\ Top >= 0
BY TopAssumption DEF Bottom

LEMMA NsType == ASSUME NEW f \in Field PROVE Ns(f) \in Bottom .. Top
<1>1. CASE f.form = "int"
  <2>1. f.n \in Bottom .. 2 * Top + 1
    BY <1>1 DEF Field
  <2> QED BY <1>1, <2>1, TopAssumption DEF Ns, Wrapped, Bottom
<1>2. CASE f.form = "float"
  <2>1. f.n \in Int
    BY <1>2 DEF Field
  <2> QED BY <1>2, <2>1, TopAssumption DEF Ns, Clamped, Bottom
<1>3. CASE f.form = "other"
  BY <1>3, TopAssumption DEF Ns, Bottom
<1> QED BY <1>1, <1>2, <1>3 DEF Field

LEMMA EndType ==
  ASSUME NEW s \in Int, NEW d \in Int
  PROVE  End(s, d) \in Bottom .. Top
BY IntType DEF End

LEMMA SpanType ==
  ASSUME NEW r \in Record, IsSpan(r), NEW k \in 1 .. MaxRecords
  PROVE  SpanOf(k, r) \in Span
<1>1. r.ts \in Field /\ r.dur \in Field /\ r.dur.form = "int"
  BY DEF Record, IsSpan
<1>2. Ns(r.ts) \in Bottom .. Top /\ Ns(r.dur) = Wrapped(r.dur.n)
  BY <1>1, NsType DEF Ns
<1>3. Wrapped(r.dur.n) \in Int /\ Ns(r.ts) \in Int
  BY <1>1, <1>2, NsType, IntType
<1> QED BY <1>2, <1>3, EndType DEF SpanOf, Span

LEMMA EventType ==
  ASSUME NEW r \in Record, NEW k \in 1 .. MaxRecords
  PROVE  EventOf(k, r) \in Event
<1>1. r.ts \in Field
  BY DEF Record
<1> QED BY <1>1, NsType DEF EventOf, Event

-----------------------------------------------------------------------------
(* The inputs, and which of them is converted when it is the only one. *)
LEMMA InputsFinite == ASSUME NEW S \in SUBSET Inputs PROVE IsFiniteSet(S)
<1>1. Order \in Surjection(1 .. 8, Inputs)
  BY DEF Surjection, Inputs, Order
<1>2. IsFiniteSet(1 .. 8)
  BY FS_Interval, 1 \in Int, 8 \in Int
<1>3. IsFiniteSet(Inputs)
  BY <1>1, <1>2, FS_Surjection
<1> QED BY <1>3, FS_Subset

LEMMA PickedIsTheOne ==
  ASSUME NEW c, NEW k \in Inputs, c.inputs = {k}
  PROVE  Picked(c) = k
<1>1. \E i \in DOMAIN Order : /\ Order[i] \in c.inputs
                              /\ \A j \in 1 .. i - 1 : Order[j] \notin c.inputs
  <2>1. PICK i \in 1 .. 8 : Order[i] = k
    BY DEF Inputs, Order
  <2>2. \A j \in 1 .. 8 : Order[j] = Order[i] => j = i
    BY <2>1 DEF Order
  <2>3. DOMAIN Order = 1 .. 8
    BY DEF Order
  <2> QED BY <2>1, <2>2, <2>3
<1> QED BY <1>1 DEF Picked

(* What the guards let through to a conversion has exactly one input. *)
LEMMA OneInputAccepted ==
  ASSUME NEW c \in Config, Accepted(c), c.mode # "spans"
  PROVE  /\ Picked(c) \in Inputs
         /\ c.inputs = {Picked(c)}
         /\ c.mode = "async-profiler" => Picked(c) = "async"
         /\ c.type \in Types \/ Picked(c) # "async"
<1>1. c.inputs \in SUBSET Inputs /\ IsFiniteSet(c.inputs)
  BY InputsFinite DEF Config
<1>2. Cardinality(c.inputs) = 1
  <2>1. CASE c.mode \in {"sampling", "hybrid"}
    BY <2>1, AcceptedModes DEF samplingInputCount
  <2>2. CASE c.mode \in {"async-profiler", "sys-monitoring"}
    <3>1. c.inputs # {} /\ Cardinality(c.inputs) <= 1
      BY <2>2, AcceptedModes DEF samplingInputCount
    <3> QED BY <3>1, <1>1, FS_EmptySet, FS_CardinalityType
  <2> QED BY <2>1, <2>2, AcceptedModes DEF Modes
<1>3. PICK k : c.inputs = {k}
  BY <1>1, <1>2, FS_Singleton
<1>4. k \in Inputs /\ Picked(c) = k
  BY <1>1, <1>3, PickedIsTheOne
<1>5. c.mode = "async-profiler" => k = "async" /\ c.type \in Types
  BY <1>3, AcceptedModes
<1>6. k = "async" => c.mode = "async-profiler"
  <2>1. SUFFICES ASSUME k = "async" PROVE c.mode = "async-profiler"
    OBVIOUS
  <2>2. "async" \in c.inputs \cap DOMAIN SoleMode /\ SoleMode["async"] = "async-profiler"
    BY <2>1, <1>3 DEF SoleMode
  <2> QED BY <2>2, AcceptedModes DEF Misplaced
<1> QED BY <1>3, <1>4, <1>5, <1>6

-----------------------------------------------------------------------------
LEMMA TakenType ==
  ASSUME cfg \in Config, NEW a \in Argument, ~Wrong(a)
  PROVE  Taken(a) \in Config
<1>1. CASE ~IsOwn(a)
  <2>1. Append(cfg.args, a) \in Seq(Argument)
    BY DEF Config
  <2> QED BY <1>1, <2>1 DEF Taken, Config
<1>2. CASE IsOwn(a) /\ a.flag = "--"
  BY <1>2 DEF Taken, Config
<1>3. CASE IsOwn(a) /\ a.flag = "--mode"
  BY <1>3 DEF Taken, Config, Argument, Inputs, Order
<1>4. CASE IsOwn(a) /\ a.flag = "--type"
  BY <1>4 DEF Taken, Config, Argument, Inputs, Order
<1>5. CASE IsOwn(a) /\ a.flag = "--jfr-bridge-jar"
  BY <1>5 DEF Taken, Config, Argument, Inputs, Order
<1>6. CASE IsOwn(a) /\ a.flag = "--sourcemap-search-root"
  BY <1>6 DEF Taken, Config
<1>7. CASE IsOwn(a) /\ a.flag = "target"
  BY <1>7 DEF Taken, Config, Argument, Inputs, Order
<1>8. CASE IsOwn(a) /\ a.flag \notin {"--", "--mode", "--type", "--jfr-bridge-jar",
                                     "--sourcemap-search-root", "target"}
  <2>1. a.flag \in Inputs
    BY <1>8 DEF Argument, Wrong
  <2> QED BY <1>8, <2>1 DEF Taken, Config
<1> QED BY <1>1, <1>2, <1>3, <1>4, <1>5, <1>6, <1>7, <1>8

LEMMA DefaultType == DefaultConfig \in Config
BY DEF DefaultConfig, Config, Modes, Types

LEMMA JarType ==
  ASSUME NEW c \in Config, there \subseteq Paths
  PROVE  Jar(c) \in Paths \cup {None}
BY DEF Jar, Config

-----------------------------------------------------------------------------
(* Where topo-profile is, and what that says of the rest. *)
Begun == at \notin {"line", "guards", "spawn"}
Placed ==
  /\ at \in {"spawn", "drain", "sampling", "print"} => Accepted(cfg)
  /\ at \in {"spawn", "drain"} => Spawns(cfg)
  /\ at = "drain" => target # "none"
  /\ at \notin {"drain"} => target \in {"none", "ended"} /\ read = Len(written)
  /\ ~Begun => target = "none"
  /\ target = "none" => written = <<>> /\ ~failed
  /\ at = "sampling" => cfg.mode # "spans"
  /\ at = "print" => IF cfg.mode = "spans" THEN sampling = NoSegment
                     ELSE /\ sampling = Segment(cfg)
                          /\ Picked(cfg) = "jfrBinary" => Jar(cfg) # None
  /\ at \in {"line", "guards", "spawn", "drain", "sampling"} => sampling = NoSegment

TypePlaced == TypeOK /\ Placed

LEMMA SameCommand ==
  ASSUME UNCHANGED command
  PROVE  /\ cfg' = cfg /\ there' = there /\ env' = env
         /\ Accepted(cfg)' <=> Accepted(cfg)
         /\ Picked(cfg)' = Picked(cfg)
         /\ Jar(cfg)' = Jar(cfg)
         /\ Segment(cfg)' = Segment(cfg)
         /\ Spawns(cfg)' <=> Spawns(cfg)
<1>1. cfg' = cfg /\ there' = there /\ env' = env
  BY DEF command
<1>2. Picked(cfg)' = Picked(cfg) /\ Jar(cfg)' = Jar(cfg)
  BY <1>1 DEF Picked, Jar
<1>3. (Accepted(cfg)' <=> Accepted(cfg)) /\ (Spawns(cfg)' <=> Spawns(cfg))
  BY <1>1 DEF Accepted, SamplingFits, AsyncProfilerFits, SysMonitoringFits, HybridFits,
              SpansFits, Misplaced, samplingInputCount, MapsFit, Spawns
<1> QED BY <1>1, <1>2, <1>3 DEF Segment

LEMMA Start == Init => TypePlaced
<1> SUFFICES ASSUME Init PROVE TypePlaced
  OBVIOUS
<1>1. parsed = 0 /\ argv \in Seq(Argument) /\ argv \in CommandLines
  BY LinesAssumption DEF Init
<1>2. TypeOK
  <2>1. /\ written \in Seq(Records) /\ Len(written) <= MaxRecords
        /\ read \in 0 .. Len(written)
    BY BoundAssumption DEF Init
  <2>2. spans \in Seq(Span) /\ passEvents \in [Passes -> Seq(Event)]
    BY DEF Init
  <2>3. parsed \in 0 .. Len(argv)
    BY <1>1
  <2>4. sampling \in [of : Inputs \cup {None}, jar : Paths \cup {None},
                     type : Types \cup {None}]
    BY DEF Init, NoSegment
  <2> QED BY <1>1, <2>1, <2>2, <2>3, <2>4, DefaultType DEF Init, TypeOK, Places
<1>3. Placed
  BY DEF Init, Placed, Begun
<1> QED BY <1>2, <1>3 DEF TypePlaced

LEMMA ParseStep == ASSUME TypePlaced, Parse PROVE TypePlaced'
<1>1. argv \in Seq(Argument) /\ parsed + 1 \in 1 .. Len(argv)
  BY LinesAssumption DEF TypePlaced, TypeOK, Parse
<1>2. argv[parsed + 1] \in Argument
  BY <1>1, ElementOfSeq
<1>3. CASE Wrong(argv[parsed + 1])
  BY <1>3 DEF Parse, TypePlaced, TypeOK, Placed, Begun, Places, Ends, stream
<1>4. CASE ~Wrong(argv[parsed + 1])
  <2>1. cfg' \in Config /\ parsed' = parsed + 1 /\ at' = "line" /\ exit' = exit
    BY <1>2, <1>4, TakenType DEF TypePlaced, TypeOK, Parse, Goes
  <2>2. TypeOK'
    BY <1>1, <2>1 DEF Parse, TypePlaced, TypeOK, Places, stream
  <2>3. Placed'
    BY <2>1 DEF Parse, TypePlaced, Placed, Begun, stream
  <2> QED BY <2>2, <2>3 DEF TypePlaced
<1> QED BY <1>3, <1>4

LEMMA DrainStep == ASSUME TypePlaced, Drain PROVE TypePlaced'
<1> DEFINE k == read + 1
           r == written[k]
<1>1. k \in 1 .. Len(written) /\ k \in 1 .. MaxRecords /\ written \in Seq(Records)
  BY BoundAssumption DEF TypePlaced, TypeOK, Drain
<1>2. r \in Record
  BY <1>1, ElementOfSeq, RecordsAssumption
<1>3. spans' \in Seq(Span)
  BY <1>1, <1>2, SpanType DEF TypePlaced, TypeOK, Drain
<1>4. passEvents' \in [Passes -> Seq(Event)]
  <2>1. EventOf(k, r) \in Event
    BY <1>1, <1>2, EventType
  <2>2. IsPassEvent(r) => r.pass \in Passes
    BY <1>2 DEF IsPassEvent, Record
  <2> QED BY <2>1, <2>2 DEF TypePlaced, TypeOK, Drain
<1>5. TypeOK'
  BY <1>1, <1>3, <1>4 DEF TypePlaced, TypeOK, Drain, command, result
<1>6. Placed'
  BY SameCommand DEF TypePlaced, TypeOK, Placed, Begun, Drain, result
<1> QED BY <1>5, <1>6 DEF TypePlaced

LEMMA ConvertStep == ASSUME TypePlaced, Convert PROVE TypePlaced'
<1>1. cfg \in Config /\ Accepted(cfg) /\ cfg.mode # "spans"
  BY DEF TypePlaced, TypeOK, Placed, Convert
<1>2. Picked(cfg) \in Inputs /\ (cfg.type \in Types \/ Picked(cfg) # "async")
  BY <1>1, OneInputAccepted
<1>3. Jar(cfg) \in Paths \cup {None}
  BY <1>1, JarType DEF TypePlaced, TypeOK
<1>4. sampling' \in [of : Inputs \cup {None}, jar : Paths \cup {None},
                    type : Types \cup {None}]
  BY <1>2, <1>3 DEF Convert, Segment
<1>5. TypeOK'
  BY <1>4 DEF TypePlaced, TypeOK, Convert, Goes, Places, command, stream
<1>6. Placed'
  BY <1>1, SameCommand DEF TypePlaced, Placed, Begun, Convert, Goes, stream
<1> QED BY <1>5, <1>6 DEF TypePlaced

LEMMA Progress == ASSUME TypePlaced, [Next]_vars PROVE TypePlaced'
<1> USE DEF TypePlaced
<1>1. CASE Parse
  BY <1>1, ParseStep
<1>2. CASE Parsed
  BY <1>2 DEF Parsed, TypeOK, Placed, Begun, Goes, Places, command, stream
<1>3. CASE Guard
  <2>1. Accepted(cfg) => cfg.mode \in Modes
    BY AcceptedModes
  <2>2. TypeOK'
    BY <1>3 DEF Guard, TypeOK, Goes, Ends, Refusal, Places, command, stream
  <2> QED BY <1>3, <2>1, <2>2, SameCommand
          DEF Guard, Placed, Begun, Goes, Ends, Spawns, Modes, stream
<1>4. CASE Spawn
  <2>1. TypeOK'
    BY <1>4 DEF Spawn, TypeOK, Goes, Ends, Places, command
  <2> QED BY <1>4, <2>1, SameCommand DEF Spawn, TypeOK, Placed, Begun, Goes, Ends
<1>5. CASE Drain
  BY <1>5, DrainStep
<1>6. CASE Stop
  <2>1. TypeOK'
    BY <1>6 DEF Stop, TypeOK, Goes, Places, command
  <2> QED BY <1>6, <2>1, SameCommand
          DEF Stop, EndOfOutput, Placed, Begun, Goes, Spawns, TypeOK
<1>7. CASE Unreadable \/ NoBridge \/ Unparsable
  BY <1>7 DEF Unreadable, NoBridge, Unparsable, TypeOK, Placed, Begun, Ends, Places,
              command, stream
<1>8. CASE Convert
  BY <1>8, ConvertStep
<1>9. CASE PrintDocument
  BY <1>9 DEF PrintDocument, Code, TypeOK, Placed, Begun, Ends, Places, command, stream
<1>10. CASE Write
  <2>1. PICK r \in Records : written' = Append(written, r)
    BY <1>10 DEF Write
  <2>2. /\ written' \in Seq(Records) /\ Len(written') = Len(written) + 1
        /\ Len(written) < MaxRecords /\ Len(written) \in Nat
    BY <1>10, <2>1 DEF Write, TypeOK
  <2>3. TypeOK'
    BY <1>10, <2>2, BoundAssumption DEF Write, TypeOK, command, result
  <2> QED BY <1>10, <2>3, SameCommand DEF Write, Placed, Begun, result
<1>11. CASE Close
  <2>1. TypeOK'
    BY <1>11 DEF Close, TypeOK, command, result
  <2> QED BY <1>11, <2>1, SameCommand DEF Close, Placed, Begun, result
<1>12. CASE Die
  <2>1. TypeOK'
    BY <1>12 DEF Die, TypeOK, command, result
  <2> QED BY <1>12, <2>1, SameCommand DEF Die, Placed, Begun, result
<1>13. CASE Finished \/ UNCHANGED vars
  <2>1. UNCHANGED vars /\ UNCHANGED command
    BY <1>13 DEF Finished, vars
  <2> QED BY <2>1, SameCommand DEF vars, TypeOK, Placed, Begun, command, stream, result
<1> QED
  BY <1>1, <1>2, <1>3, <1>4, <1>5, <1>6, <1>7, <1>8, <1>9, <1>10, <1>11, <1>12, <1>13
  DEF Next, Step, Target

(* The state has its type, whatever the command line and the target. *)
THEOREM TypeCorrect == Spec => []TypeOK
<1>1. Init => TypePlaced
  BY Start
<1>2. TypePlaced /\ [Next]_vars => TypePlaced'
  BY Progress
<1>3. TypePlaced => TypeOK
  BY DEF TypePlaced
<1> QED BY <1>1, <1>2, <1>3, PTL DEF Spec

-----------------------------------------------------------------------------
(* Where the lines have gone that are read. *)
SpanLines(n) == {k \in 1 .. n : ~IsPassEvent(written[k]) /\ IsSpan(written[k])}
EventLines(n, p) == {k \in 1 .. n : IsPassEvent(written[k]) /\ written[k].pass = p}
Sorted ==
  /\ Lines(spans) = SpanLines(read) /\ InOrder(spans)
  /\ \A p \in Passes : /\ Lines(passEvents[p]) = EventLines(read, p)
                       /\ InOrder(passEvents[p])
  /\ \A i \in DOMAIN spans : spans[i] = SpanOf(spans[i].line, written[spans[i].line])

(* A line that comes later may be appended. *)
LEMMA AppendLine ==
  ASSUME NEW S, NEW seq \in Seq(S), NEW e \in S, NEW n \in Nat,
         Lines(seq) \subseteq 1 .. n, InOrder(seq), e.line = n + 1
  PROVE  /\ Lines(Append(seq, e)) = Lines(seq) \cup {n + 1}
         /\ InOrder(Append(seq, e))
<1> DEFINE s == Append(seq, e)
<1>1. /\ Len(seq) \in Nat /\ DOMAIN seq = 1 .. Len(seq)
      /\ s \in Seq(S) /\ Len(s) = Len(seq) + 1 /\ DOMAIN s = 1 .. Len(seq) + 1
      /\ \A i \in 1 .. Len(seq) : s[i] = seq[i]
      /\ s[Len(seq) + 1] = e
  BY AppendProperties, LenProperties
<1>2. \A i \in 1 .. Len(seq) : seq[i].line \in 1 .. n
  BY <1>1 DEF Lines
<1> HIDE DEF s
<1>3. Lines(s) = Lines(seq) \cup {n + 1}
  <2>1. Lines(s) \subseteq Lines(seq) \cup {n + 1}
    BY <1>1 DEF Lines
  <2>2. Lines(seq) \subseteq Lines(s)
    BY <1>1 DEF Lines
  <2>3. n + 1 \in Lines(s)
    BY <1>1 DEF Lines
  <2> QED BY <2>1, <2>2, <2>3
<1>4. InOrder(s)
  <2> SUFFICES ASSUME NEW i \in DOMAIN s, NEW j \in DOMAIN s, i < j
               PROVE  s[i].line < s[j].line
    BY DEF InOrder
  <2>1. i \in 1 .. Len(seq)
    BY <1>1
  <2>2. CASE j \in 1 .. Len(seq)
    BY <1>1, <2>1, <2>2 DEF InOrder
  <2>3. CASE j = Len(seq) + 1
    BY <1>1, <1>2, <2>1, <2>3
  <2> QED BY <1>1, <2>2, <2>3
<1> QED BY <1>3, <1>4 DEF s

LEMMA DrainSorts == ASSUME TypePlaced, Sorted, Drain PROVE Sorted'
<1> DEFINE k == read + 1
           r == written[k]
<1>1. /\ k \in 1 .. Len(written) /\ k \in 1 .. MaxRecords
      /\ written \in Seq(Records) /\ read \in Nat
      /\ written' = written /\ read' = k
      /\ spans \in Seq(Span) /\ passEvents \in [Passes -> Seq(Event)]
  BY BoundAssumption DEF TypePlaced, TypeOK, Drain
<1>2. r \in Record
  BY <1>1, ElementOfSeq, RecordsAssumption
<1>3. SpanLines(k) = IF ~IsPassEvent(r) /\ IsSpan(r) THEN SpanLines(read) \cup {k}
                                                    ELSE SpanLines(read)
  BY <1>1 DEF SpanLines
<1>4. \A p \in Passes :
        EventLines(k, p) = IF IsPassEvent(r) /\ r.pass = p
                           THEN EventLines(read, p) \cup {k} ELSE EventLines(read, p)
  BY <1>1 DEF EventLines
<1>5. SpanLines(read)' = SpanLines(k) /\ \A p \in Passes : EventLines(read, p)' = EventLines(k, p)
  BY <1>1 DEF SpanLines, EventLines
<1>6. SpanLines(read) \subseteq 1 .. read /\ \A p \in Passes : EventLines(read, p) \subseteq 1 .. read
  BY DEF SpanLines, EventLines
<1>7. /\ Lines(spans') = SpanLines(k) /\ InOrder(spans')
      /\ \A i \in DOMAIN spans' : spans'[i] = SpanOf(spans'[i].line, written[spans'[i].line])
  <2>1. CASE ~IsPassEvent(r) /\ IsSpan(r)
    <3>1. SpanOf(k, r) \in Span /\ SpanOf(k, r).line = k /\ spans' = Append(spans, SpanOf(k, r))
      BY <1>1, <1>2, <2>1, SpanType DEF Drain, SpanOf
    <3>2. Lines(spans') = SpanLines(k) /\ InOrder(spans')
      <4> DEFINE e == SpanOf(k, r)
      <4>1. /\ e \in Span /\ e.line = read + 1 /\ spans \in Seq(Span) /\ read \in Nat
            /\ Lines(spans) \subseteq 1 .. read /\ InOrder(spans)
        BY <1>1, <1>6, <3>1 DEF Sorted
      <4> HIDE DEF e
      <4>2. /\ Lines(Append(spans, e)) = Lines(spans) \cup {read + 1}
            /\ InOrder(Append(spans, e))
        BY <4>1, AppendLine
      <4> QED BY <1>3, <2>1, <3>1, <4>2 DEF Sorted, e
    <3>3. /\ DOMAIN spans = 1 .. Len(spans) /\ DOMAIN spans' = 1 .. Len(spans) + 1
          /\ \A i \in 1 .. Len(spans) : spans'[i] = spans[i]
          /\ spans'[Len(spans) + 1] = SpanOf(k, r) /\ Len(spans) \in Nat
      BY <1>1, <3>1, AppendProperties, LenProperties
    <3>4. \A i \in DOMAIN spans' : spans'[i] = SpanOf(spans'[i].line, written[spans'[i].line])
      BY <3>1, <3>3 DEF Sorted
    <3> QED BY <3>2, <3>4
  <2>2. CASE ~(~IsPassEvent(r) /\ IsSpan(r))
    BY <1>3, <2>2 DEF Sorted, Drain
  <2> QED BY <2>1, <2>2
<1>8. \A p \in Passes : Lines(passEvents'[p]) = EventLines(k, p) /\ InOrder(passEvents'[p])
  <2> SUFFICES ASSUME NEW p \in Passes
               PROVE  Lines(passEvents'[p]) = EventLines(k, p) /\ InOrder(passEvents'[p])
    OBVIOUS
  <2>1. CASE IsPassEvent(r) /\ r.pass = p
    <3>1. EventOf(k, r) \in Event /\ EventOf(k, r).line = k
      BY <1>1, <1>2, EventType DEF EventOf
    <3>2. passEvents'[p] = Append(passEvents[p], EventOf(k, r)) /\ passEvents[p] \in Seq(Event)
      BY <1>1, <2>1 DEF Drain
    <3> DEFINE e == EventOf(k, r)
               seq == passEvents[p]
    <3>3. /\ e \in Event /\ e.line = read + 1 /\ seq \in Seq(Event) /\ read \in Nat
          /\ Lines(seq) \subseteq 1 .. read /\ InOrder(seq)
      BY <1>1, <1>6, <3>1, <3>2 DEF Sorted
    <3> HIDE DEF e, seq
    <3>4. Lines(Append(seq, e)) = Lines(seq) \cup {read + 1} /\ InOrder(Append(seq, e))
      BY <3>3, AppendLine
    <3> QED BY <1>4, <2>1, <3>2, <3>4 DEF Sorted, e, seq
  <2>2. CASE ~(IsPassEvent(r) /\ r.pass = p)
    <3>1. passEvents'[p] = passEvents[p]
      BY <1>1, <2>2 DEF Drain
    <3> QED BY <1>4, <2>2, <3>1 DEF Sorted
  <2> QED BY <2>1, <2>2
<1> QED BY <1>1, <1>5, <1>7, <1>8 DEF Sorted, SpanOf

(* More lines do not change what the lines read so far are. *)
LEMMA WriteSorts == ASSUME TypePlaced, Sorted, Write PROVE Sorted'
<1>1. PICK r \in Records : written' = Append(written, r)
  BY DEF Write
<1>2. /\ written \in Seq(Records) /\ read \in 0 .. Len(written)
      /\ \A k \in 1 .. Len(written) : written'[k] = written[k]
  BY <1>1, AppendProperties DEF TypePlaced, TypeOK
<1>3. UNCHANGED <<read, spans, passEvents>>
  BY DEF Write
<1>4. \A k \in 1 .. read : written'[k] = written[k]
  BY <1>2
<1>5. /\ SpanLines(read)' = SpanLines(read)
      /\ \A p \in Passes : EventLines(read, p)' = EventLines(read, p)
  BY <1>3, <1>4 DEF SpanLines, EventLines
<1>6. \A i \in DOMAIN spans : spans[i].line \in 1 .. read
  BY DEF Sorted, Lines, SpanLines
<1> QED BY <1>3, <1>4, <1>5, <1>6 DEF Sorted, Lines, InOrder, SpanOf

LEMMA SortedStep == ASSUME TypePlaced, Sorted, [Next]_vars PROVE Sorted'
<1>1. CASE Drain
  BY <1>1, DrainSorts
<1>2. CASE Write
  BY <1>2, WriteSorts
<1>3. CASE UNCHANGED <<written, read, spans, passEvents>>
  BY <1>3 DEF Sorted, SpanLines, EventLines, Lines, InOrder, SpanOf
<1> QED
  BY <1>1, <1>2, <1>3
  DEF Next, Step, Target, Parse, Parsed, Guard, Spawn, Stop, Unreadable, NoBridge,
      Unparsable, Convert, PrintDocument, Close, Die, Finished, vars, stream

LEMMA SortedStart == Init => Sorted
<1> SUFFICES ASSUME Init PROVE Sorted
  OBVIOUS
<1>1. spans = <<>> /\ read = 0 /\ \A p \in Passes : passEvents[p] = <<>>
  BY DEF Init
<1> QED BY <1>1 DEF Sorted, Lines, InOrder, SpanLines, EventLines

-----------------------------------------------------------------------------
(* What is printed, and what the exit code is then. *)
Merged == IF cfg.mode = "spans" THEN sampling = NoSegment
          ELSE /\ sampling = Segment(cfg)
               /\ Picked(cfg) = "jfrBinary" => Jar(cfg) # None
Told ==
  /\ printed # <<>> => /\ at = "done" /\ printed = <<Document>> /\ exit = Code
                       /\ Accepted(cfg) /\ Merged
  /\ at = "done" /\ printed = <<>> => exit \in {1, 2}

IInv == TypePlaced /\ Sorted /\ Told

LEMMA SameDocument ==
  ASSUME UNCHANGED <<spans, passEvents, sampling>>
  PROVE  Document' = Document
BY DEF Document, Reported

LEMMA ToldStep == ASSUME TypePlaced, Told, [Next]_vars PROVE Told'
<1>1. CASE PrintDocument
  <2>1. printed = <<>> /\ at = "print"
    BY <1>1 DEF PrintDocument, Told
  <2>2. printed' = <<Document>> /\ at' = "done" /\ exit' = Code /\ Code' = Code
    BY <1>1, <2>1 DEF PrintDocument, Ends, Code, stream
  <2>3. Document' = Document
    BY <1>1, SameDocument DEF PrintDocument, stream
  <2>4. Accepted(cfg) /\ Merged
    BY <2>1 DEF TypePlaced, Placed, Merged
  <2>5. Accepted(cfg)' /\ Merged'
    BY <1>1, <2>4, SameCommand DEF PrintDocument, Merged
  <2> QED BY <2>2, <2>3, <2>5 DEF Told
<1>2. CASE at # "done" /\ printed' = printed /\ (at' # "done" \/ exit' \in {1, 2})
  BY <1>2 DEF Told
<1>3. CASE at = "done" /\ UNCHANGED vars
  <2>1. Document' = Document
    BY <1>3, SameDocument DEF vars, stream, result
  <2>2. UNCHANGED command
    BY <1>3 DEF vars
  <2>3. Merged' = Merged /\ Code' = Code
    BY <1>3, <2>2, SameCommand DEF Merged, Code, vars, stream, result
  <2> QED BY <1>3, <2>1, <2>2, <2>3, SameCommand DEF Told, vars, result
<1>4. CASE at # "done" /\ UNCHANGED vars
  BY <1>4 DEF Told, vars, result
<1>5. CASE Target
  <2>1. at # "done" /\ at' = at /\ printed' = printed
    BY <1>5 DEF Target, Write, Close, Die, TypePlaced, Placed, result
  <2> QED BY <1>2, <2>1
<1>6. CASE Step /\ ~PrintDocument
  BY <1>2, <1>6
  DEF Step, Parse, Parsed, Guard, Spawn, Drain, Stop, Unreadable, NoBridge, Unparsable,
      Convert, Ends, Goes, Refusal, result
<1> QED BY <1>1, <1>3, <1>4, <1>5, <1>6 DEF Next, Finished

LEMMA InvStart == Init => IInv
BY Start, SortedStart DEF IInv, Told, Init

LEMMA InvStep == IInv /\ [Next]_vars => IInv'
BY Progress, SortedStep, ToldStep DEF IInv

LEMMA Invariance == Spec => []IInv
BY InvStart, InvStep, PTL DEF Spec

(* A document that is printed has every line the target wrote before its
   output ended, each in its place and in the target's order. *)
THEOREM DocumentsAreWhole == Spec => []DocumentIsWhole
<1>1. IInv => DocumentIsWhole
  <2> SUFFICES ASSUME IInv, NEW i \in DOMAIN printed
               PROVE  LET d == printed[i] IN
        /\ Lines(d.spans) = {k \in DOMAIN written :
                               ~IsPassEvent(written[k]) /\ IsSpan(written[k])}
        /\ InOrder(d.spans)
        /\ \A p \in Passes :
             /\ Lines(Emits(d, p)) = {k \in DOMAIN written :
                                        written[k].event /\ written[k].pass = p}
             /\ InOrder(Emits(d, p))
    BY DEF DocumentIsWhole
  <2>1. printed[i] = Document /\ at = "done"
    BY DEF IInv, Told
  <2>2. read = Len(written) /\ DOMAIN written = 1 .. Len(written)
    BY <2>1 DEF IInv, TypePlaced, Placed, TypeOK
  <2>3. Document.spans = spans
    BY DEF Document
  <2>4. \A p \in Passes : Emits(Document, p) = passEvents[p]
    BY DEF Emits, Document, Reported
  <2>5. \A p \in Passes : EventLines(read, p) = {k \in DOMAIN written :
                                        written[k].event /\ written[k].pass = p}
    BY <2>2, PassesAssumption DEF EventLines, IsPassEvent
  <2>6. SpanLines(read) = {k \in DOMAIN written :
                             ~IsPassEvent(written[k]) /\ IsSpan(written[k])}
    BY <2>2 DEF SpanLines
  <2> QED BY <2>1, <2>3, <2>4, <2>5, <2>6 DEF IInv, Sorted
<1> QED BY <1>1, Invariance, PTL

(* What the exit code says of the document and of the target. *)
THEOREM ExitsTell == Spec => []ExitTells
<1>1. IInv => ExitTells
  <2> SUFFICES ASSUME IInv, at = "done" PROVE ExitTells
    BY DEF ExitTells
  <2>1. failed => target = "ended"
    BY DEF IInv, TypePlaced, Placed
  <2>2. CASE printed = <<>>
    BY <2>2 DEF IInv, Told, ExitTells
  <2>3. CASE printed # <<>>
    <3>1. Len(printed) = 1 /\ exit = Code
      BY <2>3 DEF IInv, Told
    <3> QED BY <2>1, <3>1 DEF Code, ExitTells, IInv, TypePlaced, TypeOK
  <2> QED BY <2>2, <2>3
<1> QED BY <1>1, Invariance, PTL

(* A sampling segment is that of the one input that was given. *)
THEOREM SegmentsAreOfTheInput == Spec => []SegmentIsOfTheInput
<1>1. IInv => SegmentIsOfTheInput
  <2> SUFFICES ASSUME IInv, NEW i \in DOMAIN printed
               PROVE  LET s == printed[i].sampling IN
        /\ s.of # None => cfg.inputs = {s.of}
        /\ (cfg.inputs \cap DOMAIN SoleMode # {} \/ cfg.mode # "spans") => s.of # None
        /\ s.of = "jfrBinary" => /\ s.jar \in there
                                 /\ cfg.jar # None => s.jar = cfg.jar
    BY DEF SegmentIsOfTheInput
  <2>1. printed[i].sampling = sampling /\ Accepted(cfg) /\ Merged
    BY DEF IInv, Told, Document
  <2>2. cfg \in Config /\ there \subseteq Paths
    BY DEF IInv, TypePlaced, TypeOK
  <2>3. CASE cfg.mode = "spans"
    <3>1. sampling = NoSegment
      BY <2>1, <2>3 DEF Merged
    <3>2. cfg.inputs \cap DOMAIN SoleMode = {}
      BY <2>1, <2>3, AcceptedModes DEF Misplaced, SoleMode
    <3> QED BY <2>1, <2>3, <3>1, <3>2 DEF NoSegment, None
  <2>4. CASE cfg.mode # "spans"
    <3>1. Picked(cfg) \in Inputs /\ cfg.inputs = {Picked(cfg)}
      BY <2>1, <2>2, <2>4, OneInputAccepted
    <3>2. Picked(cfg) # None
      BY <3>1 DEF Inputs, Order, None
    <3>3. sampling.of = Picked(cfg) /\ (Picked(cfg) = "jfrBinary" => sampling.jar = Jar(cfg) /\ Jar(cfg) # None)
      BY <2>1, <2>4 DEF Merged, Segment
    <3>4. Jar(cfg) # None => Jar(cfg) \in there /\ (cfg.jar # None => Jar(cfg) = cfg.jar)
      BY DEF Jar
    <3> QED BY <2>1, <3>1, <3>2, <3>3, <3>4
  <2> QED BY <2>3, <2>4
<1> QED BY <1>1, Invariance, PTL

(* No span ends before it starts unless its duration says so, at any width. *)
THEOREM SpansAreForward == Spec => []SpansRunForward
<1>1. IInv => SpansRunForward
  <2> SUFFICES ASSUME IInv, NEW i \in DOMAIN spans
               PROVE  LET s == spans[i]
                          r == written[s.line] IN
        /\ r.dur.n \in 0 .. Top =>
             /\ s.start <= s.end
             /\ \/ s.end = s.start + r.dur.n
                \/ s.end = Top /\ s.start + r.dur.n > Top
        /\ r.ts.form = "float" => (s.start < 0) = (r.ts.n < 0)
    BY DEF SpansRunForward
  <2> DEFINE r == written[spans[i].line]
  <2>1. spans[i].line \in 1 .. Len(written) /\ written \in Seq(Records)
    BY DEF IInv, Sorted, Lines, SpanLines, TypePlaced, TypeOK
  <2>2. r \in Record
    BY <2>1, ElementOfSeq, RecordsAssumption
  <2>3. r.ts \in Field /\ r.dur \in Field
    BY <2>2 DEF Record
  <2>4. spans[i].start = Ns(r.ts) /\ spans[i].end = End(Ns(r.ts), Wrapped(r.dur.n))
    BY DEF IInv, Sorted, SpanOf
  <2>5. Ns(r.ts) \in Bottom .. Top
    BY <2>3, NsType
  <2>6. ASSUME r.dur.n \in 0 .. Top
        PROVE  /\ spans[i].start <= spans[i].end
               /\ \/ spans[i].end = spans[i].start + r.dur.n
                  \/ spans[i].end = Top /\ spans[i].start + r.dur.n > Top
    <3>1. Wrapped(r.dur.n) = r.dur.n
      BY <2>6, IntType DEF Wrapped
    <3> HIDE DEF r
    <3> QED BY <2>4, <2>5, <2>6, <3>1, IntType DEF End
  <2>7. ASSUME r.ts.form = "float" PROVE (spans[i].start < 0) = (r.ts.n < 0)
    <3>1. r.ts.n \in Int
      BY <2>3, <2>7 DEF Field
    <3>2. Ns(r.ts) = Clamped(r.ts.n)
      BY <2>7 DEF Ns
    <3> HIDE DEF r
    <3> QED BY <2>4, <3>1, <3>2, IntType DEF Clamped
  <2> QED BY <2>6, <2>7
<1> QED BY <1>1, Invariance, PTL

-----------------------------------------------------------------------------
(* The command line as far as it is parsed. *)
Before(n) == {i \in 1 .. parsed : i < n}
ParsedTo(n) ==
  /\ parsed >= n => cfg.dashed = TRUE
  /\ parsed < n => cfg.dashed = FALSE
  /\ cfg.args = SubSeq(argv, n + 1, parsed)
  /\ cfg.inputs = {argv[i].flag : i \in Before(n)} \cap Inputs
  /\ \A i \in Before(n) :
       argv[i].flag = "--mode" /\ (\A j \in Before(n) : j > i => argv[j].flag # "--mode")
         => cfg.mode = argv[i].value
ParsedSoFar == \A n \in 1 .. Len(argv) + 1 : IsSplit(n) => ParsedTo(n)

LEMMA ParseKeepsApart ==
  ASSUME TypePlaced, ParsedSoFar, Parse
  PROVE  ParsedSoFar'
<1> DEFINE k == parsed + 1
           a == argv[k]
<1>1. /\ argv \in Seq(Argument) /\ parsed \in Nat /\ k \in 1 .. Len(argv)
      /\ argv' = argv /\ cfg \in Config
  BY LinesAssumption DEF TypePlaced, TypeOK, Parse
<1>2. a \in Argument
  BY <1>1, ElementOfSeq
<1>3. CASE Wrong(a)
  BY <1>3, <1>1 DEF Parse, ParsedSoFar, ParsedTo, Before, IsSplit
<1>4. CASE ~Wrong(a)
  <2>1. cfg' = Taken(a) /\ parsed' = k
    BY <1>4 DEF Parse
  <2> SUFFICES ASSUME NEW n \in 1 .. Len(argv) + 1, IsSplit(n) PROVE ParsedTo(n)'
    BY <1>1 DEF ParsedSoFar, IsSplit
  <2>2. ParsedTo(n)
    BY DEF ParsedSoFar
  <2> DEFINE B == {i \in 1 .. k : i < n}
  <2>3. Before(n)' = B
    BY <2>1 DEF Before
  <2>4. SUFFICES /\ k >= n => cfg'.dashed = TRUE
                 /\ k < n => cfg'.dashed = FALSE
                 /\ cfg'.args = SubSeq(argv, n + 1, k)
                 /\ cfg'.inputs = {argv[i].flag : i \in B} \cap Inputs
                 /\ \A i \in B :
                      argv[i].flag = "--mode" /\ (\A j \in B : j > i => argv[j].flag # "--mode")
                        => cfg'.mode = argv[i].value
    BY <1>1, <2>1, <2>3 DEF ParsedTo
  <2>5. CASE k < n
    <3>1. IsOwn(a) /\ a.flag # "--"
      BY <1>1, <2>2, <2>5 DEF ParsedTo, IsOwn, IsSplit
    <3>2. B = Before(n) \cup {k} /\ k \notin Before(n) /\ \A i \in Before(n) : i < k
      BY <1>1, <2>5 DEF Before
    <3>3. SubSeq(argv, n + 1, k) = <<>> /\ SubSeq(argv, n + 1, parsed) = <<>>
      BY <1>1, <2>5, SubSeqEmpty
    <3>4. cfg'.dashed = cfg.dashed /\ cfg'.args = cfg.args
      BY <1>1, <2>1, <3>1 DEF Taken, Config
    <3>5. cfg'.mode = IF a.flag = "--mode" THEN a.value ELSE cfg.mode
      BY <1>1, <2>1, <3>1 DEF Taken, Config
    <3>6. cfg'.inputs = cfg.inputs \cup ({a.flag} \cap Inputs)
      <4>1. CASE a.flag \in {"--mode", "--type", "--jfr-bridge-jar",
                            "--sourcemap-search-root", "target"}
        <5>1. a.flag \notin Inputs
          BY <4>1 DEF Inputs, Order
        <5>2. cfg'.inputs = cfg.inputs
          BY <1>1, <2>1, <3>1, <4>1 DEF Taken, Config
        <5> QED BY <5>1, <5>2
      <4>2. CASE a.flag \notin {"--mode", "--type", "--jfr-bridge-jar",
                               "--sourcemap-search-root", "target"}
        <5>1. a.flag \in Inputs
          BY <1>2, <1>4, <3>1, <4>2 DEF Argument, Wrong
        <5>2. cfg'.inputs = cfg.inputs \cup {a.flag}
          BY <1>1, <2>1, <3>1, <4>2 DEF Taken, Config
        <5> QED BY <5>1, <5>2
      <4> QED BY <4>1, <4>2
    <3>7. {argv[i].flag : i \in B} = {argv[i].flag : i \in Before(n)} \cup {a.flag}
      BY <3>2
    <3>8. cfg'.inputs = {argv[i].flag : i \in B} \cap Inputs
      BY <2>2, <3>6, <3>7 DEF ParsedTo
    <3>9. ASSUME NEW i \in B, argv[i].flag = "--mode",
                 \A j \in B : j > i => argv[j].flag # "--mode"
          PROVE  cfg'.mode = argv[i].value
      <4>1. CASE i = k
        BY <3>5, <3>9, <4>1
      <4>2. CASE i # k
        <5>1. i \in Before(n) /\ k > i /\ a.flag # "--mode"
          BY <3>2, <3>9, <4>2
        <5> QED BY <2>2, <3>2, <3>5, <3>9, <5>1 DEF ParsedTo
      <4> QED BY <4>1, <4>2
    <3>10. cfg.dashed = FALSE /\ ~(k >= n)
      BY <1>1, <2>2, <2>5 DEF ParsedTo
    <3> QED BY <2>2, <3>3, <3>4, <3>8, <3>9, <3>10 DEF ParsedTo
  <2>6. CASE k = n
    <3>1. IsOwn(a) /\ a.flag = "--"
      BY <1>1, <2>2, <2>6 DEF ParsedTo, IsOwn, IsSplit
    <3>2. B = Before(n)
      BY <1>1, <2>6 DEF Before
    <3>3. SubSeq(argv, n + 1, k) = <<>> /\ SubSeq(argv, n + 1, parsed) = <<>>
      BY <1>1, <2>6, SubSeqEmpty
    <3>4. /\ cfg'.dashed = TRUE /\ cfg'.args = cfg.args
          /\ cfg'.inputs = cfg.inputs /\ cfg'.mode = cfg.mode
      BY <1>1, <2>1, <3>1 DEF Taken, Config
    <3>5. k >= n /\ ~(k < n)
      BY <1>1, <2>6
    <3> QED BY <2>2, <3>2, <3>3, <3>4, <3>5 DEF ParsedTo
  <2>7. CASE k > n
    <3>1. ~IsOwn(a) /\ cfg.dashed = TRUE
      BY <1>1, <2>2, <2>7 DEF ParsedTo, IsOwn
    <3>2. B = Before(n)
      BY <1>1, <2>7 DEF Before
    <3>3. SubSeq(argv, n + 1, k) = Append(SubSeq(argv, n + 1, parsed), a)
      <4>1. /\ n + 1 \in 1 .. Len(argv) /\ k \in n + 1 .. Len(argv)
        BY <1>1, <2>7
      <4>2. SubSeq(argv, n + 1, k) = SubSeq(argv, n + 1, k - 1) \o <<argv[k]>>
        BY <1>1, <4>1, SubSeqRecursiveSecond
      <4>3. SubSeq(argv, n + 1, k - 1) \in Seq(Argument)
        <5>1. \A i \in n + 1 .. k - 1 : argv[i] \in Argument
          BY <1>1, ElementOfSeq
        <5> QED BY <1>1, <5>1, SubSeqProperties
      <4>4. k - 1 = parsed
        BY <1>1
      <4> QED BY <1>2, <4>2, <4>3, <4>4, AppendIsConcat
    <3>4. /\ cfg'.dashed = cfg.dashed /\ cfg'.args = Append(cfg.args, a)
          /\ cfg'.inputs = cfg.inputs /\ cfg'.mode = cfg.mode
      BY <1>1, <2>1, <3>1 DEF Taken, Config
    <3>5. k >= n /\ ~(k < n)
      BY <1>1, <2>7
    <3> QED BY <2>2, <3>1, <3>2, <3>3, <3>4, <3>5 DEF ParsedTo
  <2>8. k < n \/ k = n \/ k > n
    BY <1>1
  <2> HIDE DEF k, B
  <2> QED BY <2>5, <2>6, <2>7, <2>8
<1> QED BY <1>3, <1>4

(* What stands behind `--` has no influence on topo-profile. *)
THEOREM TargetsKeepTheirArguments == Spec => []TargetKeepsItsArguments
<1> DEFINE Apart == ParsedSoFar /\ (at \notin {"line", "done"} => parsed = Len(argv))
<1>1. Init => Apart
  <2> SUFFICES ASSUME Init PROVE Apart
    OBVIOUS
  <2>1. /\ argv \in Seq(Argument) /\ parsed = 0 /\ at = "line"
        /\ cfg.inputs = {} /\ cfg.dashed = FALSE /\ cfg.args = <<>>
    BY LinesAssumption DEF Init, DefaultConfig
  <2>2. ASSUME NEW n \in 1 .. Len(argv) + 1 PROVE ParsedTo(n)
    <3>1. Before(n) = {} /\ SubSeq(argv, n + 1, parsed) = <<>> /\ parsed < n /\ ~(parsed >= n)
      BY <2>1, SubSeqEmpty DEF Before
    <3> QED BY <2>1, <3>1 DEF ParsedTo
  <2> QED BY <2>1, <2>2 DEF ParsedSoFar
<1>2. IInv /\ Apart /\ [Next]_vars => Apart'
  <2> SUFFICES ASSUME IInv, Apart, [Next]_vars PROVE Apart'
    OBVIOUS
  <2>1. CASE Parse
    <3>1. ParsedSoFar'
      BY <2>1, ParseKeepsApart DEF IInv
    <3>2. at' \in {"line", "done"}
      BY <2>1 DEF Parse, Goes, Ends
    <3> QED BY <3>1, <3>2
  <2>2. CASE UNCHANGED <<argv, parsed, cfg>> /\ (at' \in {"line", "done"} \/ parsed = Len(argv))
    BY <2>2 DEF ParsedSoFar, ParsedTo, Before, IsSplit
  <2>3. CASE ~Parse
    <3>1. UNCHANGED <<argv, parsed, cfg>>
      BY <2>3 DEF Next, Step, Target, Parsed, Guard, Spawn, Drain, Stop, Unreadable,
                  NoBridge, Unparsable, Convert, PrintDocument, Write, Close, Die, Finished,
                  vars, command
    <3>2. at' \in {"line", "done"} \/ parsed = Len(argv)
      BY <2>3 DEF Next, Step, Target, Parsed, Guard, Spawn, Drain, Stop, Unreadable,
                  NoBridge, Unparsable, Convert, PrintDocument, Write, Close, Die, Finished,
                  vars, Goes, Ends, IInv, TypePlaced, TypeOK, Placed
    <3> QED BY <2>2, <3>1, <3>2
  <2> QED BY <2>1, <2>3
<1>3. IInv /\ Apart => TargetKeepsItsArguments
  <2> SUFFICES ASSUME IInv, Apart, at \notin {"line", "done"},
                      NEW n \in 1 .. Len(argv) + 1, IsSplit(n)
               PROVE  /\ cfg.args = SubSeq(argv, n + 1, Len(argv))
                      /\ cfg.inputs = {argv[i].flag : i \in 1 .. n - 1} \cap Inputs
                      /\ \A i \in 1 .. n - 1 : IsLast(i, "--mode", n) => cfg.mode = argv[i].value
    BY DEF TargetKeepsItsArguments
  <2>1. parsed = Len(argv) /\ ParsedTo(n) /\ Len(argv) \in Nat
    BY LinesAssumption DEF ParsedSoFar, IInv, TypePlaced, TypeOK
  <2>2. Before(n) = 1 .. n - 1
    BY <2>1 DEF Before
  <2>3. ASSUME NEW i \in 1 .. n - 1, IsLast(i, "--mode", n) PROVE cfg.mode = argv[i].value
    BY <2>1, <2>2, <2>3 DEF ParsedTo, IsLast
  <2> QED BY <2>1, <2>2, <2>3 DEF ParsedTo
<1> QED BY <1>1, <1>2, <1>3, Invariance, PTL DEF Spec

-----------------------------------------------------------------------------
(* Nothing but a target that goes on writing makes more work.              *)

(* What topo-profile has still to do, at most: an argument each, the lines
   that are written and not read, and its phases. *)
WorkLeft ==
  CASE at = "line"     -> Len(argv) - parsed + 6
    [] at = "guards"   -> 5
    [] at = "spawn"    -> 4
    [] at = "drain"    -> Len(written) - read + 3
    [] at = "sampling" -> 2
    [] at = "print"    -> 1
    [] OTHER           -> 0

TargetsAddLinesOnly ==
  [][\/ Step /\ WorkLeft' < WorkLeft
     \/ Target /\ WorkLeft' = WorkLeft + Len(written') - Len(written)]_vars

LEMMA LengthsType ==
  ASSUME TypePlaced
  PROVE  /\ Len(argv) \in Nat /\ parsed \in 0 .. Len(argv) /\ parsed \in Nat
         /\ Len(written) \in Nat /\ read \in 0 .. Len(written) /\ read \in Nat
BY LinesAssumption DEF TypePlaced, TypeOK

LEMMA WorkType == TypePlaced => WorkLeft \in Nat
<1> SUFFICES ASSUME TypePlaced PROVE WorkLeft \in Nat
  OBVIOUS
<1>1. Len(argv) - parsed \in Nat /\ Len(written) - read \in Nat
  BY LengthsType
<1>2. \A n \in Nat : n + 6 \in Nat /\ n + 3 \in Nat
  OBVIOUS
<1>3. Len(argv) - parsed + 6 \in Nat /\ Len(written) - read + 3 \in Nat
  BY <1>1, <1>2, Zenon
<1>4. CASE at \in {"line", "drain"}
  BY <1>3, <1>4, Zenon DEF WorkLeft
<1>5. CASE at \notin {"line", "drain"}
  BY <1>5 DEF WorkLeft
<1> QED BY <1>4, <1>5

LEMMA StepWorks == ASSUME TypePlaced, Step PROVE WorkLeft' < WorkLeft
<1> USE LengthsType DEF Goes, Ends
<1>1. CASE Parse
  <2>1. /\ argv' = argv /\ at = "line" /\ parsed < Len(argv)
        /\ \/ at' = "line" /\ parsed' = parsed + 1
           \/ at' = "done"
    BY <1>1 DEF Parse
  <2> QED BY <2>1 DEF WorkLeft
<1>2. CASE Parsed
  BY <1>2 DEF Parsed, WorkLeft
<1>3. CASE Guard
  BY <1>3 DEF Guard, WorkLeft
<1>4. CASE Spawn
  <2>1. Len(written) = 0 /\ read = 0
    BY <1>4 DEF Spawn, TypePlaced, Placed, Begun
  <2>2. UNCHANGED <<written, read>> /\ at = "spawn" /\ at' \in {"drain", "done"}
    BY <1>4 DEF Spawn
  <2> QED BY <2>1, <2>2 DEF WorkLeft
<1>5. CASE Drain
  BY <1>5 DEF Drain, WorkLeft
<1>6. CASE Stop
  BY <1>6 DEF Stop, EndOfOutput, WorkLeft
<1>7. CASE Unreadable \/ NoBridge \/ Unparsable \/ Convert \/ PrintDocument
  BY <1>7 DEF Unreadable, NoBridge, Unparsable, Convert, PrintDocument, WorkLeft
<1> QED
  BY <1>1, <1>2, <1>3, <1>4, <1>5, <1>6, <1>7 DEF Step

LEMMA TargetWorks ==
  ASSUME TypePlaced, Target
  PROVE  WorkLeft' = WorkLeft + Len(written') - Len(written)
<1>1. CASE Write
  <2>1. /\ at = "drain" /\ at' = at /\ read' = read /\ written \in Seq(Records)
        /\ \E r \in Records : written' = Append(written, r)
    BY <1>1 DEF Write, TypePlaced, TypeOK, Placed, command
  <2>2. Len(written') = Len(written) + 1
    BY <2>1
  <2> QED BY <2>1, <2>2, LengthsType DEF WorkLeft
<1>2. CASE Close \/ Die
  <2>1. UNCHANGED <<argv, parsed, at, read, written>>
    BY <1>2 DEF Close, Die, command
  <2>2. WorkLeft' = WorkLeft
    BY <2>1 DEF WorkLeft
  <2>3. WorkLeft \in Nat /\ Len(written) \in Nat /\ Len(written') = Len(written)
    BY <2>1, WorkType, LengthsType
  <2> QED BY <2>2, <2>3
<1> QED BY <1>1, <1>2 DEF Target

(* topo-profile works through a command line and a stream of any length with
   one step for each argument and each line and six for its phases.  Only the
   lines of a target that writes add to that, so once the output has ended a
   bounded number of steps is left: the safety part of OnlyTheTargetHoldsIt. *)
THEOREM OnlyLinesAreWork ==
  Spec => /\ WorkLeft = Len(argv) + 6
          /\ [](WorkLeft \in Nat)
          /\ TargetsAddLinesOnly
<1>1. Init => WorkLeft = Len(argv) + 6
  <2> SUFFICES ASSUME Init PROVE WorkLeft = Len(argv) + 6
    OBVIOUS
  <2>1. Len(argv) \in Nat
    BY LinesAssumption DEF Init
  <2> QED BY <2>1 DEF Init, WorkLeft
<1>2. IInv => WorkLeft \in Nat
  BY WorkType DEF IInv
<1>3. IInv /\ [Next]_vars
        => [\/ Step /\ WorkLeft' < WorkLeft
            \/ Target /\ WorkLeft' = WorkLeft + Len(written') - Len(written)]_vars
  BY StepWorks, TargetWorks DEF IInv, Next, Finished
<1> QED BY <1>1, <1>2, <1>3, Invariance, PTL DEF Spec, TargetsAddLinesOnly
=============================================================================
