---------------------------- MODULE TopoProfile ----------------------------
(***************************************************************************)
(* topo-profile trace (tools/topo-profile/main.cpp): the command line, the *)
(* guards of the five modes, the target that is spawned and writes lines   *)
(* while topo-profile reads them, the conversion of a sampling input, the  *)
(* one JSON document and the exit code.                                    *)
(*                                                                         *)
(* A line of the target is known by its number; of its content the model   *)
(* keeps what decides where it goes and the times that are calculated      *)
(* with.  External: the target, what the converters of topo-core and the   *)
(* JFR bridge make of an input, and PipedProcess.                          *)
(***************************************************************************)
EXTENDS Integers, Sequences, FiniteSets

CONSTANTS
  CommandLines, (* argv: sequences of Argument                             *)
  Passes,       (* the passes that report events                           *)
  Records,      (* the lines a target may write, see Record                *)
  MaxRecords,   (* bound: how many lines a target writes                   *)
  Paths,        (* the paths of targets and bridge jars                    *)
  Baked,        (* TOPO_JFR_BRIDGE_JAR_DEFAULT, or None                    *)
  Top           (* the largest int64_t                                     *)

VARIABLES
  argv, parsed, (* the command line and how much of it is parsed           *)
  cfg,          (* the CliConfig                                           *)
  there,        (* the paths that exist                                    *)
  env,          (* $TOPO_JFR_BRIDGE_JAR, or None                           *)
  at,           (* where topo-profile is                                   *)
  target,       (* the spawned process                                     *)
  failed,       (* its exit code is not 0                                  *)
  written,      (* the lines it has written                                *)
  read,         (* how many of them have been read                         *)
  spans, passEvents, (* what collectSpans has collected                    *)
  sampling,     (* out["sampling"]                                         *)
  printed,      (* the documents on stdout                                 *)
  exit          (* the exit code, or Running                               *)

command == <<argv, parsed, cfg, there, env>>
stream == <<target, failed, written, read, spans, passEvents>>
result == <<sampling, printed, exit>>
vars == <<command, at, stream, result>>

None == "none"
Bottom == -Top - 1
Running == -1
-----------------------------------------------------------------------------
(* The sampling inputs, in the order in which runSamplingConversion looks. *)
Order == <<"jfrBinary", "folded", "jfr", "speedscope", "cpuprofile", "async",
           "sysmon", "cprofile">>
Inputs == {Order[i] : i \in DOMAIN Order}
Types == {"wall", "alloc", "cpu"}
Modes == {"spans", "sampling", "async-profiler", "sys-monitoring", "hybrid"}

(* "unknown" stands for what ends the parsing: another subcommand, --help, a
   flag without its value.  --backend is left out: it is only passed on. *)
Argument == [flag : {"--mode"}, value : Modes \cup {"other"}]
            \cup [flag : {"--type"}, value : Types \cup {"other"}]
            \cup [flag : {"target", "--jfr-bridge-jar"}, value : Paths]
            \cup [flag : Inputs \cup {"--sourcemap-search-root", "--", "unknown"},
                  value : {None}]

(* A number in a JSON record: an integer is read as int64_t or uint64_t, a
   float may be larger still; "other" is a missing or wrongly typed field. *)
Field == [form : {"int"}, n : Bottom .. 2 * Top + 1]
         \cup [form : {"float"}, n : Int]
         \cup [form : {"other"}, n : {0}]

(* A line is a JSON object with or without the pass_event kind, the name of a
   pass and the name of a span, or noise: text, an empty line, JSON that is
   no object or is cut off. *)
Noise == [event |-> FALSE, pass |-> None, named |-> FALSE,
          ts |-> [form |-> "other", n |-> 0], dur |-> [form |-> "other", n |-> 0]]
Record == [event : BOOLEAN, pass : Passes \cup {None}, named : BOOLEAN,
           ts : Field, dur : Field]

ASSUME LinesAssumption == CommandLines \subseteq Seq(Argument)
ASSUME RecordsAssumption == Records \subseteq Record /\ Noise \in Records
ASSUME BoundAssumption == MaxRecords \in Nat
ASSUME PathsAssumption == None \notin Paths /\ Baked \in Paths \cup {None}
ASSUME PassesAssumption == None \notin Passes
ASSUME TopAssumption == Top \in Nat

(* routePassEvent and transformSpan: which lines they take. *)
IsPassEvent(r) == r.event /\ r.pass # None
IsSpan(r) == r.named /\ r.dur.form = "int"

(* get<int64_t>() of an unsigned number wraps; readOptionalNsField clamps
   floats, and takes 0 for what is no number. *)
Wrapped(n) == IF n > Top THEN n - 2 * (Top + 1) ELSE n
Clamped(n) == IF n > Top THEN Top ELSE IF n < Bottom THEN Bottom ELSE n
Ns(f) == CASE f.form = "int" -> Wrapped(f.n)
           [] f.form = "float" -> Clamped(f.n)
           [] OTHER -> 0

(* The end of a span is a checked addition. *)
Unchecked(start, dur) == start + dur
AroundTheTop(start, dur) ==
  IF start + dur > Top THEN start + dur - 2 * (Top + 1)
  ELSE IF start + dur < Bottom THEN start + dur + 2 * (Top + 1) ELSE start + dur
End(start, dur) ==
  LET sum == start + dur IN
    IF sum \in Bottom .. Top THEN sum ELSE IF dur >= 0 THEN Top ELSE Bottom

SpanOf(k, r) == [line |-> k, start |-> Ns(r.ts),
                 end |-> End(Ns(r.ts), Wrapped(r.dur.n))]
EventOf(k, r) == [line |-> k, ts |-> Ns(r.ts)]

(* What the guards of main let through. *)
SoleMode == [cprofile |-> "sampling", async |-> "async-profiler",
             sysmon |-> "sys-monitoring"]
Misplaced(c) == \E k \in c.inputs \cap DOMAIN SoleMode : c.mode # SoleMode[k]

CountedWithoutBinary(c) == Cardinality(c.inputs \ {"jfrBinary"})
samplingInputCount(c) == Cardinality(c.inputs)
MapsFit(c) == c.maps => "cpuprofile" \in c.inputs
Spawns(c) == c.mode \in {"spans", "hybrid"}

SamplingFits(c) == c.mode = "sampling" /\ samplingInputCount(c) = 1 /\ MapsFit(c)
AsyncProfilerFits(c) == /\ c.mode = "async-profiler" /\ c.type \in Types
                        /\ samplingInputCount(c) <= 1 /\ "async" \in c.inputs
SysMonitoringFits(c) == /\ c.mode = "sys-monitoring"
                        /\ samplingInputCount(c) <= 1 /\ "sysmon" \in c.inputs
HybridFits(c) == /\ c.mode = "hybrid" /\ c.target \in there
                 /\ samplingInputCount(c) = 1 /\ MapsFit(c)
SpansFits(c) == c.mode = "spans" /\ c.target \in there

Accepted(c) ==
  /\ ~Misplaced(c)
  /\ \/ SamplingFits(c) \/ AsyncProfilerFits(c) \/ SysMonitoringFits(c)
     \/ HybridFits(c) \/ SpansFits(c)

(* kExitUnsupportedMode or kExitUsage. *)
Refusal(c) == IF Misplaced(c) \/ c.mode \in Modes \ {"spans", "hybrid"}
              THEN 2 ELSE 1

(* The input that is converted, and resolveJfrBridgeJar. *)
Picked(c) == Order[CHOOSE i \in DOMAIN Order :
                     /\ Order[i] \in c.inputs
                     /\ \A j \in 1 .. i - 1 : Order[j] \notin c.inputs]
Jar(c) == CASE c.jar # None -> IF c.jar \in there THEN c.jar ELSE None
            [] c.jar = None /\ env \in there -> env
            [] OTHER -> IF Baked \in there THEN Baked ELSE None
Segment(c) == [of |-> Picked(c),
               jar |-> IF Picked(c) = "jfrBinary" THEN Jar(c) ELSE None,
               type |-> IF Picked(c) = "async" THEN c.type ELSE None]

(* Only passes with events are keys of `pass_events`. *)
NoSegment == [of |-> None, jar |-> None, type |-> None]
Reported == {p \in Passes : passEvents[p] # <<>>}
Document == [spans |-> spans,
             pass_events |-> [p \in Reported |-> passEvents[p]],
             sampling |-> sampling]

Places == {"line", "guards", "spawn", "drain", "sampling", "print", "done"}

Config == [mode : Modes \cup {"other"}, target : Paths \cup {None},
           type : Types \cup {"other"}, jar : Paths \cup {None},
           inputs : SUBSET Inputs, maps : BOOLEAN, dashed : BOOLEAN,
           args : Seq(Argument)]
DefaultConfig == [mode |-> "spans", target |-> None, type |-> "wall", jar |-> None,
                  inputs |-> {}, maps |-> FALSE, dashed |-> FALSE, args |-> <<>>]

Init ==
  /\ argv \in CommandLines
  /\ parsed = 0
  /\ cfg = DefaultConfig
  /\ there \in SUBSET Paths
  /\ env \in Paths \cup {None}
  /\ at = "line"
  /\ target = "none" /\ failed = FALSE /\ written = <<>> /\ read = 0
  /\ spans = <<>> /\ passEvents = [p \in Passes |-> <<>>]
  /\ sampling = NoSegment /\ printed = <<>> /\ exit = Running

Ends(code) == at' = "done" /\ exit' = code
Goes(place) == at' = place /\ exit' = exit

-----------------------------------------------------------------------------
(* parseCli: one argument; the last value of a flag counts, and everything
   behind `--` is the target's. *)
IsOwn(a) == ~cfg.dashed
Taken(a) ==
  IF ~IsOwn(a) THEN [cfg EXCEPT !.args = Append(@, a)]
  ELSE CASE a.flag = "--" -> [cfg EXCEPT !.dashed = TRUE]
         [] a.flag = "--mode" -> [cfg EXCEPT !.mode = a.value]
         [] a.flag = "--type" -> [cfg EXCEPT !.type = a.value]
         [] a.flag = "--jfr-bridge-jar" -> [cfg EXCEPT !.jar = a.value]
         [] a.flag = "--sourcemap-search-root" -> [cfg EXCEPT !.maps = TRUE]
         [] a.flag = "target" -> [cfg EXCEPT !.target = a.value]
         [] OTHER -> [cfg EXCEPT !.inputs = @ \cup {a.flag}]
Wrong(a) == /\ IsOwn(a)
            /\ \/ a.flag = "unknown"
               \/ a.flag = "target" /\ cfg.target # None

Parse ==
  /\ at = "line"
  /\ parsed < Len(argv)
  /\ LET a == argv[parsed + 1] IN
       IF Wrong(a) THEN Ends(1) /\ UNCHANGED <<parsed, cfg>>
       ELSE /\ cfg' = Taken(a)
            /\ parsed' = parsed + 1
            /\ Goes("line")
  /\ UNCHANGED <<argv, there, env, stream, sampling, printed>>

Parsed == /\ at = "line"
          /\ parsed = Len(argv)
          /\ Goes("guards")
          /\ UNCHANGED <<command, stream, sampling, printed>>

(* main: the guards of the mode. *)
Guard ==
  /\ at = "guards"
  /\ IF Accepted(cfg) THEN Goes(IF Spawns(cfg) THEN "spawn" ELSE "sampling")
                      ELSE Ends(Refusal(cfg))
  /\ UNCHANGED <<command, stream, sampling, printed>>

-----------------------------------------------------------------------------
(* collectSpans: the target is started, or cannot be ... *)
Spawn ==
  /\ at = "spawn"
  /\ \/ target' = "running" /\ Goes("drain")
     \/ target' = "none" /\ Ends(1)
  /\ UNCHANGED <<command, failed, written, read, spans, passEvents, sampling, printed>>

(* ... its lines are read and sorted, the pass event first ... *)
Drain ==
  /\ at = "drain"
  /\ read < Len(written)
  /\ LET k == read + 1
         r == written[k] IN
       /\ read' = k
       /\ passEvents' = IF IsPassEvent(r)
                        THEN [passEvents EXCEPT ![r.pass] = Append(@, EventOf(k, r))]
                        ELSE passEvents
       /\ spans' = IF ~IsPassEvent(r) /\ IsSpan(r) THEN Append(spans, SpanOf(k, r))
                                                 ELSE spans
  /\ UNCHANGED <<command, at, target, failed, written, result>>

(* ... and at the end of its output the target is waited for, not longer than
   five seconds; what the exit code of a target that is then killed is, is the
   platform's. *)
ProcessIsGone == target \in {"closed", "ended"}
EndOfOutput == read = Len(written) /\ target \in {"closed", "ended"}
WaitsForever == FALSE
GivesUp == target = "closed"
Stop ==
  /\ at = "drain"
  /\ EndOfOutput
  /\ \/ target = "ended" /\ failed' = failed
     \/ GivesUp /\ failed' \in BOOLEAN
  /\ target' = "ended"
  /\ Goes(IF cfg.mode = "hybrid" THEN "sampling" ELSE "print")
  /\ UNCHANGED <<command, written, read, spans, passEvents, sampling, printed>>

-----------------------------------------------------------------------------
(* runSamplingConversion: the input cannot be read, there is no bridge jar or
   it fails, the input is not what the flag says, or it is converted. *)
Unreadable == /\ at = "sampling"
              /\ Ends(1)
              /\ UNCHANGED <<command, stream, sampling, printed>>

NoBridge == /\ at = "sampling"
            /\ Picked(cfg) = "jfrBinary"
            /\ Ends(2)
            /\ UNCHANGED <<command, stream, sampling, printed>>

Unparsable == /\ at = "sampling"
              /\ Picked(cfg) = "jfrBinary" => Jar(cfg) # None
              /\ \/ Ends(1)
                 \/ Picked(cfg) = "speedscope" /\ Ends(2)
              /\ UNCHANGED <<command, stream, sampling, printed>>

Convert == /\ at = "sampling"
           /\ Picked(cfg) = "jfrBinary" => Jar(cfg) # None
           /\ sampling' = Segment(cfg)
           /\ Goes("print")
           /\ UNCHANGED <<command, stream, printed>>

(* The document, and kExitTargetFailed if there was a target and it failed. *)
Code == IF failed THEN 3 ELSE 0
PrintDocument ==
  /\ at = "print"
  /\ printed' = Append(printed, Document)
  /\ Ends(Code)
  /\ UNCHANGED <<command, stream, sampling>>

-----------------------------------------------------------------------------
(* The target writes a line, the last one perhaps cut off, closes its output
   and stays, or ends. *)
Write == /\ target = "running"
         /\ Len(written) < MaxRecords
         /\ \E r \in Records : written' = Append(written, r)
         /\ UNCHANGED <<command, at, target, failed, read, spans, passEvents, result>>

Close == /\ target = "running"
         /\ target' = "closed"
         /\ UNCHANGED <<command, at, failed, written, read, spans, passEvents, result>>

Die == /\ target \in {"running", "closed"}
       /\ target' = "ended"
       /\ failed' \in BOOLEAN
       /\ UNCHANGED <<command, at, written, read, spans, passEvents, result>>

Target == Write \/ Close \/ Die

Finished == at = "done" /\ UNCHANGED vars

Step == \/ Parse \/ Parsed \/ Guard \/ Spawn \/ Drain \/ Stop
        \/ Unreadable \/ NoBridge \/ Unparsable \/ Convert \/ PrintDocument

Next == Step \/ Target \/ Finished

Spec == Init /\ [][Next]_vars

(* topo-profile runs; nothing makes the target write, close or end. *)
FairSpec == Spec /\ WF_vars(Step)
-----------------------------------------------------------------------------
(* Type correctness of the command line, the streams and the result. *)
Span == [line : 1 .. MaxRecords, start : Bottom .. Top, end : Bottom .. Top]
Event == [line : 1 .. MaxRecords, ts : Bottom .. Top]
TypeOK ==
  /\ argv \in CommandLines /\ parsed \in 0 .. Len(argv)
  /\ cfg \in Config
  /\ there \subseteq Paths /\ env \in Paths \cup {None}
  /\ at \in Places
  /\ target \in {"none", "running", "closed", "ended"} /\ failed \in BOOLEAN
  /\ written \in Seq(Records) /\ Len(written) <= MaxRecords
  /\ read \in 0 .. Len(written)
  /\ spans \in Seq(Span) /\ passEvents \in [Passes -> Seq(Event)]
  /\ sampling \in [of : Inputs \cup {None}, jar : Paths \cup {None},
                   type : Types \cup {None}]
  /\ exit \in {Running, 0, 1, 2, 3}

(* Where the lines of a stream have to go: a line is a pass event of the pass
   it names or a span, never both, and neither if it is noise. *)
Lines(seq) == {seq[i].line : i \in DOMAIN seq}
InOrder(seq) == \A i, j \in DOMAIN seq : i < j => seq[i].line < seq[j].line
Emits(d, p) == IF p \in DOMAIN d.pass_events THEN d.pass_events[p] ELSE <<>>

(* A document that is printed has every line that the target wrote before its
   output ended, in the order of the target, each in its one place: nothing
   is lost although topo-profile reads while the target writes, dies or is
   given up, nothing is made of noise, and a pass event with the members of a
   span is no span. *)
DocumentIsWhole ==
  \A i \in DOMAIN printed :
    LET d == printed[i] IN
      /\ Lines(d.spans) = {k \in DOMAIN written :
                             ~IsPassEvent(written[k]) /\ IsSpan(written[k])}
      /\ InOrder(d.spans)
      /\ \A p \in Passes :
           /\ Lines(Emits(d, p)) = {k \in DOMAIN written :
                                      written[k].event /\ written[k].pass = p}
           /\ InOrder(Emits(d, p))

(* A span whose duration fits an int64_t and is not negative does not end
   before it starts, and ends when its duration says unless that is past the
   largest time; a time that came as a float is never replaced by one of the
   other sign, however large. *)
SpansRunForward ==
  \A i \in DOMAIN spans :
    LET s == spans[i]
        r == written[s.line] IN
      /\ r.dur.n \in 0 .. Top =>
           /\ s.start <= s.end
           /\ \/ s.end = s.start + r.dur.n
              \/ s.end = Top /\ s.start + r.dur.n > Top
      /\ r.ts.form = "float" => (s.start < 0) = (r.ts.n < 0)

(* What the exit code says: with 0 there is one document and the target, if
   there was one, did not fail; with 3 there is one document and the target
   failed; with 1 and 2 there is none. *)
ExitTells ==
  at = "done" =>
    /\ Len(printed) = (IF exit \in {0, 3} THEN 1 ELSE 0)
    /\ exit = 0 => ~failed
    /\ exit = 3 => failed /\ target = "ended"

(* What a document's sampling segment was converted from is the one input
   that was given, and if that needs the bridge, the jar the command line
   names is the one that runs.  Of the inputs that belong to a single mode
   none is passed over, and a mode that is for sampling has its segment. *)
SegmentIsOfTheInput ==
  \A i \in DOMAIN printed :
    LET s == printed[i].sampling IN
      /\ s.of # None => cfg.inputs = {s.of}
      /\ (cfg.inputs \cap DOMAIN SoleMode # {} \/ cfg.mode # "spans") => s.of # None
      /\ s.of = "jfrBinary" => /\ s.jar \in there
                               /\ cfg.jar # None => s.jar = cfg.jar

(* Where the target's arguments begin, and the last of topo-profile's own
   arguments with flag f. *)
IsSplit(n) == /\ n <= Len(argv) => argv[n].flag = "--"
              /\ \A i \in 1 .. n - 1 : argv[i].flag # "--"
IsLast(i, f, n) == /\ i < n /\ argv[i].flag = f
                   /\ \A j \in i + 1 .. n - 1 : argv[j].flag # f

(* What stands behind `--` is the target's, all of it and in its order, and
   has no influence on topo-profile: its inputs are those named before, its
   mode is the last one named before. *)
TargetKeepsItsArguments ==
  at \notin {"line", "done"} =>
    \A n \in 1 .. Len(argv) + 1 : IsSplit(n) =>
      /\ cfg.args = SubSeq(argv, n + 1, Len(argv))
      /\ cfg.inputs = {argv[i].flag : i \in 1 .. n - 1} \cap Inputs
      /\ \A i \in 1 .. n - 1 : IsLast(i, "--mode", n) => cfg.mode = argv[i].value

(* Only a target that keeps its output open keeps topo-profile: whenever the
   output has ended, or there is none, topo-profile gets to its end, although
   the target may go on. *)
OnlyTheTargetHoldsIt == []<>(at = "done" \/ target = "running")
=============================================================================
