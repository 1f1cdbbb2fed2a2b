--------------------------- MODULE MCTopoProfile ---------------------------
(* Small instances of TopoProfile. *)
EXTENDS TopoProfile

A(f, v) == [flag |-> f, value |-> v]
F(f) == A(f, "none")
SmallPaths == {"bin", "jar", "other"}
OnePass == {"pass"}

(* Of every mode, every choice of at most two inputs, with and without a
   target, source maps and a wrong type ... *)
Few == {S \in SUBSET Inputs : Cardinality(S) <= 2}
AsFlags(S) == [i \in 1 .. Cardinality(S) |->
  F(CHOOSE k \in S : Cardinality({j \in S : \E m, n \in DOMAIN Order :
      Order[m] = j /\ Order[n] = k /\ m <= n}) = i)]
Guarded == {<<A("--mode", m)>> \o AsFlags(S) \o o :
  m \in {"sampling", "async-profiler", "sys-monitoring", "hybrid", "other"}, S \in Few,
  o \in {<<>>, <<F("--sourcemap-search-root")>>, <<A("--type", "other")>>}}

(* ... of the modes with a target a few, for the streams ... *)
Streams == {<<A("target", "bin")>> \o o : o \in
  {<<>>, <<F("folded")>>, <<F("cprofile")>>,
   <<A("--mode", "hybrid"), F("speedscope")>>,
   <<A("--mode", "hybrid"), F("jfrBinary"), A("--jfr-bridge-jar", "jar")>>,
   <<F("--"), A("--mode", "sampling"), F("folded"), F("--"), F("unknown")>>,
   <<A("--mode", "hybrid"), F("jfr"), F("--"), A("--mode", "sampling")>>}}

(* ... and what is refused while it is parsed, or comes twice. *)
Odd == {<<F("unknown")>>, <<A("target", "bin"), A("target", "bin")>>,
        <<A("--mode", "hybrid"), A("--mode", "sampling"), F("jfrBinary")>>,
        <<A("--mode", "sampling"), F("jfrBinary"), A("--jfr-bridge-jar", "jar"),
          A("--jfr-bridge-jar", "other")>>}
SmallLines == Guarded \cup Streams \cup Odd

(* Lines of every kind; times at both ends of int64_t, past them, and in
   between. *)
N(f, n) == [form |-> f, n |-> n]
Sp(ts, dur) == [event |-> FALSE, pass |-> "none", named |-> TRUE, ts |-> ts, dur |-> dur]
SmallRecords == {Noise,
  Sp(N("int", 1), N("int", 2)), Sp(N("float", Top), N("int", 1)),
  Sp(N("float", 3 * Top), N("int", 0)), Sp(N("float", -3 * Top), N("int", Top)),
  Sp(N("int", Bottom), N("int", -1)), Sp(N("other", 0), N("int", 2 * Top)),
  Sp(N("int", 2 * Top + 1), N("int", 1)), Sp(N("int", 0), N("float", 1)),
  [Sp(N("int", 1), N("int", 1)) EXCEPT !.event = TRUE, !.pass = "pass"],
  [Sp(N("int", 1), N("int", 1)) EXCEPT !.event = TRUE]}
=============================================================================
