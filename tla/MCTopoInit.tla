----------------------------- MODULE MCTopoInit -----------------------------
(* A small instance of TopoInit. *)
EXTENDS TopoInit

Src(ext, n) == {[ext |-> ext, dir |-> "src", n |-> i] : i \in 1 .. n}
Lone(ext, dir) == {[ext |-> ext, dir |-> dir, n |-> 1]}

(* Up to two files of each language, a language in every place it could be
   looked for, and projects where it is counted but not looked for ... *)
SmallTrees ==
  {UNION {Src(l, c[l]) : l \in Languages} : c \in [Languages -> 0 .. 2]}
  \cup {Lone(e, d) : e \in Extensions, d \in Directories}
  \cup {Lone("java", "maven") \cup Src("java", 1), Lone("header", "maven") \cup Src("java", 1)}

(* ... and a type with its members, known and unknown visibility, a name that
   comes twice, a type and a function outside of any namespace, a type whose
   name meets the wrapper's, and a method without a class. *)
T == <<"ns", "T">>
U == <<"U">>
V == <<"app", "U">>
M == <<"ns", "T", "m">>
N == <<"U", "n">>
F == <<"f">>
SmallNames == {T, U, V, M, N, F}
S(n, k, c, v) == [name |-> n, kind |-> k, class |-> c, visibility |-> v]
SmallSymbols == {S(T, "type", <<>>, "private"), S(T, "type", <<>>, "none"),
  S(U, "type", <<>>, "public"), S(V, "type", <<>>, "internal"),
  S(M, "member", T, "public"), S(M, "member", T, "none"), S(N, "member", U, "private"),
  S(F, "function", <<>>, "none"), S(F, "member", <<>>, "public")}
MaxSymbols == 3
SmallExtractions == UNION {[1 .. n -> SmallSymbols] : n \in 0 .. MaxSymbols}
SmallProjects ==
  {[files |-> t, symbols |-> e] : t \in SmallTrees, e \in {<<>>, <<S(T, "type", <<>>, "none")>>}}
  \cup {[files |-> Src("cpp", 1), symbols |-> e] : e \in SmallExtractions}
AllButJava == Languages \ {"java"}
WithFormatter == {"cpp", "rust"}
=============================================================================
