---------------------------- MODULE BuildConfig ----------------------------
(***************************************************************************)
(* How topo-build arrives at its configuration (tools/topo-build/          *)
(* Config.cpp, parseArgs, loadTopoToml, resolveAndApplyProfile, and the    *)
(* guards at the head of main): the defaults, the command line from left   *)
(* to right, Topo.toml, a generated salt, the chain of profiles from base  *)
(* to derived, validation, and what an audit forces.                       *)
(*                                                                         *)
(* The configuration is a function of its fields; a field stands for every *)
(* option that is handled in its way, and a list for its first member:     *)
(* `sources` (and -I like it) is None when it is empty.  External: the     *)
(* profiles built into topo-core, validateConfig, what the TOML parser and *)
(* the type checks of single keys reject.                                  *)
(***************************************************************************)
EXTENDS Naturals, Sequences, FiniteSets

CONSTANTS
  Lines,    (* the command lines: sequences of fields with their values    *)
  Files,    (* the contents of Topo.toml                                   *)
  Names,    (* the names of profiles                                       *)
  Builtin,  (* builtinProfiles(): the profiles of some of the names        *)
  Features, (* the optimizations and other fields a section or a profile
               sets and no option does: parallel, embed_ir, ...            *)
  Values,   (* what fields are set to                                      *)
  Missing   (* a file that does not exist                                  *)

VARIABLES
  line,    (* argv                                                         *)
  file,    (* Topo.toml in the current directory                           *)
  at,      (* where topo-build is                                          *)
  parsed,  (* how many arguments parseArgs has consumed                    *)
  cfg,     (* the BuildConfig                                              *)
  current, (* the profile the extends chain has come to                    *)
  chain,   (* the profiles collected; `visited` is the set of its names    *)
  left     (* how many of them are still to be applied                     *)

vars == <<line, file, at, parsed, cfg, current, chain, left>>

-----------------------------------------------------------------------------
(* What Topo.toml may do to a field: fill it in if it has its default ... *)
Fills == {"sources", "topoRoot", "outputPath", "standard"}
(* ... replace it whatever it is (`warnOnly` stands for `debugInternal` too) *)
Replaces == {"outputType", "warnOnly", "obfMode", "obfSalt", "checkMode",
             "language"} \cup Features
(* ... or only set it to one value; it has no say in the others. *)
Raises == {"buildMode", "noIncremental", "auditCheck"}
Raised == [f \in Raises |-> IF f = "buildMode" THEN "aggressive" ELSE "yes"]
LineOnly == {"optLevel", "checkCli", "evidence", "evidenceOutput",
             "nativeEvidence", "keepTemps", "profile"}

Fields == Fills \cup Replaces \cup Raises \cup LineOnly

(* Lists that an argument adds to. *)
Appends == {"sources"}

(* The fields that have an option. *)
Options == (Fields \ Features) \ {"obfSalt", "checkMode", "language"}

(* The fields a profile may set. *)
Profiled == {"buildMode", "optLevel", "obfMode", "obfSalt"} \cup Features

None == "none"

Default ==
  [f \in Fields |->
     CASE f = "standard" -> "c++17" [] f = "outputType" -> "exe"
       [] f = "obfMode" -> "normal" [] f = "checkMode" -> "auto"
       [] f = "language" -> "cpp"   [] f = "buildMode" -> "dev"
       [] f = "optLevel" -> "2"
       [] f \in {"warnOnly", "noIncremental", "auditCheck", "keepTemps"} -> "no"
       [] f \in Features -> "off"
       [] OTHER -> None]

(* Settings are values for some of the fields of S; a profile has some, and
   perhaps a profile it extends; profiles are found by their names. *)
IsSettings(s, S) == DOMAIN s \subseteq S /\ \A f \in DOMAIN s : s[f] \in Values

IsProfiles(p) ==
  /\ DOMAIN p \subseteq Names
  /\ \A n \in DOMAIN p : /\ p[n].extends \in Names \cup {None}
                         /\ IsSettings(p[n].sets, Profiled)

(* An argument: an option and its value, a flag, or what is not an option. *)
Flags == {"noIncremental", "auditCheck", "keepTemps", "warnOnly"}
Argument == [field : Options \ (Flags \cup Appends \cup {"profile"}), value : Values]
            \cup [field : Appends, value : Values \ {None}]
            \cup [field : Flags, value : {"yes"}]
            \cup [field : {"profile"}, value : Names \cup {None}]
            \cup [field : {"unknown"}, value : Values]

ASSUME LinesAssumption == Lines \subseteq Seq(Argument)
ASSUME FilesAssumption ==
  /\ Missing \notin Files
  /\ \A t \in Files : /\ IsSettings(t.sets, Fields \ LineOnly)
                      /\ IsProfiles(t.profiles)
ASSUME BuiltinAssumption == IsProfiles(Builtin)
ASSUME TablesAssumption == /\ IsFiniteSet(DOMAIN Builtin)
                            /\ \A t \in Files : IsFiniteSet(DOMAIN t.profiles)
ASSUME NamesAssumption == None \notin Names
ASSUME FeaturesAssumption ==
  Features \cap ({"unknown", "sources", "topoRoot", "outputPath", "standard",
                  "outputType", "warnOnly", "obfMode", "obfSalt", "checkMode",
                  "language"} \cup Raises \cup LineOnly) = {}
ASSUME ValuesAssumption ==
  Names \cup {None, "c++17", "exe", "normal", "auto", "cpp", "dev", "2", "no",
              "yes", "off", "aggressive", "salted", "generated", "java"} \subseteq Values

(* The settings s over the configuration c. *)
OnlyTheOverrides(s, c) == s
Over(s, c) ==
  [f \in DOMAIN c |-> IF f \in DOMAIN s THEN s[f] ELSE c[f]]

(* What the argument a makes of its field: a value takes the place of another,
   a list keeps its head. *)
Replacing(a) == a.value
Given(a) == IF a.field \in Appends /\ cfg[a.field] # Default[a.field]
            THEN cfg[a.field] ELSE a.value

EvidenceModes == {"commands", "isolated-build"}

(* [build], [builder], ... over what the command line left. *)
FilledAlways(s, c, f) == TRUE
Filled(s, c, f) == c[f] = Default[f]
Takes(s, c, f) == /\ f \in DOMAIN s
                  /\ f \in Fills => Filled(s, c, f)
                  /\ f \in Raises => s[f] = Raised[f]
Loaded(s, c) == [f \in Fields |-> IF Takes(s, c, f) THEN s[f] ELSE c[f]]

(* A salt is made up when obfuscation is salted and there is none. *)
NeedsSalt(c) == c["obfMode"] = "salted" /\ c["obfSalt"] = None
Salted(c) == IF NeedsSalt(c) THEN [c EXCEPT !["obfSalt"] = "generated"] ELSE c

(* The profiles by name: those of the file over the built-in ones. *)
AllProfiles ==
  [n \in DOMAIN Builtin \cup DOMAIN file.profiles |->
     IF n \in DOMAIN file.profiles THEN file.profiles[n] ELSE Builtin[n]]

(* `visited` holds the names of the profiles collected so far; a limit on
   their number would refuse chains that are sound. *)
Visited == {chain[i] : i \in DOMAIN chain}
TooDeep == Len(chain) >= 2
Seen == current \in Visited
NotCollected == chain
Collected == Append(chain, current)

(* Base to derived: the last one collected is the first to be applied. *)
FirstLeft == Len(chain) - left + 1
NextToApply == left

(* Evidence and audit builds keep what they refer to and build it all. *)
Retains(c) == c["evidence"] # None \/ c["auditCheck"] = "yes"
Retained(c) ==
  IF Retains(c) THEN [c EXCEPT !["keepTemps"] = "yes", !["noIncremental"] = "yes"]
                ELSE c

(* shouldRunCheck: --check and --no-check go before [build].check. *)
ShouldRunCheck(c) == IF c["checkCli"] # None THEN c["checkCli"] = "yes"
                                             ELSE c["checkMode"] # "off"

(* The guards of main: native evidence is for Java audits, an audit needs
   the check, and every build needs a root, an output and its sources. *)
Buildable(c) ==
  /\ c["nativeEvidence"] # None => c["auditCheck"] = "yes" /\ c["language"] = "java"
  /\ c["auditCheck"] = "yes" => ShouldRunCheck(c)
  /\ c["language"] \in {"cpp", "java"} => c["sources"] # None
  /\ c["topoRoot"] # None /\ c["outputPath"] # None

Ends == {"build", "refused", "unknownProfile", "circular"}
Places == {"line", "file", "resolve", "apply", "validate", "guards"} \cup Ends

Init == /\ line \in Lines
        /\ file \in Files \cup {Missing}
        /\ at = "line"
        /\ parsed = 0
        /\ cfg = Default
        /\ current = None
        /\ chain = <<>>
        /\ left = 0

Goes(place) == /\ at' = place
               /\ UNCHANGED <<line, file>>

-----------------------------------------------------------------------------
(* parseArgs: the arguments from left to right. *)
Parse ==
  /\ at = "line"
  /\ parsed < Len(line)
  /\ LET a == line[parsed + 1] IN
       IF a.field \in Options
       THEN /\ cfg' = [cfg EXCEPT ![a.field] = Given(a)]
            /\ parsed' = parsed + 1
            /\ Goes("line")
       ELSE Goes("refused") /\ UNCHANGED <<cfg, parsed>>
  /\ UNCHANGED <<current, chain, left>>

(* Evidence needs one of its modes and its output, or neither. *)
EndOfLine ==
  /\ at = "line"
  /\ parsed = Len(line)
  /\ Goes(IF /\ cfg["evidence"] \in EvidenceModes \cup {None}
             /\ (cfg["evidence"] = None) = (cfg["evidenceOutput"] = None)
          THEN "file" ELSE "refused")
  /\ UNCHANGED <<parsed, cfg, current, chain, left>>

(* loadTopoToml without a Topo.toml changes nothing: what it does at its
   end, the profile and the validation, is left out too. *)
NoFile == /\ at = "file"
          /\ file = Missing
          /\ Goes("guards")
          /\ UNCHANGED <<parsed, cfg, current, chain, left>>

(* The sections of Topo.toml, then the salt, then the profile asked for. *)
LoadFile ==
  /\ at = "file"
  /\ file # Missing
  /\ cfg' = Salted(Loaded(file.sets, cfg))
  /\ current' = cfg["profile"]
  /\ Goes(IF cfg["profile"] = None THEN "validate" ELSE "resolve")
  /\ UNCHANGED <<parsed, chain, left>>

(* A file that does not parse, a key of the wrong type. *)
RejectFile == /\ at = "file"
              /\ file # Missing
              /\ Goes("refused")
              /\ UNCHANGED <<parsed, cfg, current, chain, left>>

-----------------------------------------------------------------------------
(* resolveAndApplyProfile: the chain of `extends` is followed ... *)
Circular == /\ at = "resolve"
            /\ Seen
            /\ Goes("circular")
            /\ UNCHANGED <<parsed, cfg, current, chain, left>>

UnknownProfile ==
  /\ at = "resolve"
  /\ current # None
  /\ ~Seen
  /\ current \notin DOMAIN AllProfiles
  /\ Goes("unknownProfile")
  /\ UNCHANGED <<parsed, cfg, current, chain, left>>

Follow ==
  /\ at = "resolve"
  /\ current \in DOMAIN AllProfiles
  /\ ~Seen
  /\ chain' = Collected
  /\ current' = AllProfiles[current].extends
  /\ Goes("resolve")
  /\ UNCHANGED <<parsed, cfg, left>>

EndOfChain ==
  /\ at = "resolve"
  /\ current = None
  /\ left' = Len(chain)
  /\ Goes("apply")
  /\ UNCHANGED <<parsed, cfg, current, chain>>

(* ... and the overrides are applied from the base to the derived. *)
ApplyProfile ==
  /\ at = "apply"
  /\ left > 0
  /\ cfg' = Over(AllProfiles[chain[NextToApply]].sets, cfg)
  /\ left' = left - 1
  /\ Goes("apply")
  /\ UNCHANGED <<parsed, current, chain>>

Applied == /\ at = "apply"
           /\ left = 0
           /\ Goes("validate")
           /\ UNCHANGED <<parsed, cfg, current, chain, left>>

(* validateConfig finds errors, or none. *)
Validate == /\ at = "validate"
            /\ \E ok \in BOOLEAN : Goes(IF ok THEN "guards" ELSE "refused")
            /\ UNCHANGED <<parsed, cfg, current, chain, left>>

(* main: retention first, then the guards.  A Cargo.toml or Rust manifest
   that is asked for may not exist. *)
Guards ==
  /\ at = "guards"
  /\ cfg' = Retained(cfg)
  /\ \/ Buildable(cfg) /\ Goes("build")
     \/ ~Buildable(cfg) /\ Goes("refused")
     \/ cfg["language"] \in {"rust", "mixed"} /\ Goes("refused")
  /\ UNCHANGED <<parsed, current, chain, left>>

(* The configuration stands, or topo-build has exited with 1. *)
Finished == at \in Ends /\ UNCHANGED vars

Step == \/ Parse \/ EndOfLine \/ NoFile \/ LoadFile \/ RejectFile
        \/ Circular \/ UnknownProfile \/ Follow \/ EndOfChain
        \/ ApplyProfile \/ Applied \/ Validate \/ Guards

Next == Step \/ Finished

Spec == Init /\ [][Next]_vars

(* One thread that runs. *)
FairSpec == Spec /\ WF_vars(Step)
-----------------------------------------------------------------------------
(* Type correctness of the configuration and of the profile resolution. *)
TypeOK ==
  /\ line \in Lines
  /\ file \in Files \cup {Missing}
  /\ at \in Places
  /\ parsed \in 0 .. Len(line)
  /\ cfg \in [Fields -> Values]
  /\ current \in Names \cup {None}
  /\ chain \in Seq(Names)
  /\ left \in 0 .. Len(chain)

(* The profiles that n inherits from, n among them: the least set that has n
   and the base of each of its members. *)
Closed(S) == \A n \in S \cap DOMAIN AllProfiles :
               AllProfiles[n].extends \in S \cup {None}
Ancestors(n) == {m \in Names : \A S \in SUBSET Names : n \in S /\ Closed(S) => m \in S}

Selects == file # Missing /\ cfg["profile"] # None
Selected == Ancestors(cfg["profile"])

(* The extends chain is refused exactly when it has to be.  It is called
   circular only if every profile in it is known and none is the last, called
   unknown only if one of its profiles is, and a build goes ahead only if all
   are known and one is the last. *)
ResolutionIsExact ==
  /\ at = "circular" =>
       \A n \in Selected : n \in DOMAIN AllProfiles
                           /\ AllProfiles[n].extends # None
  /\ at = "unknownProfile" => \E n \in Selected : n \notin DOMAIN AllProfiles
  /\ at = "build" /\ Selects =>
       /\ \A n \in Selected : n \in DOMAIN AllProfiles
       /\ \E n \in Selected : AllProfiles[n].extends = None

(* The nearest profile that sets f: those of the others that set it are all
   among its bases. *)
Sets(n, f) == f \in DOMAIN AllProfiles[n].sets
Nearest(n, f) == /\ n \in Selected
                 /\ Sets(n, f)
                 /\ \A m \in Selected : Sets(m, f) => m \in Ancestors(n)

(* A build with a Topo.toml and a profile has, in every field that the
   profile or one of its bases sets, the value of the nearest one that does,
   whatever the command line and the sections say. *)
NearestProfileWins ==
  at = "build" /\ Selects =>
    \A f \in Profiled : \A n \in Names :
      Nearest(n, f) => cfg[f] = AllProfiles[n].sets[f]

(* The command line says v of f: by the last argument that has to do with f, of
   a list by the first. *)
Supersedes(f, i, j) == IF f \in Appends THEN i < j ELSE i > j
OnLine(f, v) ==
  \E i \in DOMAIN line :
    /\ line[i] = [field |-> f, value |-> v]
    /\ \A j \in DOMAIN line : Supersedes(f, j, i) => line[j].field # f

(* What is asked for on the command line, other than the default, is what is
   built: in the fields that no profile and no section is to replace, the
   argument that decides, the last one or in a list of sources the first, holds
   at the end, after Topo.toml, profiles and guards. *)
Held == Fills \cup (LineOnly \ {"optLevel"}) \cup {"noIncremental", "auditCheck"}
CommandLineHolds ==
  at = "build" =>
    \A f \in Held : \A v \in Values \ {Default[f]} : OnLine(f, v) => cfg[f] = v

(* An audit asked for on the command line or in Topo.toml is an audit: it has
   its check, whatever else either says, rebuilds everything and keeps what
   it refers to. *)
AuditAsked == \/ OnLine("auditCheck", "yes")
              \/ /\ file # Missing
                 /\ "auditCheck" \in DOMAIN file.sets
                 /\ file.sets["auditCheck"] = "yes"
AuditIsWhole ==
  at = "build" /\ AuditAsked =>
    /\ cfg["auditCheck"] = "yes"
    /\ cfg["keepTemps"] = "yes" /\ cfg["noIncremental"] = "yes"
    /\ ~OnLine("checkCli", "no")
    /\ ShouldRunCheck(cfg)

(* What it takes for a salted build to be without a salt: no Topo.toml, or a
   profile that sets the mode or the salt after the salt was made up. *)
UnsaltedIsExplained ==
  at = "build" /\ NeedsSalt(cfg) =>
    \/ file = Missing
    \/ Selects /\ \E n \in Selected : Sets(n, "obfMode") \/ Sets(n, "obfSalt")

(* Whatever the profiles extend, topo-build gets to a configuration or to an
   error: a circle of profiles does not keep it. *)
Decides == <>(at \in Ends)
=============================================================================
