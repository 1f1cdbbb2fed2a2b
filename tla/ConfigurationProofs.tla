------------------------ MODULE ConfigurationProofs ------------------------
(***************************************************************************)
(* What holds of the configuration of a build: as topo-build puts it       *)
(* together, for every command line, every Topo.toml and every table of    *)
(* profiles (BuildConfig), and as topo-init writes the first one, for      *)
(* every project and whatever an extractor finds in it (TopoInit, in the   *)
(* second part).                                                           *)
(***************************************************************************)
EXTENDS BuildConfig, TopoInit, FiniteSetTheorems, SequenceTheorems, TLAPS

(* Which kinds a field is of, as far as the proofs go by it. *)
LEMMA FieldFacts ==
  /\ Profiled \subseteq Fields /\ Options \subseteq Fields /\ Held \subseteq Fields
  /\ Raises \subseteq Fields /\ Features \subseteq Fields
  /\ {"profile", "keepTemps", "noIncremental", "auditCheck", "obfMode",
      "obfSalt", "checkCli", "checkMode", "evidence"} \subseteq Fields
  /\ {"profile", "keepTemps", "checkCli", "evidence"} \cap (Fills \cup Raises) = {}
  /\ {"profile", "keepTemps", "checkCli", "evidence"} \subseteq LineOnly
  /\ Profiled \cap (Held \cup Fills \cup {"profile", "keepTemps", "noIncremental",
                    "auditCheck", "checkCli", "checkMode", "evidence"}) = {}
BY FeaturesAssumption
   DEF Profiled, Options, Held, Raises, Fields, Fills, Replaces, LineOnly

LEMMA DefaultType == Default \in [Fields -> Values]
BY ValuesAssumption DEF Default, None

LEMMA DefaultOfOne == /\ Default["checkCli"] = None
                      /\ Default["profile"] = None
<1>1. {"checkCli", "profile"} \subseteq Fields \ Features
  BY FeaturesAssumption DEF Fields, LineOnly
<1> QED BY <1>1 DEF Default

(* A table that is made of the file's and the built-in ones is one. *)
LEMMA TableType ==
  ASSUME file \in Files
  PROVE  /\ DOMAIN AllProfiles \subseteq Names
         /\ \A n \in DOMAIN AllProfiles :
              /\ AllProfiles[n].extends \in Names \cup {None}
              /\ DOMAIN AllProfiles[n].sets \subseteq Profiled
              /\ \A f \in DOMAIN AllProfiles[n].sets :
                   AllProfiles[n].sets[f] \in Values
BY FilesAssumption, BuiltinAssumption DEF IsProfiles, IsSettings, AllProfiles

(* The sections of a file set no field that only the command line has. *)
LEMMA LoadedType ==
  ASSUME NEW c \in [Fields -> Values], file \in Files
  PROVE  /\ Salted(Loaded(file.sets, c)) \in [Fields -> Values]
         /\ \A f \in LineOnly : Salted(Loaded(file.sets, c))[f] = c[f]
<1>1. /\ DOMAIN file.sets \cap LineOnly = {}
      /\ \A f \in DOMAIN file.sets : file.sets[f] \in Values
  BY FilesAssumption DEF IsSettings
<1>2. /\ Loaded(file.sets, c) \in [Fields -> Values]
      /\ \A f \in LineOnly : Loaded(file.sets, c)[f] = c[f]
  BY <1>1 DEF Loaded, Takes, Fields
<1>3. "generated" \in Values /\ "obfSalt" \notin LineOnly /\ LineOnly \subseteq Fields
  BY ValuesAssumption DEF LineOnly, Fields
<1> QED BY <1>2, <1>3 DEF Salted

LEMMA OverType ==
  ASSUME NEW c \in [Fields -> Values], file \in Files,
         NEW n \in DOMAIN AllProfiles
  PROVE  /\ Over(AllProfiles[n].sets, c) \in [Fields -> Values]
         /\ \A f \in Fields \ Profiled : Over(AllProfiles[n].sets, c)[f] = c[f]
BY TableType DEF Over

LEMMA RetainedType ==
  ASSUME NEW c \in [Fields -> Values]
  PROVE  /\ Retained(c) \in [Fields -> Values]
         /\ \A f \in Fields \ {"keepTemps", "noIncremental"} : Retained(c)[f] = c[f]
BY ValuesAssumption DEF Retained

LEMMA ArgumentType ==
  ASSUME line \in Lines, NEW i \in 1 .. Len(line)
  PROVE  /\ line \in Seq(Argument)
         /\ line[i].value \in Values
         /\ line[i] = [field |-> line[i].field, value |-> line[i].value]
         /\ line[i].field = "profile" => line[i].value \in Names \cup {None}
         /\ line[i].field \in Flags => line[i].value = "yes"
<1>1. line \in Seq(Argument) /\ line[i] \in Argument
  BY LinesAssumption
<1> QED BY <1>1, ValuesAssumption DEF Argument, Appends, Flags, None

-----------------------------------------------------------------------------
(* The profile a build is asked for is a name; profiles are only looked up in
   a file. *)
Typed == /\ TypeOK
         /\ cfg["profile"] \in Names \cup {None}
         /\ at \in {"resolve", "apply", "validate", "circular", "unknownProfile"}
              => file # Missing
         /\ \A i \in DOMAIN chain : /\ file # Missing
                                  /\ chain[i] \in DOMAIN AllProfiles

LEMMA TypedInit == Init => Typed
BY DefaultType, DefaultOfOne DEF Init, Typed, TypeOK, Places

LEMMA TypedNext == Typed /\ [Next]_vars => Typed'
<1> SUFFICES ASSUME Typed, [Next]_vars PROVE Typed'
  OBVIOUS
<1> USE DEF Typed, TypeOK, Goes
<1>0. file' = file => AllProfiles' = AllProfiles
  BY DEF AllProfiles
<1>1. CASE Parse
  <2>1. line \in Seq(Argument)
    BY LinesAssumption
  <2>2. parsed + 1 \in 1 .. Len(line)
    BY <1>0, <1>1, <2>1 DEF Parse
  <2>3. CASE line[parsed + 1].field \in Options
    <3>. DEFINE a == line[parsed + 1]
    <3>1. cfg' = [cfg EXCEPT ![a.field] = Given(a)]
      BY <1>0, <1>1, <2>3 DEF Parse
    <3>2. /\ Given(a) \in Values
          /\ a.field = "profile" => Given(a) \in Names \cup {None}
      <4>1. /\ a.value \in Values
            /\ a.field = "profile" => a.value \in Names \cup {None}
        BY <2>2, ArgumentType
      <4>2. a.field \in Fields /\ cfg \in [Fields -> Values]
        BY <1>0, <2>3, FieldFacts
      <4> QED BY <4>1, <4>2 DEF Given, Appends
    <3>3. cfg' \in [Fields -> Values] /\ cfg'["profile"] \in Names \cup {None}
      BY <3>1, <3>2, FieldFacts
    <3> QED BY <1>0, <1>1, <2>1, <2>2, <2>3, <3>3 DEF Parse, Places
  <2>4. CASE line[parsed + 1].field \notin Options
    BY <1>0, <1>1, <2>4 DEF Parse, Places, Ends
  <2> QED BY <2>3, <2>4
<1>2. CASE EndOfLine
  BY <1>0, <1>2 DEF EndOfLine, Places, Ends
<1>3. CASE NoFile \/ RejectFile \/ Validate
  BY <1>0, <1>3 DEF NoFile, RejectFile, Validate, Places, Ends
<1>4. CASE LoadFile
  <2>1. file \in Files /\ cfg' = Salted(Loaded(file.sets, cfg))
    BY <1>0, <1>4 DEF LoadFile
  <2>2. cfg' \in [Fields -> Values] /\ cfg'["profile"] = cfg["profile"]
    BY <2>1, LoadedType, FieldFacts
  <2> QED BY <1>0, <1>4, <2>2 DEF LoadFile, Places
<1>5. CASE Circular \/ UnknownProfile \/ Applied
  BY <1>0, <1>5 DEF Circular, UnknownProfile, Applied, Places, Ends
<1>6. CASE Follow
  <2>1. current \in Names /\ AllProfiles[current].extends \in Names \cup {None}
    BY <1>0, <1>6, TableType DEF Follow
  <2>2. /\ chain' \in Seq(Names) /\ Len(chain') = Len(chain) + 1
        /\ \A i \in DOMAIN chain' : chain'[i] \in Visited \cup {current}
    BY <1>6, <2>1 DEF Follow, Collected, Visited
  <2>3. \A n \in Visited \cup {current} : n \in DOMAIN AllProfiles
    BY <1>6 DEF Follow, Visited
  <2> QED BY <1>0, <1>6, <2>1, <2>2, <2>3 DEF Follow, Places
<1>7. CASE EndOfChain
  BY <1>0, <1>7 DEF EndOfChain, Places
<1>8. CASE ApplyProfile
  <2>1. left \in 1 .. Len(chain) /\ chain[left] \in DOMAIN AllProfiles /\ file \in Files
    BY <1>8 DEF ApplyProfile
  <2>2. cfg' \in [Fields -> Values] /\ cfg'["profile"] = cfg["profile"]
    BY <1>8, <2>1, OverType, FieldFacts DEF ApplyProfile, NextToApply
  <2> QED BY <1>0, <1>8, <2>1, <2>2 DEF ApplyProfile, Places
<1>9. CASE Guards
  BY <1>0, <1>9, RetainedType, FieldFacts DEF Guards, Places, Ends
<1>10. CASE Finished \/ UNCHANGED vars
  BY <1>0, <1>10 DEF Finished, vars
<1> QED
  BY <1>1, <1>2, <1>3, <1>4, <1>5, <1>6, <1>7, <1>8, <1>9, <1>10 DEF Next, Step
(* Every field of the configuration and the whole resolution keep their
   types. *)
THEOREM TypeCorrect == Spec => []TypeOK
<1>1. Typed => TypeOK
  BY DEF Typed
<1> QED BY TypedInit, TypedNext, <1>1, PTL DEF Spec

-----------------------------------------------------------------------------
(* The profile the chain has come to: the one asked for, or what the last one
   collected extends. *)
Following == IF chain = <<>> THEN cfg["profile"]
                             ELSE AllProfiles[chain[Len(chain)]].extends

(* The chain is a line of inheritance without repetition. *)
IsLineage ==
  /\ chain # <<>> => chain[1] = cfg["profile"]
  /\ \A i, j \in DOMAIN chain : chain[i] = chain[j] => i = j
  /\ \A i \in DOMAIN chain : i + 1 \in DOMAIN chain =>
       chain[i + 1] = AllProfiles[chain[i]].extends
  /\ Visited \subseteq Selected

Resolving == {"resolve", "circular", "unknownProfile"}
Resolved == {"apply", "validate", "guards", "build"}

Resolution ==
  /\ IsLineage
  /\ at \in {"line", "file"} => chain = <<>>
  /\ at \in Resolving => /\ cfg["profile"] # None /\ current = Following
                         /\ current \in Selected \cup {None}
  /\ at \in Resolved /\ Selects => chain # <<>> /\ Following = None
  /\ at = "circular" => current \in Visited
  /\ at = "unknownProfile" => current # None /\ current \notin DOMAIN AllProfiles

(* What inherits from nothing else is inherited from by itself alone. *)
LEMMA AncestorsOfClosed ==
  ASSUME NEW S \in SUBSET Names, NEW n \in S, Closed(S)
  PROVE  Ancestors(n) \subseteq S
BY DEF Ancestors

LEMMA AncestorsStep ==
  ASSUME NEW n \in Names, NEW m \in Ancestors(n), m \in DOMAIN AllProfiles,
         AllProfiles[m].extends \in Names
  PROVE  AllProfiles[m].extends \in Ancestors(n)
BY NamesAssumption DEF Ancestors, Closed

LEMMA OwnAncestor == ASSUME NEW n \in Names PROVE n \in Ancestors(n)
BY DEF Ancestors

(* After the command line nothing sets the name of the profile. *)
LEMMA ProfileKept ==
  ASSUME Typed, [Next]_vars
  PROVE  /\ file' = file /\ AllProfiles' = AllProfiles
         /\ at # "line" => /\ cfg'["profile"] = cfg["profile"]
                           /\ Selected' = Selected /\ (Selects <=> Selects')
<1>1. file' = file
  BY DEF Next, Step, vars, Goes, Parse, EndOfLine, NoFile, LoadFile, RejectFile,
         Circular, UnknownProfile, Follow, EndOfChain, ApplyProfile, Applied,
         Validate, Guards, Finished
<1>2. AllProfiles' = AllProfiles
  BY <1>1 DEF AllProfiles
<1>3. ASSUME at # "line" PROVE cfg'["profile"] = cfg["profile"]
  <2>1. CASE LoadFile
    <3>1. file \in Files /\ cfg \in [Fields -> Values]
      BY <2>1 DEF LoadFile, Typed, TypeOK
    <3> QED BY <2>1, <3>1, LoadedType, FieldFacts DEF LoadFile
  <2>2. CASE ApplyProfile
    <3>1. /\ chain[left] \in DOMAIN AllProfiles /\ file \in Files
          /\ cfg \in [Fields -> Values]
      BY <2>2 DEF ApplyProfile, Typed, TypeOK
    <3> QED BY <2>2, <3>1, OverType, FieldFacts DEF ApplyProfile, NextToApply
  <2>3. CASE Guards
    BY <2>3, RetainedType, FieldFacts DEF Guards, Typed, TypeOK
  <2>4. CASE ~(LoadFile \/ ApplyProfile \/ Guards)
    BY <1>3, <2>4 DEF Next, Step, vars, Parse, EndOfLine, NoFile, RejectFile,
         Circular, UnknownProfile, Follow, EndOfChain, Applied, Validate, Finished
  <2> QED BY <2>1, <2>2, <2>3, <2>4
<1>4. ASSUME at # "line" PROVE Selected' = Selected /\ (Selects <=> Selects')
  BY <1>1, <1>2, <1>3, <1>4 DEF Selected, Ancestors, Closed, Selects
<1> QED BY <1>1, <1>2, <1>3, <1>4

LEMMA ResolutionNext == Typed /\ Resolution /\ [Next]_vars => Resolution'
<1> SUFFICES ASSUME Typed, Resolution, [Next]_vars PROVE Resolution'
  OBVIOUS
<1>1. CASE at = "line"
  <2>1. chain' = <<>> /\ at' \in {"line", "file", "refused"}
    BY <1>1 DEF Resolution, Next, Step, vars, Goes, Parse, EndOfLine, NoFile,
         LoadFile, RejectFile, Circular, UnknownProfile, Follow, EndOfChain,
         ApplyProfile, Applied, Validate, Guards, Finished, Ends
  <2> QED BY <2>1 DEF Resolution, IsLineage, Visited, Resolving, Resolved
<1>2. CASE at # "line"
  <2>0. /\ file' = file /\ AllProfiles' = AllProfiles
        /\ cfg'["profile"] = cfg["profile"]
        /\ Selected' = Selected /\ (Selects <=> Selects')
    BY <1>2, ProfileKept
  <2>1. CASE Follow
    <3>1. /\ chain \in Seq(Names) /\ current \in Names /\ current = Following
          /\ current \in Selected /\ current \notin Visited
          /\ file \in Files /\ current \in DOMAIN AllProfiles
          /\ cfg["profile"] \in Names
      BY <2>1, TableType, NamesAssumption
         DEF Follow, Typed, TypeOK, Resolution, Resolving, Seen
    <3>2. /\ DOMAIN chain' = 1 .. Len(chain) + 1 /\ Len(chain') = Len(chain) + 1
          /\ \A i \in DOMAIN chain : chain'[i] = chain[i]
          /\ chain'[Len(chain) + 1] = current
          /\ DOMAIN chain = 1 .. Len(chain) /\ Len(chain) \in Nat
      BY <2>1, <3>1 DEF Follow, Collected
    <3>3. chain'[1] = cfg["profile"]
      BY <3>1, <3>2 DEF Following, Resolution, IsLineage
    <3>4. \A i, j \in DOMAIN chain' : chain'[i] = chain'[j] => i = j
      BY <3>1, <3>2 DEF Visited, Resolution, IsLineage
    <3>5. \A i \in DOMAIN chain' : i + 1 \in DOMAIN chain' =>
            chain'[i + 1] = AllProfiles[chain'[i]].extends
      <4> SUFFICES ASSUME NEW i \in 1 .. Len(chain)
                   PROVE  chain'[i + 1] = AllProfiles[chain'[i]].extends
        BY <3>2
      <4>1. CASE i = Len(chain)
        BY <3>1, <3>2, <4>1 DEF Following
      <4>2. CASE i # Len(chain)
        <5>1. DOMAIN chain = 1 .. Len(chain) /\ Len(chain) \in Nat
          BY <3>2
        <5> DEFINE n == Len(chain)
        <5>2. n \in Nat /\ i \in 1 .. n /\ i # n
          BY <4>2, <5>1
        <5> HIDE DEF n
        <5>3. i + 1 \in 1 .. n
          BY <5>2
        <5> QED BY <3>2, <5>1, <5>3 DEF n, Resolution, IsLineage
      <4> QED BY <4>1, <4>2
    <3>6. Visited' \subseteq Selected
      BY <3>1, <3>2 DEF Visited, Resolution, IsLineage
    <3>7. IsLineage'
      BY <2>0, <3>3, <3>4, <3>5, <3>6 DEF IsLineage
    <3>8. current' = Following' /\ at' = "resolve" /\ cfg["profile"] # None
      BY <2>0, <2>1, <3>1, <3>2, NamesAssumption DEF Follow, Following, Goes
    <3>9. current' \in Selected \cup {None}
      BY <2>1, <3>1, AncestorsStep, TableType DEF Follow, Selected
    <3> QED BY <2>0, <3>7, <3>8, <3>9 DEF Resolution, Resolving, Resolved
  <2>2. CASE LoadFile
    <3>1. chain' = <<>> /\ chain = <<>>
      BY <2>2 DEF LoadFile, Resolution
    <3>2. cfg["profile"] # None => cfg["profile"] \in Selected
      BY OwnAncestor DEF Typed, Selected
    <3>3. IsLineage'
      BY <3>1 DEF IsLineage, Visited
    <3> QED BY <2>0, <2>2, <3>1, <3>2, <3>3
            DEF LoadFile, Goes, Resolution, Resolving, Resolved, Following, Selects
  <2>3. CASE ~Follow /\ ~LoadFile
    <3>1. chain' = chain /\ current' = current
      BY <1>2, <2>3 DEF Next, Step, vars, Parse, EndOfLine, NoFile, RejectFile,
           Circular, UnknownProfile, EndOfChain, ApplyProfile, Applied,
           Validate, Guards, Finished
    <3>2. IsLineage' /\ Following' = Following /\ Visited' = Visited
      BY <2>0, <3>1 DEF Resolution, IsLineage, Visited, Following
    <3>3. /\ at' \in Resolving => at \in Resolving
          /\ at' \notin {"line", "file"} \/ at' = at
          /\ at' = "circular" => at = "circular" \/ current \in Visited
          /\ at' = "unknownProfile" =>
               \/ at = "unknownProfile"
               \/ current # None /\ current \notin DOMAIN AllProfiles
          /\ at' \in Resolved =>
               \/ at \in Resolved
               \/ file = Missing
               \/ at = "resolve" /\ current = None
      BY <1>2, <2>3 DEF Next, Step, vars, Goes, Parse, EndOfLine, NoFile,
           RejectFile, Circular, UnknownProfile, EndOfChain, ApplyProfile,
           Applied, Validate, Guards, Finished, Resolving, Resolved, Ends, Seen
    <3>4. at = "resolve" /\ current = None => chain # <<>> /\ Following = None
      BY DEF Resolution, Resolving, Following
    <3>5. ~(file = Missing /\ Selects)
      BY DEF Selects
    <3> QED BY <2>0, <3>1, <3>2, <3>3, <3>4, <3>5 DEF Resolution
  <2> QED BY <2>1, <2>2, <2>3
<1> QED BY <1>1, <1>2

(* The chain with what it comes to after its last profile is closed. *)
LEMMA LineageCloses ==
  ASSUME Typed, Resolution, chain # <<>>, Following \in Visited \cup {None},
         NEW i \in DOMAIN chain,
         Following = None \/ i = 1
  PROVE  Ancestors(chain[i]) \subseteq {chain[k] : k \in i .. Len(chain)}
<1> DEFINE S == {chain[k] : k \in i .. Len(chain)}
<1>1. /\ chain \in Seq(Names) /\ Len(chain) \in Nat /\ DOMAIN chain = 1 .. Len(chain)
      /\ i \in 1 .. Len(chain)
  BY DEF Typed, TypeOK
<1>2. S \in SUBSET Names /\ chain[i] \in S
  BY <1>1
<1>3. ASSUME NEW k \in i .. Len(chain)
      PROVE  AllProfiles[chain[k]].extends \in S \cup {None}
  <2>1. CASE k = Len(chain)
    <3>1. AllProfiles[chain[k]].extends = Following
      BY <2>1 DEF Following
    <3>2. i = 1 => S = Visited
      BY <1>1 DEF Visited
    <3> QED BY <3>1, <3>2
  <2>2. CASE k # Len(chain)
    <3> DEFINE n == Len(chain)
    <3>1. n \in Nat /\ i \in 1 .. n /\ k \in i .. n /\ k # n /\ DOMAIN chain = 1 .. n
      BY <1>1, <2>2
    <3> HIDE DEF n
    <3>2. k \in 1 .. n /\ k + 1 \in 1 .. n /\ k + 1 \in i .. n
      BY <3>1
    <3>3. AllProfiles[chain[k]].extends = chain[k + 1]
      BY <3>1, <3>2 DEF Resolution, IsLineage
    <3> QED BY <3>2, <3>3 DEF n
  <2> QED BY <2>1, <2>2
<1>4. Closed(S)
  BY <1>3 DEF Closed
<1> HIDE DEF S
<1>5. Ancestors(chain[i]) \subseteq S
  BY <1>2, <1>4, AncestorsOfClosed
<1> QED BY <1>5 DEF S

LEMMA SelectedIsChain ==
  ASSUME Typed, Resolution, chain # <<>>, Following \in Visited \cup {None}
  PROVE  Selected = Visited
<1>1. 1 \in DOMAIN chain /\ chain[1] = cfg["profile"]
  BY DEF Typed, TypeOK, Resolution, IsLineage
<1>2. Selected \subseteq {chain[k] : k \in 1 .. Len(chain)}
  BY <1>1, LineageCloses DEF Selected
<1>3. 1 .. Len(chain) = DOMAIN chain
  BY DEF Typed, TypeOK
<1> QED BY <1>2, <1>3 DEF Visited, Resolution, IsLineage

LEMMA ResolutionExact == Typed /\ Resolution => ResolutionIsExact
<1> SUFFICES ASSUME Typed, Resolution PROVE ResolutionIsExact
  OBVIOUS
<1>0. /\ chain \in Seq(Names) /\ DOMAIN chain = 1 .. Len(chain)
      /\ \A i \in DOMAIN chain : file # Missing /\ chain[i] \in DOMAIN AllProfiles
  BY DEF Typed, TypeOK
<1>1. ASSUME at = "circular", NEW n \in Selected
      PROVE  n \in DOMAIN AllProfiles /\ AllProfiles[n].extends # None
  <2>1. current \in Visited /\ current = Following /\ chain # <<>>
    BY <1>0, <1>1 DEF Resolution, Resolving, Visited
  <2>2. PICK i \in DOMAIN chain : n = chain[i]
    BY <2>1, SelectedIsChain DEF Visited
  <2>3. None \notin Visited
    BY <1>0, NamesAssumption DEF Visited
  <2>4. CASE i = Len(chain)
    BY <1>0, <2>1, <2>2, <2>3, <2>4 DEF Following
  <2>5. CASE i # Len(chain)
    <3>1. i + 1 \in DOMAIN chain
      BY <1>0, <2>5
    <3>2. AllProfiles[n].extends = chain[i + 1]
      BY <2>2, <3>1 DEF Resolution, IsLineage
    <3> QED BY <1>0, <2>2, <2>3, <3>1, <3>2 DEF Visited
  <2> QED BY <2>4, <2>5
<1>2. ASSUME at = "unknownProfile" PROVE \E n \in Selected : n \notin DOMAIN AllProfiles
  BY <1>2 DEF Resolution, Resolving
<1>3. ASSUME at = "build", Selects
      PROVE  /\ \A n \in Selected : n \in DOMAIN AllProfiles
             /\ \E n \in Selected : AllProfiles[n].extends = None
  <2>1. chain # <<>> /\ Following = None
    BY <1>3 DEF Resolution, Resolved
  <2>2. Selected = Visited
    BY <2>1, SelectedIsChain
  <2>3. Len(chain) \in DOMAIN chain /\ AllProfiles[chain[Len(chain)]].extends = None
    BY <1>0, <2>1 DEF Following
  <2> QED BY <1>0, <2>2, <2>3 DEF Visited
<1> QED BY <1>1, <1>2, <1>3 DEF ResolutionIsExact

LEMMA ResolutionInit == Init => Resolution
BY DEF Init, Resolution, IsLineage, Visited, Resolving, Resolved

-----------------------------------------------------------------------------
(* What has been applied of the chain so far: of the profiles from `left` on,
   the first that sets a field has given it its value. *)
Overridden ==
  at \in Resolved /\ Selects =>
    /\ at # "apply" => left = 0
    /\ \A f \in Profiled : \A i \in DOMAIN chain :
         /\ i > left
         /\ Sets(chain[i], f)
         /\ \A j \in DOMAIN chain : left < j /\ j < i => ~Sets(chain[j], f)
         => cfg[f] = AllProfiles[chain[i]].sets[f]

(* The salt is there when the file has been read, and what takes it away is
   one of the profiles. *)
SaltKept ==
  at \in {"resolve"} \cup Resolved /\ file # Missing /\ NeedsSalt(cfg) =>
    \E i \in DOMAIN chain : Sets(chain[i], "obfMode") \/ Sets(chain[i], "obfSalt")

LEMMA OverriddenNext ==
  Typed /\ Resolution /\ Overridden /\ [Next]_vars => Overridden'
<1> SUFFICES ASSUME Typed, Resolution, Overridden, [Next]_vars,
                    (at \in Resolved /\ Selects)'
             PROVE  /\ (at # "apply")' => left' = 0
                    /\ \A f \in Profiled : \A i \in DOMAIN chain' :
                         /\ i > left'
                         /\ Sets(chain[i], f)'
                         /\ \A j \in DOMAIN chain' : left' < j /\ j < i => ~Sets(chain[j], f)'
                         => cfg'[f] = AllProfiles'[chain'[i]].sets[f]
  BY DEF Overridden
<1>0. /\ cfg \in [Fields -> Values] /\ left \in 0 .. Len(chain) /\ chain \in Seq(Names)
      /\ DOMAIN chain = 1 .. Len(chain) /\ left \in Nat
      /\ at # "line"
  BY DEF Typed, TypeOK, Resolved, Next, Step, vars, Goes, Parse, EndOfLine, NoFile,
     LoadFile, RejectFile, Circular, UnknownProfile, Follow, EndOfChain,
     ApplyProfile, Applied, Validate, Guards, Finished, Ends
<1>1. /\ file' = file /\ AllProfiles' = AllProfiles
      /\ cfg'["profile"] = cfg["profile"] /\ Selects /\ file # Missing
  BY <1>0, ProfileKept DEF Selects
<1>2. CASE EndOfChain
  BY <1>0, <1>2 DEF EndOfChain, Goes
<1>3. CASE ApplyProfile
  <2>1. /\ left > 0 /\ left' = left - 1 /\ chain' = chain /\ at' = "apply" /\ at = "apply"
        /\ cfg' = Over(AllProfiles[chain[left]].sets, cfg)
    BY <1>3 DEF ApplyProfile, NextToApply, Goes
  <2> SUFFICES ASSUME NEW f \in Profiled, NEW i \in DOMAIN chain, i > left - 1,
                      Sets(chain[i], f),
                      \A j \in DOMAIN chain : left - 1 < j /\ j < i => ~Sets(chain[j], f)
               PROVE  cfg'[f] = AllProfiles[chain[i]].sets[f]
    BY <1>1, <2>1 DEF Sets
  <2>2. f \in DOMAIN cfg
    BY <1>0, FieldFacts
  <2>3. CASE i = left
    BY <2>1, <2>2, <2>3 DEF Over, Sets
  <2>4. CASE i > left
    <3>1. left \in DOMAIN chain /\ ~Sets(chain[left], f)
      BY <1>0, <2>1, <2>4
    <3>2. cfg'[f] = cfg[f]
      BY <2>1, <2>2, <3>1 DEF Over, Sets
    <3>3. \A j \in DOMAIN chain : left < j /\ j < i => ~Sets(chain[j], f)
      BY <1>0
    <3> QED BY <1>1, <2>1, <2>4, <3>2, <3>3 DEF Overridden, Resolved
  <2> QED BY <1>0, <2>3, <2>4
<1>4. CASE Guards
  <2>1. /\ chain' = chain /\ left' = left /\ at \in Resolved /\ at # "apply"
        /\ \A f \in Profiled : cfg'[f] = cfg[f]
    BY <1>0, <1>4, RetainedType, FieldFacts DEF Guards, Resolved
  <2> QED BY <1>1, <2>1 DEF Overridden, Sets
<1>5. CASE ~(EndOfChain \/ ApplyProfile \/ Guards)
  <2>1. /\ chain' = chain /\ left' = left /\ cfg' = cfg /\ at \in Resolved
        /\ at' # "apply" => at # "apply" \/ left = 0
    BY <1>0, <1>1, <1>5
       DEF Next, Step, vars, Goes, Parse, EndOfLine, NoFile,
           LoadFile, RejectFile, Circular, UnknownProfile, Follow, Applied,
           Validate, Finished, Resolved, Ends, Selects
  <2> QED BY <1>1, <2>1 DEF Overridden, Sets
<1> QED BY <1>2, <1>3, <1>4, <1>5

LEMMA SaltKeptNext == Typed /\ SaltKept /\ [Next]_vars => SaltKept'
<1> SUFFICES ASSUME Typed, SaltKept, [Next]_vars,
                    (at \in {"resolve"} \cup Resolved)', file' # Missing, NeedsSalt(cfg')
             PROVE  \E i \in DOMAIN chain' : \/ Sets(chain[i], "obfMode")'
                                            \/ Sets(chain[i], "obfSalt")'
  BY DEF SaltKept, NeedsSalt
<1>0. /\ cfg \in [Fields -> Values] /\ left \in 0 .. Len(chain) /\ chain \in Seq(Names)
      /\ DOMAIN chain = 1 .. Len(chain) /\ file' = file /\ AllProfiles' = AllProfiles
  BY ProfileKept DEF Typed, TypeOK
<1>1. CASE LoadFile
  BY <1>0, <1>1, LoadedType, FieldFacts, ValuesAssumption
     DEF LoadFile, NeedsSalt, Salted, Loaded, None
<1>2. CASE ApplyProfile
  <2>1. /\ left \in DOMAIN chain /\ chain' = chain /\ at = "apply" /\ file # Missing
        /\ cfg' = Over(AllProfiles[chain[left]].sets, cfg)
    BY <1>0, <1>2 DEF ApplyProfile, NextToApply
  <2>2. CASE Sets(chain[left], "obfMode") \/ Sets(chain[left], "obfSalt")
    BY <1>0, <2>1, <2>2 DEF Sets
  <2>3. CASE ~Sets(chain[left], "obfMode") /\ ~Sets(chain[left], "obfSalt")
    <3>1. NeedsSalt(cfg)
      BY <1>0, <2>1, <2>3, FieldFacts DEF Over, Sets, NeedsSalt
    <3> QED BY <1>0, <2>1, <3>1 DEF SaltKept, Sets, Resolved
  <2> QED BY <2>2, <2>3
<1>3. CASE Guards
  <2>1. NeedsSalt(cfg) /\ at = "guards" /\ chain' = chain
    BY <1>0, <1>3, RetainedType, FieldFacts DEF Guards, NeedsSalt
  <2> QED BY <1>0, <2>1 DEF SaltKept, Sets, Resolved
<1>4. CASE Follow
  <2>1. /\ \A i \in DOMAIN chain : i \in DOMAIN chain' /\ chain'[i] = chain[i]
        /\ at = "resolve" /\ cfg' = cfg
    BY <1>0, <1>4, TableType DEF Follow, Collected, Typed, TypeOK
  <2> QED BY <1>0, <2>1 DEF SaltKept, Sets
<1>5. CASE ~(LoadFile \/ ApplyProfile \/ Guards \/ Follow)
  <2>1. /\ chain' = chain /\ cfg' = cfg /\ at \in {"resolve"} \cup Resolved
    BY <1>0, <1>5
       DEF Next, Step, vars, Goes, Parse, EndOfLine, NoFile, RejectFile,
           Circular, UnknownProfile, EndOfChain, Applied, Validate, Finished,
           Resolved, Ends
  <2> QED BY <1>0, <2>1 DEF SaltKept, Sets
<1> QED BY <1>1, <1>2, <1>3, <1>4, <1>5

LEMMA NearestOnChain ==
  Typed /\ Resolution /\ Overridden => NearestProfileWins
<1> SUFFICES ASSUME Typed, Resolution, Overridden, at = "build", Selects,
                    NEW f \in Profiled, NEW n \in Names, Nearest(n, f)
             PROVE  cfg[f] = AllProfiles[n].sets[f]
  BY DEF NearestProfileWins
<1>1. chain # <<>> /\ Following = None /\ at \in Resolved /\ left = 0
  BY DEF Resolution, Resolved, Overridden
<1>2. Selected = Visited
  BY <1>1, SelectedIsChain
<1>3. PICK i \in DOMAIN chain : n = chain[i]
  BY <1>2 DEF Nearest, Visited
<1>4. DOMAIN chain = 1 .. Len(chain) /\ Len(chain) \in Nat
  BY DEF Typed, TypeOK
<1>5. ASSUME NEW j \in DOMAIN chain, j < i, Sets(chain[j], f) PROVE FALSE
  <2>1. chain[j] \in Ancestors(chain[i])
    BY <1>2, <1>3, <1>5 DEF Nearest, Visited
  <2>2. PICK k \in i .. Len(chain) : chain[j] = chain[k]
    BY <1>1, <2>1, LineageCloses
  <2>3. k \in DOMAIN chain /\ j # k
    BY <1>4, <1>5, <2>2
  <2> QED BY <2>2, <2>3 DEF Resolution, IsLineage
<1>6. i > left
  BY <1>1, <1>4
<1> QED BY <1>1, <1>3, <1>5, <1>6 DEF Overridden, Nearest

LEMMA UnsaltedOnChain == Typed /\ Resolution /\ SaltKept => UnsaltedIsExplained
<1> SUFFICES ASSUME Typed, Resolution, SaltKept, at = "build", NeedsSalt(cfg),
                    file # Missing
             PROVE  Selects /\ \E n \in Selected : \/ Sets(n, "obfMode")
                                                   \/ Sets(n, "obfSalt")
  BY DEF UnsaltedIsExplained
<1>1. PICK i \in DOMAIN chain : Sets(chain[i], "obfMode") \/ Sets(chain[i], "obfSalt")
  BY DEF SaltKept, Resolved
<1>2. chain[i] \in Selected
  BY DEF Resolution, IsLineage, Visited
<1>3. chain[1] = cfg["profile"] /\ chain[1] \in Names
  BY DEF Resolution, IsLineage, Typed, TypeOK
<1> QED BY <1>1, <1>2, <1>3, NamesAssumption DEF Selects

-----------------------------------------------------------------------------
(* What the first k arguments say of f. *)
Among(k, f, v) ==
  \E i \in 1 .. k : /\ line[i] = [field |-> f, value |-> v]
                    /\ \A j \in 1 .. k : Supersedes(f, j, i) => line[j].field # f

Loading == {"line", "file"}

(* What the command line has said, up to where it is parsed, holds; later it
   holds where it is not the default. *)
LineSaid ==
  /\ at \in Loading =>
       /\ \A f \in Held : \A v \in Values : Among(parsed, f, v) => cfg[f] = v
       /\ \A f \in Appends : cfg[f] # Default[f] =>
            \E i \in 1 .. parsed : line[i].field = f
  /\ at \notin {"line", "refused"} => parsed = Len(line)
  /\ at \notin Loading \cup {"refused"} =>
       /\ \A f \in Held : \A v \in Values \ {Default[f]} :
            OnLine(f, v) => cfg[f] = v
       /\ AuditAsked => cfg["auditCheck"] = "yes"

LEMMA WholeLine ==
  ASSUME line \in Lines, parsed = Len(line), NEW f, NEW v
  PROVE  Among(parsed, f, v) <=> OnLine(f, v)
<1>1. line \in Seq(Argument) /\ DOMAIN line = 1 .. Len(line)
  BY LinesAssumption
<1> QED BY <1>1 DEF Among, OnLine

LEMMA ListsAreEmpty == \A f \in Appends : Default[f] = None
<1>1. Appends \subseteq Fields \ Features
  BY FeaturesAssumption DEF Appends, Fields, Fills
<1> QED BY <1>1 DEF Default, Appends

(* A flag has no other value than to be given. *)
LEMMA FlagsSayYes ==
  ASSUME line \in Lines, NEW f \in Flags, NEW v, OnLine(f, v)
  PROVE  v = "yes"
<1>1. line \in Seq(Argument) /\ DOMAIN line = 1 .. Len(line)
  BY LinesAssumption
<1>2. PICK i \in 1 .. Len(line) : line[i] = [field |-> f, value |-> v]
  BY <1>1 DEF OnLine
<1> QED BY <1>2, ArgumentType

LEMMA LineSaidNext == Typed /\ LineSaid /\ [Next]_vars => LineSaid'
<1> SUFFICES ASSUME Typed, LineSaid, [Next]_vars PROVE LineSaid'
  OBVIOUS
<1>0. /\ cfg \in [Fields -> Values] /\ line \in Lines /\ line' = line /\ file' = file
      /\ line \in Seq(Argument) /\ parsed \in 0 .. Len(line) /\ Len(line) \in Nat
  <2>1. line' = line
    BY DEF Next, Step, vars, Goes, Parse, EndOfLine, NoFile, LoadFile, RejectFile,
       Circular, UnknownProfile, Follow, EndOfChain, ApplyProfile, Applied,
       Validate, Guards, Finished
  <2> QED BY <2>1, ProfileKept, LinesAssumption DEF Typed, TypeOK
<1>1. AuditAsked' = AuditAsked /\ \A f, v : OnLine(f, v)' = OnLine(f, v)
  BY <1>0 DEF AuditAsked, OnLine
<1>2. CASE Parse
  <2>1. CASE line[parsed + 1].field \notin Options
    BY <1>2, <2>1 DEF Parse, Goes, LineSaid, Loading
  <2>2. CASE line[parsed + 1].field \in Options
    <3>. DEFINE a == line[parsed + 1]
    <3>1. /\ parsed' = parsed + 1 /\ at' = "line" /\ at = "line"
          /\ cfg' = [cfg EXCEPT ![a.field] = Given(a)]
          /\ parsed + 1 \in 1 .. Len(line)
      BY <1>0, <1>2, <2>2 DEF Parse, Goes
    <3>2. ASSUME NEW f \in Held, NEW v \in Values, Among(parsed + 1, f, v)
          PROVE  cfg'[f] = v
      <4>0. f \in Fields /\ cfg \in [Fields -> Values]
        BY <1>0, FieldFacts
      <4>1. CASE a.field = f /\ f \notin Appends
        <5>1. a.value = v
          BY <1>0, <3>2, <4>1 DEF Among, Supersedes
        <5> QED BY <3>1, <4>0, <4>1, <5>1 DEF Given
      <4>2. CASE a.field # f
        <5>1. Among(parsed, f, v)
          BY <1>0, <3>2, <4>2 DEF Among
        <5> QED BY <1>0, <3>1, <4>2, <5>1 DEF LineSaid, Loading
      <4>3. CASE a.field = f /\ f \in Appends
        <5>1. PICK i \in 1 .. parsed + 1 :
                /\ line[i] = [field |-> f, value |-> v]
                /\ \A j \in 1 .. parsed + 1 : j < i => line[j].field # f
          BY <3>2, <4>3 DEF Among, Supersedes
        <5>2. CASE i = parsed + 1
          <6>1. \A j \in 1 .. parsed : line[j].field # f
            BY <1>0, <5>1, <5>2
          <6>2. cfg[f] = Default[f] /\ a.value = v
            BY <3>1, <4>3, <5>1, <5>2, <6>1 DEF LineSaid, Loading
          <6> QED BY <3>1, <4>0, <4>3, <6>2 DEF Given
        <5>3. CASE i # parsed + 1
          <6>1. i \in 1 .. parsed BY <1>0, <5>1, <5>3
          <6>2. Among(parsed, f, v)
            BY <1>0, <4>3, <5>1, <6>1 DEF Among, Supersedes
          <6>3. cfg[f] = v
            BY <3>1, <3>2, <6>2 DEF LineSaid, Loading
          <6>4. v # Default[f]
            <7>1. line[i] \in Argument BY <1>0, <3>1, <6>1
            <7>2. v # None
              BY <4>3, <5>1, <7>1 DEF Argument, Appends, Flags
            <7> QED BY <4>3, <7>2, ListsAreEmpty
          <6> QED BY <3>1, <4>0, <4>3, <6>3, <6>4 DEF Given
        <5> QED BY <5>2, <5>3
      <4> QED BY <4>1, <4>2, <4>3
    <3>3. \A f \in Held : \A v \in Values : Among(parsed, f, v)' => cfg'[f] = v
      BY <1>0, <3>1, <3>2 DEF Among
    <3>4. ASSUME NEW f \in Appends, cfg'[f] # Default[f]
          PROVE  \E i \in 1 .. parsed' : line'[i].field = f
      <4>1. CASE a.field = f
        BY <1>0, <3>1, <4>1
      <4>2. CASE a.field # f
        <5>1. cfg'[f] = cfg[f] BY <1>0, <3>1, <4>2
        <5>2. PICK i \in 1 .. parsed : line[i].field = f
          BY <3>1, <3>4, <5>1 DEF LineSaid, Loading
        <5> QED BY <1>0, <3>1, <5>2
      <4> QED BY <4>1, <4>2
    <3> QED BY <3>1, <3>3, <3>4 DEF LineSaid, Loading
  <2> QED BY <2>1, <2>2
<1>3. CASE EndOfLine
  <2>1. cfg' = cfg /\ parsed' = parsed /\ parsed = Len(line) /\ at = "line"
        /\ at' \in {"file", "refused"}
    BY <1>3 DEF EndOfLine, Goes
  <2>2. \A f, v : Among(parsed, f, v)' <=> Among(parsed, f, v)
    BY <1>0, <2>1 DEF Among
  <2> QED BY <1>0, <2>1, <2>2 DEF LineSaid, Loading
<1>4. CASE NoFile \/ LoadFile
  <2>1. /\ at = "file" /\ parsed' = parsed /\ parsed = Len(line)
        /\ at' \notin Loading \cup {"refused"}
        /\ \A f \in Held : \A v \in Values : OnLine(f, v) => cfg[f] = v
    BY <1>0, <1>4, WholeLine DEF NoFile, LoadFile, Goes, LineSaid, Loading
  <2>2. CASE NoFile
    <3>1. cfg' = cfg /\ file = Missing
      BY <2>2 DEF NoFile
    <3>2. AuditAsked => OnLine("auditCheck", "yes")
      BY <3>1 DEF AuditAsked
    <3> QED BY <1>0, <1>1, <2>1, <3>1, <3>2, ValuesAssumption
            DEF LineSaid, Held
  <2>3. CASE LoadFile
    <3>1. file \in Files /\ cfg' = Salted(Loaded(file.sets, cfg))
      BY <1>0, <2>3 DEF LoadFile, Typed, TypeOK
    <3>2. ASSUME NEW f \in Fills \cup Raises
          PROVE  cfg'[f] = Loaded(file.sets, cfg)[f]
      BY <3>1, <3>2 DEF Salted, Loaded, Fills, Raises
    <3>3. ASSUME NEW f \in Held, NEW v \in Values \ {Default[f]}, OnLine(f, v)
          PROVE  cfg'[f] = v
      <4>1. cfg[f] = v /\ f \in Fields
        BY <2>1, <3>3, FieldFacts
      <4>2. CASE f \in Fills
        BY <3>2, <3>3, <4>1, <4>2 DEF Loaded, Takes, Filled
      <4>3. CASE f \in {"noIncremental", "auditCheck"}
        <5>1. v = "yes" /\ f \in Raises /\ Raised[f] = "yes"
          BY <1>0, <3>3, <4>3, FlagsSayYes DEF Flags, Raises, Raised
        <5> QED BY <3>2, <4>1, <5>1 DEF Loaded, Takes
      <4>4. CASE f \in LineOnly
        BY <1>0, <3>1, <4>1, <4>4, LoadedType
      <4> QED BY <4>2, <4>3, <4>4 DEF Held
    <3>4. AuditAsked => cfg'["auditCheck"] = "yes"
      <4>1. "auditCheck" \in Raises /\ Raised["auditCheck"] = "yes"
            /\ "auditCheck" \notin Fills /\ "auditCheck" \in Held
            /\ "yes" \in Values /\ "auditCheck" \in Fields
        BY ValuesAssumption, FieldFacts DEF Raises, Raised, Fills, Held
      <4>2. OnLine("auditCheck", "yes") => cfg["auditCheck"] = "yes"
        BY <2>1, <4>1
      <4> QED BY <3>2, <4>1, <4>2 DEF AuditAsked, Loaded, Takes
    <3> QED BY <1>0, <1>1, <2>1, <3>3, <3>4 DEF LineSaid
  <2> QED BY <1>4, <2>2, <2>3
<1>5. CASE ApplyProfile \/ Guards
  <2>1. /\ at \notin Loading \cup {"refused"} /\ parsed' = parsed
        /\ at' \notin Loading
    BY <1>5 DEF ApplyProfile, Guards, Goes, Loading
  <2>2. ASSUME NEW f \in Held \cup {"auditCheck"}, ~Guards
        PROVE  cfg'[f] = cfg[f]
    <3>1. ApplyProfile /\ chain[left] \in DOMAIN AllProfiles /\ file \in Files
      BY <1>5, <2>2 DEF ApplyProfile, Typed, TypeOK
    <3>2. f \in Fields \ Profiled
      BY FieldFacts
    <3> QED BY <1>0, <3>1, <3>2, OverType DEF ApplyProfile, NextToApply
  <2>3. ASSUME NEW f \in Held \cup {"auditCheck"}, NEW v, cfg[f] = v,
               f \in Flags => v = "yes", Guards
        PROVE  cfg'[f] = v
    <3>1. f \in Fields
      BY FieldFacts
    <3>2. "keepTemps" \in Flags /\ "noIncremental" \in Flags
      BY DEF Flags
    <3>3. cfg' = Retained(cfg)
      BY <2>3 DEF Guards
    <3> QED BY <1>0, <2>3, <3>1, <3>2, <3>3 DEF Retained
  <2>4. ASSUME NEW f \in Held, NEW v \in Values \ {Default[f]}, OnLine(f, v)
        PROVE  cfg'[f] = v
    BY <1>0, <2>1, <2>2, <2>3, <2>4, FlagsSayYes DEF LineSaid
  <2>5. AuditAsked => cfg'["auditCheck"] = "yes"
    BY <2>1, <2>2, <2>3 DEF LineSaid
  <2> QED BY <1>0, <1>1, <2>1, <2>4, <2>5 DEF LineSaid, Loading
<1>6. CASE ~(Parse \/ EndOfLine \/ NoFile \/ LoadFile \/ ApplyProfile \/ Guards)
  <2>1. /\ cfg' = cfg /\ parsed' = parsed
        /\ at' \in Loading => at' = at
        /\ at' \notin {"line", "refused"} => at \notin {"line", "refused"}
        /\ at' \notin Loading \cup {"refused"} => at \notin Loading \cup {"refused"}
    BY <1>6 DEF Next, Step, vars, Goes, RejectFile, Circular, UnknownProfile,
       Follow, EndOfChain, Applied, Validate, Finished, Loading, Ends
  <2>2. \A f, v : Among(parsed, f, v)' <=> Among(parsed, f, v)
    BY <1>0, <2>1 DEF Among
  <2> QED BY <1>0, <1>1, <2>1, <2>2 DEF LineSaid
<1> QED BY <1>2, <1>3, <1>4, <1>5, <1>6

(* What main's guards have seen to. *)
Guarded ==
  at = "build" => /\ Buildable(cfg)
                  /\ Retains(cfg) => /\ cfg["keepTemps"] = "yes"
                                     /\ cfg["noIncremental"] = "yes"

LEMMA GuardedNext == Typed /\ Guarded /\ [Next]_vars => Guarded'
<1> SUFFICES ASSUME Typed, Guarded, [Next]_vars, at' = "build"
             PROVE  /\ Buildable(cfg')
                    /\ Retains(cfg') => /\ cfg'["keepTemps"] = "yes"
                                        /\ cfg'["noIncremental"] = "yes"
  BY DEF Guarded, Buildable, Retains, ShouldRunCheck
<1>1. CASE Guards
  <2>1. /\ cfg \in [Fields -> Values] /\ Buildable(cfg) /\ cfg' = Retained(cfg)
        /\ {"keepTemps", "noIncremental"} \subseteq Fields
    BY <1>1, FieldFacts DEF Guards, Goes, Typed, TypeOK
  <2>2. \A f \in Fields \ {"keepTemps", "noIncremental"} : cfg'[f] = cfg[f]
    BY <2>1, RetainedType
  <2>3. {"evidence", "auditCheck", "nativeEvidence", "language", "checkCli",
         "checkMode", "sources", "topoRoot", "outputPath"}
          \subseteq Fields \ {"keepTemps", "noIncremental"}
    BY DEF Fields, LineOnly, Raises, Replaces, Fills
  <2>4. Buildable(cfg') /\ Retains(cfg') = Retains(cfg)
    BY <2>1, <2>2, <2>3 DEF Buildable, Retains, ShouldRunCheck
  <2> QED BY <2>1, <2>4 DEF Retained
<1>2. CASE ~Guards
  <2>1. cfg' = cfg /\ at = "build"
    BY <1>2 DEF Next, Step, vars, Goes, Parse, EndOfLine, NoFile, LoadFile,
       RejectFile, Circular, UnknownProfile, Follow, EndOfChain, ApplyProfile,
       Applied, Validate, Finished
  <2> QED BY <2>1 DEF Guarded
<1> QED BY <1>1, <1>2

LEMMA AuditGuarded == Typed /\ LineSaid /\ Guarded => AuditIsWhole
<1> SUFFICES ASSUME Typed, LineSaid, Guarded, at = "build", AuditAsked
             PROVE  /\ cfg["auditCheck"] = "yes"
                    /\ cfg["keepTemps"] = "yes" /\ cfg["noIncremental"] = "yes"
                    /\ ~OnLine("checkCli", "no")
                    /\ ShouldRunCheck(cfg)
  BY DEF AuditIsWhole
<1>1. cfg["auditCheck"] = "yes" /\ Retains(cfg)
  BY DEF LineSaid, Loading, Retains
<1>2. ShouldRunCheck(cfg)
  BY <1>1 DEF Guarded, Buildable
<1>3. ASSUME OnLine("checkCli", "no") PROVE FALSE
  <2>1. "no" \in Values \ {Default["checkCli"]} /\ "checkCli" \in Held
    BY ValuesAssumption, DefaultOfOne DEF Held, LineOnly, None
  <2>2. cfg["checkCli"] = "no"
    BY <1>3, <2>1 DEF LineSaid, Loading
  <2> QED BY <1>2, <2>2 DEF ShouldRunCheck, None
<1> QED BY <1>1, <1>2, <1>3 DEF Guarded

-----------------------------------------------------------------------------
(* The invariant that all of them rest on. *)
IInv == Typed /\ Resolution /\ Overridden /\ SaltKept /\ LineSaid /\ Guarded

LEMMA IInvInit == Init => IInv
<1> SUFFICES ASSUME Init PROVE IInv
  OBVIOUS
<1>1. Typed /\ Resolution
  BY TypedInit, ResolutionInit
<1>2. Overridden /\ SaltKept /\ Guarded
  BY DEF Init, Overridden, SaltKept, Guarded, Resolved
<1>3. LineSaid
  BY DEF Init, LineSaid, Loading, Among
<1> QED BY <1>1, <1>2, <1>3 DEF IInv

LEMMA IInvInvariant == Spec => []IInv
<1>1. IInv /\ [Next]_vars => IInv'
  BY TypedNext, ResolutionNext, OverriddenNext, SaltKeptNext, LineSaidNext,
     GuardedNext DEF IInv
<1> QED BY IInvInit, <1>1, PTL DEF Spec

(* For any table of profiles, in whatever way they extend one another: a
   chain is refused exactly when it has to be. *)
THEOREM ChainsAreExact == Spec => []ResolutionIsExact
<1>1. IInv => ResolutionIsExact
  BY ResolutionExact DEF IInv
<1> QED BY IInvInvariant, <1>1, PTL

(* The nearest profile that sets a field decides it. *)
THEOREM NearestDecides == Spec => []NearestProfileWins
<1>1. IInv => NearestProfileWins
  BY NearestOnChain DEF IInv
<1> QED BY IInvInvariant, <1>1, PTL

(* What the command line asks for in the fields that are its own, or that a
   file may only fill in, holds at the end; a list begins with what is first
   on it. *)
THEOREM LineHolds == Spec => []CommandLineHolds
<1>1. IInv => CommandLineHolds
  BY DEF IInv, LineSaid, CommandLineHolds, Loading
<1> QED BY IInvInvariant, <1>1, PTL

(* An audit that is asked for anywhere is a whole one. *)
THEOREM AuditsAreWhole == Spec => []AuditIsWhole
<1>1. IInv => AuditIsWhole
  BY AuditGuarded DEF IInv
<1> QED BY IInvInvariant, <1>1, PTL

(* A salted build without a salt had no Topo.toml or a profile that sets the
   mode or the salt. *)
THEOREM SaltsAreKept == Spec => []UnsaltedIsExplained
<1>1. IInv => UnsaltedIsExplained
  BY UnsaltedOnChain DEF IInv
<1> QED BY IInvInvariant, <1>1, PTL

-----------------------------------------------------------------------------
(* A bounded number of steps leads to the configuration or to an error.    *)

(* The profiles that can be found, and those the chain has not come to. *)
Table == IF file = Missing THEN {} ELSE DOMAIN AllProfiles
Unfollowed == Table \ Visited

(* What topo-build has still to do, at most. *)
RoundsLeft ==
  CASE at = "line"     -> Len(line) - parsed + 2 * Cardinality(Table) + 6
    [] at = "file"     -> 2 * Cardinality(Table) + 5
    [] at = "resolve"  -> 2 * Cardinality(Unfollowed) + Len(chain) + 4
    [] at = "apply"    -> left + 3
    [] at = "validate" -> 2
    [] at = "guards"   -> 1
    [] OTHER           -> 0

EveryStepDecides == [][RoundsLeft' < RoundsLeft]_vars

LEMMA TableIsFinite ==
  ASSUME Typed
  PROVE  /\ IsFiniteSet(Table) /\ Cardinality(Table) \in Nat
         /\ IsFiniteSet(Unfollowed) /\ Cardinality(Unfollowed) \in Nat
<1>1. IsFiniteSet(Table)
  <2>1. CASE file = Missing
    BY <2>1, FS_EmptySet DEF Table
  <2>2. CASE file # Missing
    <3>1. file \in Files
      BY <2>2 DEF Typed, TypeOK
    <3>2. Table = DOMAIN Builtin \cup DOMAIN file.profiles
      BY <2>2 DEF Table, AllProfiles
    <3> QED BY <3>1, <3>2, TablesAssumption, FS_Union
  <2> QED BY <2>1, <2>2
<1>2. IsFiniteSet(Unfollowed)
  BY <1>1, FS_Subset DEF Unfollowed
<1> QED BY <1>1, <1>2, FS_CardinalityType

LEMMA RoundsType == Typed => RoundsLeft \in Nat
<1> SUFFICES ASSUME Typed PROVE RoundsLeft \in Nat
  OBVIOUS
<1>1. /\ Cardinality(Table) \in Nat /\ Cardinality(Unfollowed) \in Nat
      /\ parsed \in 0 .. Len(line) /\ left \in 0 .. Len(chain)
      /\ Len(line) \in Nat /\ Len(chain) \in Nat
  BY TableIsFinite, LinesAssumption DEF Typed, TypeOK
<1>2. Len(line) - parsed \in Nat /\ left \in Nat
  BY <1>1
<1>3. \A n, m \in Nat : /\ n + 2 * m + 6 \in Nat /\ 2 * m + 5 \in Nat
                        /\ 2 * m + n + 4 \in Nat /\ n + 3 \in Nat
  OBVIOUS
<1>4. CASE at \in {"line", "file", "resolve", "apply"}
  BY <1>1, <1>2, <1>3, <1>4, Zenon DEF RoundsLeft
<1>5. CASE at \notin {"line", "file", "resolve", "apply"}
  BY <1>5 DEF RoundsLeft
<1> QED BY <1>4, <1>5

(* A profile the chain comes to is one of finitely many it had not come to. *)
LEMMA FollowDecides ==
  ASSUME Typed, Follow
  PROVE  RoundsLeft' < RoundsLeft
<1>1. /\ file # Missing /\ file' = file /\ Table' = Table
      /\ chain \in Seq(Names) /\ current \in Table /\ current \notin Visited
      /\ at = "resolve" /\ at' = "resolve"
  BY DEF Follow, Goes, Typed, TypeOK, Table, AllProfiles, Seen
<1>2. current \in Names
  BY <1>1, TableType DEF Table, Typed, TypeOK
<1>3. /\ Len(chain') = Len(chain) + 1 /\ Len(chain) \in Nat
      /\ Visited' = Visited \cup {current}
  <2>1. chain' = Append(chain, current)
    BY DEF Follow, Collected
  <2>2. /\ Len(chain') = Len(chain) + 1 /\ DOMAIN chain' = 1 .. Len(chain) + 1
        /\ chain'[Len(chain) + 1] = current
        /\ \A i \in DOMAIN chain : chain'[i] = chain[i]
        /\ DOMAIN chain = 1 .. Len(chain) /\ Len(chain) \in Nat
    BY <1>1, <1>2, <2>1
  <2> QED BY <2>2 DEF Visited
<1>4. Unfollowed' = Unfollowed \ {current} /\ current \in Unfollowed
  BY <1>1, <1>3 DEF Unfollowed
<1>5. Cardinality(Unfollowed') = Cardinality(Unfollowed) - 1
  BY <1>4, TableIsFinite, FS_RemoveElement
<1>6. Cardinality(Unfollowed) \in Nat
  BY TableIsFinite
<1> QED BY <1>1, <1>3, <1>5, <1>6 DEF RoundsLeft

LEMMA StepDecides ==
  ASSUME Typed, Resolution, Step
  PROVE  RoundsLeft' < RoundsLeft
<1> USE DEF Goes
<1>1. /\ Cardinality(Table) \in Nat /\ Cardinality(Unfollowed) \in Nat
      /\ parsed \in 0 .. Len(line) /\ left \in 0 .. Len(chain)
      /\ Len(line) \in Nat /\ Len(chain) \in Nat
  BY TableIsFinite, LinesAssumption DEF Typed, TypeOK
<1>2. file' = file /\ line' = line /\ Table' = Table
  <2>1. file' = file /\ line' = line
    BY DEF Step, Parse, EndOfLine, NoFile, LoadFile, RejectFile, Circular,
           UnknownProfile, Follow, EndOfChain, ApplyProfile, Applied, Validate, Guards
  <2> QED BY <2>1 DEF Table, AllProfiles
<1>3. CASE Parse \/ EndOfLine
  <2>1. \/ at' = "line" /\ parsed' = parsed + 1
        \/ at' \in {"file", "refused"}
    BY <1>3 DEF Parse, EndOfLine
  <2>2. at = "line"
    BY <1>3 DEF Parse, EndOfLine
  <2> QED BY <1>1, <1>2, <2>1, <2>2 DEF RoundsLeft
<1>4. CASE LoadFile
  <2>1. Visited' = {}
    BY <1>4 DEF LoadFile, Resolution, Visited
  <2>2. Unfollowed' = Table /\ Len(chain') = 0
    BY <1>2, <1>4, <2>1 DEF Unfollowed, LoadFile, Resolution
  <2> QED BY <1>1, <1>4, <2>2 DEF LoadFile, RoundsLeft
<1>5. CASE NoFile \/ RejectFile
  BY <1>1, <1>5 DEF NoFile, RejectFile, RoundsLeft, Ends
<1>6. CASE Circular \/ UnknownProfile \/ EndOfChain
  BY <1>1, <1>6 DEF Circular, UnknownProfile, EndOfChain, RoundsLeft, Ends
<1>7. CASE ApplyProfile \/ Applied
  BY <1>1, <1>7 DEF ApplyProfile, Applied, RoundsLeft
<1>8. CASE Validate \/ Guards
  BY <1>8 DEF Validate, Guards, RoundsLeft, Ends
<1> QED
  BY <1>3, <1>4, <1>5, <1>6, <1>7, <1>8, FollowDecides DEF Step

(* topo-build gets to a configuration or to an error within a bound that
   counts each argument once and each profile there is twice, however the
   profiles extend one another. *)
THEOREM ResolutionIsBounded ==
  Spec => /\ RoundsLeft = Len(line) + 2 * Cardinality(Table) + 6
          /\ [](RoundsLeft \in Nat)
          /\ EveryStepDecides
<1>1. IInv => RoundsLeft \in Nat
  BY RoundsType DEF IInv
<1>2. Init => RoundsLeft = Len(line) + 2 * Cardinality(Table) + 6
  <2> SUFFICES ASSUME Init
               PROVE  RoundsLeft = Len(line) + 2 * Cardinality(Table) + 6
    OBVIOUS
  <2>1. Len(line) \in Nat
    BY LinesAssumption DEF Init
  <2> QED BY <2>1 DEF Init, RoundsLeft
<1>3. IInv /\ [Next]_vars => [RoundsLeft' < RoundsLeft]_vars
  BY StepDecides DEF IInv, Next, Finished
<1> QED BY IInvInvariant, <1>1, <1>2, <1>3, PTL DEF Spec, EveryStepDecides

-----------------------------------------------------------------------------
(* topo-init.                                                              *)

(* The command line and the project stay, and the language is decided once. *)
Requested ==
  /\ project \in [files : SUBSET File, symbols : Seq(Symbol)]
  /\ IsFiniteSet(project.files)
  /\ asked \in Languages \cup {Guess, "mixed", "wrong", "help"}
  /\ dry \in BOOLEAN
  /\ exit \in {Running, 0, 1, Crashed}
  /\ place \in {"detect", "collect", "extract", "group", "write", "done"}
  /\ place = "done" <=> exit # Running

Undecided == place = "detect" \/ asked \in {"wrong", "help"} \/ exit = Crashed
Chosen ==
  IF asked \in {"wrong", "help"} THEN language = "cpp"
  ELSE \/ language = IF asked = Guess THEN Detected ELSE asked
       \/ Undecided /\ language = "cpp"

(* Nothing is written before a project has been generated, nor by those who are
   refused or only look. *)
Untouched == step = 1 /\ begun = {} /\ written = {} /\ lost = {}
Phases ==
  /\ place \in {"detect", "collect", "extract", "group"} => Untouched /\ document = Empty
  /\ exit = 1 \/ dry => Untouched
  /\ place = "write" => ~dry
  /\ exit = 0 => Untouched \/ step = Len(Steps) + 1

(* Of the Steps taken so far, each was done or is lost, and nothing else was. *)
Taken == 1 .. step - 1
Writing ==
  /\ step \in 1 .. Len(Steps) + 1
  /\ UNION {begun, written, lost} \subseteq Scaffold
  /\ \A i \in Taken : Steps[i].file \in lost \cup (IF Steps[i].what = "open"
                                              THEN begun ELSE written)
  /\ \A f \in begun : \E i \in Taken : Steps[i] = Op("open", f)
  /\ \A f \in written : \E i \in Taken : Steps[i] = Op("close", f)

(* Of the symbols looked at so far, the first of each name has been arranged. *)
Passed == {k \in Firsts : k < next}
Typing(k) == IsType(symbols[k]) \/ IsMember(symbols[k])
DeclaredBefore(key) ==
  {k \in Passed : IsType(symbols[k]) /\ TypeOf(symbols[k]) = key}

Arranged ==
  /\ next \in 1 .. Len(symbols) + 1
  /\ seen = {symbols[k].name : k \in 1 .. next - 1}
  /\ placed = {Declaration(k, symbols[k]) :
                 k \in {j \in Passed : ~IsType(symbols[j])}}

TypesKnown ==
  /\ {t.key : t \in types} = {TypeOf(symbols[k]) : k \in {j \in Passed : Typing(j)}}
  /\ \A t, u \in types : t.key = u.key => t = u
  /\ \A t \in types :
       /\ t.visibility \in Visibilities /\ t.todo \in BOOLEAN
       /\ \A k \in Passed : DeclaredBefore(t.key) = {k} =>
            /\ t.visibility = Effective(symbols[k].visibility)
            /\ t.todo = (symbols[k].visibility = NoVisibility)
       /\ DeclaredBefore(t.key) = {} => t.visibility = "protected" /\ t.todo

Generated ==
  document # Empty => /\ next = Len(symbols) + 1
                      /\ document = [types |-> types, declarations |-> placed]

SetupInv == Requested /\ Chosen /\ Phases /\ Writing /\ Arranged /\ TypesKnown /\ Generated

-----------------------------------------------------------------------------
(* The facts about the project and the Steps that the steps below rest on. *)
LEMMA Shapes ==
  ASSUME Requested
  PROVE  /\ tree \subseteq File /\ IsFiniteSet(tree)
         /\ symbols \in Seq(Symbol) /\ Len(symbols) \in Nat
         /\ \A k \in 1 .. Len(symbols) : symbols[k] \in Symbol
         /\ DOMAIN symbols = 1 .. Len(symbols)
<1>1. symbols \in Seq(Symbol)
  BY DEF Requested, symbols
<1>2. QED
  BY <1>1 DEF Requested, tree

LEMMA StepsAre ==
  /\ language \in Formatted =>
       /\ Len(Steps) = 8
       /\ Steps[1] = Op("open", "main.topo") /\ Steps[2] = Op("close", "main.topo")
       /\ Steps[3] = Op("open", "Topo.toml") /\ Steps[4] = Op("open", "formatter")
       /\ Steps[5] = Op("open", ".lldbinit") /\ Steps[6] = Op("close", ".lldbinit")
       /\ Steps[7] = Op("close", "formatter") /\ Steps[8] = Op("close", "Topo.toml")
  /\ language \notin Formatted =>
       /\ Len(Steps) = 4
       /\ Steps[1] = Op("open", "main.topo") /\ Steps[2] = Op("close", "main.topo")
       /\ Steps[3] = Op("open", "Topo.toml") /\ Steps[4] = Op("close", "Topo.toml")
  BY DEF Steps, Formatter

(* Where each file is opened and closed. *)
LEMMA StepsPlaces ==
  ASSUME NEW i \in 1 .. Len(Steps)
  PROVE  /\ Steps[i] = Op("close", "Topo.toml") => i > 2
         /\ Steps[i] = Op("close", ".lldbinit") => i > 4 /\ language \in Formatted
         /\ \A f : Steps[i] = Op("open", f) =>
                  \E j \in 1 .. Len(Steps) : Steps[j] = Op("close", f)
<1> USE DEF Op
<1>1. CASE language \in Formatted
  <2>1. i \in 1 .. 8 /\ Len(Steps) = 8
    BY <1>1, StepsAre
  <2>2. i = 1 \/ i = 2 \/ i = 3 \/ i = 4 \/ i = 5 \/ i = 6 \/ i = 7 \/ i = 8
    BY <2>1
  <2>3. QED
    BY <1>1, <2>1, <2>2, StepsAre
<1>2. CASE language \notin Formatted
  <2>1. i \in 1 .. 4 /\ Len(Steps) = 4
    BY <1>2, StepsAre
  <2>2. i = 1 \/ i = 2 \/ i = 3 \/ i = 4
    BY <2>1
  <2>3. QED
    BY <1>2, <2>1, <2>2, StepsAre
<1>3. QED
  BY <1>1, <1>2

LEMMA StepsKnown ==
  /\ Len(Steps) \in {4, 8}
  /\ \A i \in 1 .. Len(Steps) : /\ Steps[i].what \in {"open", "close"}
                                /\ Steps[i].file \in Scaffold
                                /\ Steps[i] = Op(Steps[i].what, Steps[i].file)
  BY StepsAre DEF Op, Scaffold

-----------------------------------------------------------------------------
LEMMA InitSetup == ScaffoldInit => SetupInv
<1> SUFFICES ASSUME ScaffoldInit PROVE SetupInv
  OBVIOUS
<1>1. Requested /\ Chosen /\ Phases
  BY ProjectsAssumption, TreesAssumption
     DEF ScaffoldInit, Requested, Chosen, Undecided, Phases, Untouched, Running, Crashed
<1>2. Len(symbols) \in Nat
  BY <1>1, Shapes
<1>3. Writing
  BY StepsKnown DEF ScaffoldInit, Writing, Taken
<1>4. Passed = {}
  BY <1>2 DEF ScaffoldInit, Passed, Firsts, Requested
<1>5. Arranged
  BY <1>2, <1>4 DEF ScaffoldInit, Arranged
<1>6. TypesKnown
  BY <1>4 DEF ScaffoldInit, TypesKnown
<1>7. Generated
  BY DEF ScaffoldInit, Generated
<1>8. QED
  BY <1>1, <1>3, <1>5, <1>6, <1>7 DEF SetupInv

-----------------------------------------------------------------------------
LEMMA RequestedStep == Requested /\ [ScaffoldNext]_initVars => Requested'
<1> SUFFICES ASSUME Requested, [ScaffoldNext]_initVars PROVE Requested'
  OBVIOUS
<1> USE DEF Requested, Proceeds, Exits, request, Running, Crashed
<1>1. CASE Refuse
  BY <1>1 DEF Refuse
<1>2. CASE Detect
  BY <1>2 DEF Detect
<1>3. CASE Collect
  BY <1>3 DEF Collect
<1>4. CASE Extract
  BY <1>4 DEF Extract
<1>5. CASE Group
  BY <1>5 DEF Group
<1>6. CASE Grouped
  BY <1>6 DEF Grouped
<1>7. CASE Write
  BY <1>7 DEF Write
<1>8. CASE NoDirectory \/ Finish \/ Kill
  BY <1>8 DEF NoDirectory, Finish, Kill
<1>9. CASE Stop \/ UNCHANGED initVars
  BY <1>9 DEF Stop, initVars
<1>10. QED
  BY <1>1, <1>2, <1>3, <1>4, <1>5, <1>6, <1>7, <1>8, <1>9 DEF ScaffoldNext

(* What depends on the project alone stays with it. *)
LEMMA ProjectStays ==
  [ScaffoldNext]_initVars => /\ UNCHANGED <<project, asked, dry>>
                             /\ place # "detect" => UNCHANGED language
  BY DEF ScaffoldNext, initVars, request, Refuse, Detect, Collect, Extract,
               Group, Grouped, Write, NoDirectory, Finish, Kill, Stop

LEMMA ProjectDecides ==
  ASSUME UNCHANGED project
  PROVE  /\ symbols' = symbols /\ tree' = tree /\ Detected' = Detected
         /\ Firsts' = Firsts
  BY DEF symbols, tree, Detected, Beats, Counted, Firsts, First

LEMMA ChosenStep == Requested /\ Chosen /\ [ScaffoldNext]_initVars => Chosen'
<1> SUFFICES ASSUME Requested, Chosen, [ScaffoldNext]_initVars PROVE Chosen'
  OBVIOUS
<1>1. UNCHANGED <<project, asked, dry>> /\ Detected' = Detected
  BY ProjectStays, ProjectDecides
<1> USE <1>1 DEF Requested, Chosen, Undecided, Proceeds, Exits, Running, Crashed
<1>2. CASE Refuse
  BY <1>2 DEF Refuse
<1>3. CASE Detect
  BY <1>3 DEF Detect
<1>4. CASE Collect
  BY <1>4 DEF Collect
<1>5. CASE Extract
  BY <1>5 DEF Extract
<1>6. CASE Group
  BY <1>6 DEF Group
<1>7. CASE Grouped
  BY <1>7 DEF Grouped
<1>8. CASE Write
  BY <1>8 DEF Write
<1>9. CASE NoDirectory \/ Finish \/ Kill
  BY <1>9 DEF NoDirectory, Finish, Kill
<1>10. CASE Stop \/ UNCHANGED initVars
  BY <1>10 DEF Stop, initVars
<1>11. QED
  BY <1>2, <1>3, <1>4, <1>5, <1>6, <1>7, <1>8, <1>9, <1>10 DEF ScaffoldNext

LEMMA PhasesStep == Requested /\ Phases /\ Writing /\ [ScaffoldNext]_initVars => Phases'
<1> SUFFICES ASSUME Requested, Phases, Writing, [ScaffoldNext]_initVars PROVE Phases'
  OBVIOUS
<1>1. language' = language => Steps' = Steps
  BY DEF Steps
<1>2. UNCHANGED <<project, asked, dry>> /\ (place # "detect" => Steps' = Steps)
  BY <1>1, ProjectStays
<1>3. Len(Steps) \in Nat /\ step \in 1 .. Len(Steps) + 1
  BY StepsKnown DEF Writing
<1> USE <1>2 DEF Requested, Phases, Untouched, Proceeds, Exits, Running, Crashed,
           scaffold, grouping
<1>4. CASE Refuse
  BY <1>4 DEF Refuse
<1>5. CASE Detect
  BY <1>5 DEF Detect
<1>6. CASE Collect
  BY <1>6 DEF Collect
<1>7. CASE Extract
  BY <1>7 DEF Extract
<1>8. CASE Group
  BY <1>8 DEF Group
<1>9. CASE Grouped
  BY <1>9 DEF Grouped
<1>10. CASE Write
  BY <1>10 DEF Write
<1>11. CASE NoDirectory \/ Kill
  BY <1>11 DEF NoDirectory, Kill
<1>12. CASE Finish
  BY <1>3, <1>12 DEF Finish
<1>13. CASE Stop \/ UNCHANGED initVars
  BY <1>13 DEF Stop, initVars
<1>14. QED
  BY <1>4, <1>5, <1>6, <1>7, <1>8, <1>9, <1>10, <1>11, <1>12, <1>13 DEF ScaffoldNext

LEMMA WritingStep == Requested /\ Phases /\ Writing /\ [ScaffoldNext]_initVars => Writing'
<1> SUFFICES ASSUME Requested, Phases, Writing, [ScaffoldNext]_initVars PROVE Writing'
  OBVIOUS
<1>1. language' = language => Steps' = Steps
  BY DEF Steps
<1>2. CASE Detect
  <2>1. step' = 1 /\ begun' = {} /\ written' = {} /\ lost' = {}
    BY <1>2 DEF Detect, Phases, Untouched, scaffold
  <2>2. (Len(Steps) \in Nat)'
    BY DEF Steps, Formatter
  <2>3. QED
    BY <2>1, <2>2 DEF Writing, Taken
<1>3. CASE Write
  <2>1. /\ Steps' = Steps /\ step' = step + 1 /\ step \in 1 .. Len(Steps)
        /\ Len(Steps) \in Nat
    BY <1>1, <1>3, StepsKnown DEF Write, Writing
  <2>2. /\ Taken \subseteq Taken' /\ Taken' = Taken \cup {step}
        /\ Taken \subseteq 1 .. Len(Steps)
    BY <2>1 DEF Taken
  <2> DEFINE op == Steps[step]
  <2>3. op.what \in {"open", "close"} /\ op.file \in Scaffold /\ op = Op(op.what, op.file)
    BY <2>1, StepsKnown
  <2>4. /\ begun \subseteq begun' /\ written \subseteq written' /\ lost \subseteq lost'
        /\ UNION {begun', written', lost'}
             \subseteq (UNION {begun, written, lost}) \cup {op.file}
        /\ op.file \in lost' \cup (IF op.what = "open" THEN begun' ELSE written')
        /\ \A f \in begun' \ begun : op = Op("open", f)
        /\ \A f \in written' \ written : op = Op("close", f)
    BY <1>3, <2>3 DEF Write
  <2> HIDE DEF op
  <2>5. UNION {begun', written', lost'} \subseteq Scaffold
    BY <2>3, <2>4 DEF Writing
  <2>6. \A i \in Taken' :
          Steps[i].file \in lost' \cup (IF Steps[i].what = "open"
                                              THEN begun' ELSE written')
    BY <2>2, <2>4 DEF Writing, op
  <2>7. \A f \in begun' : \E i \in Taken' : Steps[i] = Op("open", f)
    BY <2>2, <2>4 DEF Writing, op
  <2>8. \A f \in written' : \E i \in Taken' : Steps[i] = Op("close", f)
    BY <2>2, <2>4 DEF Writing, op
  <2>9. QED
    BY <2>1, <2>5, <2>6, <2>7, <2>8 DEF Writing, Op
<1>4. CASE \/ Refuse \/ Collect \/ Extract \/ Group \/ Grouped
           \/ NoDirectory \/ Finish \/ Kill \/ Stop \/ UNCHANGED initVars
  <2>1. UNCHANGED <<language, step, begun, written, lost>>
    BY <1>4
       DEF Refuse, Collect, Extract, Group, Grouped, NoDirectory,
           Finish, Kill, Stop, initVars, scaffold
  <2>2. QED
    BY <1>1, <2>1 DEF Writing, Taken, Op
<1>5. QED
  BY <1>2, <1>3, <1>4 DEF ScaffoldNext

-----------------------------------------------------------------------------
(* A symbol is the first of its name exactly if the name has not been met. *)
LEMMA FirstIsUnseen ==
  ASSUME Requested, Arranged, next <= Len(symbols)
  PROVE  First(next) <=> symbols[next].name \notin seen
  BY Shapes DEF Arranged, First

LEMMA PassedGrows ==
  ASSUME Requested, Arranged, next <= Len(symbols), UNCHANGED project, next' = next + 1
  PROVE  /\ Passed' = IF First(next) THEN Passed \cup {next} ELSE Passed
         /\ next \notin Passed
<1>1. Firsts' = Firsts
  BY ProjectDecides
<1>2. Firsts = {k \in 1 .. Len(symbols) : First(k)}
  BY Shapes DEF Firsts
<1>3. next \in 1 .. Len(symbols) /\ Len(symbols) \in Nat
  BY Shapes DEF Arranged
<1>4. QED
  BY <1>1, <1>2, <1>3 DEF Passed

LEMMA ArrangedStep == Requested /\ Arranged /\ [ScaffoldNext]_initVars => Arranged'
<1> SUFFICES ASSUME Requested, Arranged, [ScaffoldNext]_initVars PROVE Arranged'
  OBVIOUS
<1>1. UNCHANGED project /\ symbols' = symbols /\ Firsts' = Firsts
  BY ProjectStays, ProjectDecides
<1>2. CASE Group
  <2> DEFINE s == symbols[next]
             Free(P) == {j \in P : ~IsType(symbols[j])}
  <2>1. /\ next \in 1 .. Len(symbols) /\ Len(symbols) \in Nat /\ next' = next + 1
        /\ seen' = seen \cup {s.name}
        /\ placed' = IF s.name \in seen \/ IsType(s) THEN placed
                     ELSE placed \cup {Declaration(next, s)}
    BY <1>2, Shapes DEF Group, Arranged
  <2>2. Passed' = IF s.name \notin seen THEN Passed \cup {next} ELSE Passed
    BY <1>1, <2>1, FirstIsUnseen, PassedGrows
  <2>3. seen' = {symbols[k].name : k \in 1 .. next' - 1}
    <3>1. 1 .. next' - 1 = (1 .. next - 1) \cup {next}
      BY <2>1
    <3>2. QED
      BY <2>1, <3>1 DEF Arranged
  <2>4. placed' = {Declaration(k, symbols[k]) : k \in Free(Passed')}
    <3>1. CASE s.name \in seen \/ IsType(s)
      <4>1. Free(Passed') = Free(Passed)
        BY <2>2, <3>1
      <4>2. QED
        BY <2>1, <3>1, <4>1 DEF Arranged
    <3>2. CASE s.name \notin seen /\ ~IsType(s)
      <4>1. Free(Passed') = Free(Passed) \cup {next}
        BY <2>2, <3>2
      <4>2. placed' = {Declaration(k, symbols[k]) : k \in Free(Passed)}
                      \cup {Declaration(next, s)}
        BY <2>1, <3>2 DEF Arranged
      <4> HIDE DEF Free
      <4>3. QED
        BY <4>1, <4>2
    <3>3. QED
      BY <3>1, <3>2
  <2>5. QED
    BY <1>1, <2>1, <2>3, <2>4 DEF Arranged, Declaration
<1>3. CASE ~Group
  <2>1. UNCHANGED <<next, seen, placed>>
    BY <1>3
       DEF ScaffoldNext, Refuse, Detect, Collect, Extract, Grouped, Write,
           NoDirectory, Finish, Kill, Stop, initVars, grouping
  <2>2. QED
    BY <1>1, <2>1 DEF Arranged, Passed
<1>4. QED
  BY <1>2, <1>3

(* What TypesKnown says of one type: a type's own symbol, when it comes, is the
   only one so far, or nothing is said of it; it changes nothing of what is known
   of the others. *)
Known(t) ==
  /\ t.visibility \in Visibilities /\ t.todo \in BOOLEAN
  /\ \A k \in Passed : DeclaredBefore(t.key) = {k} =>
       /\ t.visibility = Effective(symbols[k].visibility)
       /\ t.todo = (symbols[k].visibility = NoVisibility)
  /\ DeclaredBefore(t.key) = {} => t.visibility = "protected" /\ t.todo

LEMMA TypesKnownStep == Requested /\ Arranged /\ TypesKnown /\ [ScaffoldNext]_initVars => TypesKnown'
<1> SUFFICES ASSUME Requested, Arranged, TypesKnown, [ScaffoldNext]_initVars PROVE TypesKnown'
  OBVIOUS
<1> DEFINE Typings(P) == {TypeOf(symbols[k]) : k \in {j \in P : Typing(j)}}
<1>1. /\ UNCHANGED project /\ symbols' = symbols /\ Firsts' = Firsts
      /\ \A k : (Typing(k))' = Typing(k)
  BY ProjectStays, ProjectDecides DEF Typing
<1>2. /\ {t.key : t \in types} = Typings(Passed)
      /\ \A t, u \in types : t.key = u.key => t = u
      /\ \A t \in types : Known(t)
  BY DEF TypesKnown, Known
<1>3. SUFFICES /\ {t.key : t \in types'} = Typings(Passed')
               /\ \A t, u \in types' : t.key = u.key => t = u
               /\ \A t \in types' : Known(t)'
  BY <1>1 DEF TypesKnown, Known
<1>4. ASSUME types' = types, Passed' = Passed
      PROVE  /\ {t.key : t \in types'} = Typings(Passed')
             /\ \A t, u \in types' : t.key = u.key => t = u
             /\ \A t \in types' : Known(t)'
  <2>1. \A key : (DeclaredBefore(key))' = DeclaredBefore(key)
    BY <1>1, <1>4 DEF DeclaredBefore
  <2>2. \A t \in types : Known(t)'
    BY <1>1, <1>2, <1>4, <2>1 DEF Known
  <2>3. QED
    BY <1>2, <1>4, <2>2
<1>5. CASE Group
  <2>0. PICK s : s = symbols[next]
    OBVIOUS
  <2> DEFINE key == TypeOf(s)
  <2>1. /\ next \in 1 .. Len(symbols) /\ next' = next + 1 /\ s \in Symbol
        /\ types' = IF s.name \in seen THEN types
                    ELSE IF IsType(s) THEN Others(key) \cup {Declared(s)}
                    ELSE IF IsMember(s) THEN Entered(s) ELSE types
    BY <1>5, <2>0, Shapes DEF Group, Arranged
  <2>2. /\ Passed' = IF s.name \notin seen THEN Passed \cup {next} ELSE Passed
        /\ next \notin Passed
    BY <1>1, <2>1, <2>0, FirstIsUnseen, PassedGrows
  <2>3. CASE s.name \in seen
    BY <1>4, <2>1, <2>2, <2>3
  <2>4. ASSUME s.name \notin seen, ~IsType(s)
        PROVE  \A k : (DeclaredBefore(k))' = DeclaredBefore(k)
    BY <1>1, <2>2, <2>4, <2>0 DEF DeclaredBefore
  <2>5. ASSUME s.name \notin seen, ~IsType(s), NEW t \in types
        PROVE  Known(t)'
    <3>1. Known(t) /\ (DeclaredBefore(t.key))' = DeclaredBefore(t.key)
      BY <1>2, <2>4, <2>5
    <3>2. \A k \in Passed' : DeclaredBefore(t.key) = {k} => k \in Passed
      BY DEF DeclaredBefore
    <3>3. QED
      BY <1>1, <3>1, <3>2 DEF Known
  <2>6. CASE s.name \notin seen /\ IsType(s)
    <3>1. types' = Others(key) \cup {Declared(s)} /\ Declared(s).key = key
      BY <2>1, <2>6 DEF Declared
    <3>2. Typings(Passed') = Typings(Passed) \cup {key}
      BY <2>2, <2>6, <2>0 DEF Typing
    <3>3. {t.key : t \in types'} = Typings(Passed')
      BY <1>2, <3>1, <3>2 DEF Others
    <3>4. \A t, u \in types' : t.key = u.key => t = u
      BY <1>2, <3>1 DEF Others
    <3>5. /\ \A k : k # key => (DeclaredBefore(k))' = DeclaredBefore(k)
          /\ (DeclaredBefore(key))' = DeclaredBefore(key) \cup {next}
      BY <1>1, <2>2, <2>6, <2>0 DEF DeclaredBefore
    <3>6. ASSUME NEW t \in Others(key)
          PROVE  Known(t)'
      <4>1. t \in types /\ t.key # key
        BY DEF Others
      <4>2. Known(t) /\ (DeclaredBefore(t.key))' = DeclaredBefore(t.key)
        BY <1>2, <3>5, <4>1
      <4>3. \A k \in Passed' : DeclaredBefore(t.key) = {k} => k \in Passed
        BY DEF DeclaredBefore
      <4>4. QED
        BY <1>1, <4>2, <4>3 DEF Known
    <3>7. Known(Declared(s))'
      <4>1. /\ Declared(s).visibility = Effective(s.visibility)
            /\ Declared(s).todo = (s.visibility = NoVisibility)
            /\ Declared(s).visibility \in Visibilities /\ Declared(s).todo \in BOOLEAN
        BY <2>1 DEF Declared, Effective, Symbol, Visibilities, NoVisibility
      <4>2. \A k : (DeclaredBefore(key))' = {k} => k = next
        BY <3>5
      <4>3. (DeclaredBefore(key))' # {}
        BY <3>5
      <4>4. QED
        BY <1>1, <2>0, <3>1, <4>1, <4>2, <4>3 DEF Known
    <3>8. QED
      BY <3>1, <3>3, <3>4, <3>6, <3>7
  <2>7. CASE s.name \notin seen /\ ~IsType(s) /\ IsMember(s)
    <3>1. types' = Entered(s) /\ Unreviewed(key).key = key
      BY <2>1, <2>7 DEF Unreviewed
    <3>2. Typings(Passed') = Typings(Passed) \cup {key}
      BY <2>2, <2>7, <2>0 DEF Typing
    <3>3. CASE key \in Typings(Passed)
      <4>1. types' = types
        BY <1>2, <3>1, <3>3 DEF Entered
      <4>2. QED
        BY <1>2, <2>5, <2>7, <3>2, <3>3, <4>1
    <3>4. CASE key \notin Typings(Passed)
      <4>1. types' = types \cup {Unreviewed(key)} /\ \A t \in types : t.key # key
        BY <1>2, <3>1, <3>4 DEF Entered
      <4>2. DeclaredBefore(key) = {}
        BY <3>4 DEF DeclaredBefore, Typing
      <4>3. Known(Unreviewed(key))'
        BY <2>4, <2>7, <4>2 DEF Known, Unreviewed, Visibilities
      <4>4. {t.key : t \in types'} = Typings(Passed')
        BY <1>2, <3>1, <3>2, <4>1
      <4>5. \A t, u \in types' : t.key = u.key => t = u
        BY <1>2, <3>1, <4>1
      <4>6. QED
        BY <2>5, <2>7, <4>1, <4>3, <4>4, <4>5
    <3>5. QED
      BY <3>3, <3>4
  <2>8. CASE s.name \notin seen /\ ~IsType(s) /\ ~IsMember(s)
    <3>1. types' = types /\ Typings(Passed') = Typings(Passed)
      BY <2>1, <2>2, <2>8, <2>0 DEF Typing
    <3>2. QED
      BY <1>2, <2>5, <2>8, <3>1
  <2>9. QED
    BY <2>3, <2>6, <2>7, <2>8
<1>6. CASE ~Group
  <2>1. UNCHANGED <<next, types>>
    BY <1>6
       DEF ScaffoldNext, Refuse, Detect, Collect, Extract, Grouped, Write,
           NoDirectory, Finish, Kill, Stop, initVars, grouping
  <2>2. QED
    BY <1>1, <1>4, <2>1 DEF Passed
<1>7. QED
  BY <1>5, <1>6

(* All that was placed is printed: a declaration makes its section non-empty, a
   member's type is known, and a type makes its own section non-empty. *)
LEMMA AllPrinted ==
  ASSUME Arranged, TypesKnown
  PROVE  PrintedTypes = types /\ \A d \in placed : Printed(d)
<1>1. PrintedTypes = types
  BY DEF PrintedTypes, Levels
<1>2. ASSUME NEW d \in placed
      PROVE  Printed(d)
  <2>1. PICK k \in Passed : ~IsType(symbols[k]) /\ d = Declaration(k, symbols[k])
    BY <1>2 DEF Arranged
  <2>2. CASE IsMember(symbols[k])
    <3>1. d.type = <<TypeOf(symbols[k])>>
      BY <2>1, <2>2 DEF Declaration
    <3>2. \E t \in types : t.key = TypeOf(symbols[k])
      BY <2>2 DEF TypesKnown, Typing
    <3>3. QED
      BY <1>1, <3>1, <3>2 DEF Printed
  <2>3. CASE ~IsMember(symbols[k])
    <3>1. d.type = <<>>
      BY <2>1, <2>3 DEF Declaration
    <3>2. QED
      BY <1>2, <3>1 DEF Printed, Levels, FreeLevels
  <2>4. QED
    BY <2>2, <2>3
<1>3. QED
  BY <1>1, <1>2

LEMMA GeneratedStep ==
  Requested /\ Phases /\ Arranged /\ TypesKnown /\ Generated /\ [ScaffoldNext]_initVars => Generated'
<1> SUFFICES ASSUME Requested, Phases, Arranged, TypesKnown, Generated, [ScaffoldNext]_initVars
             PROVE  Generated'
  OBVIOUS
<1>1. symbols' = symbols
  BY ProjectStays, ProjectDecides
<1>2. CASE Group
  BY <1>2 DEF Group, Phases, Generated
<1>3. CASE Grouped
  <2>1. /\ document' = [types |-> types, declarations |-> placed]
        /\ UNCHANGED <<next, types, placed>>
    BY <1>3, AllPrinted DEF Grouped
  <2>2. next = Len(symbols) + 1
    BY <1>3, Shapes DEF Grouped, Arranged
  <2>3. QED
    BY <1>1, <2>1, <2>2 DEF Generated
<1>4. CASE ~Group /\ ~Grouped
  <2>1. UNCHANGED <<next, types, placed, document>>
    BY <1>4
       DEF ScaffoldNext, Refuse, Detect, Collect, Extract, Write, NoDirectory,
           Finish, Kill, Stop, initVars, grouping
  <2>2. QED
    BY <1>1, <2>1 DEF Generated
<1>5. QED
  BY <1>2, <1>3, <1>4

(* topo-init keeps SetupInv, from which the rest follows. *)
THEOREM SetupInvariance == ScaffoldSpec => []SetupInv
<1>1. SetupInv /\ [ScaffoldNext]_initVars => SetupInv'
  BY RequestedStep, ChosenStep, PhasesStep, WritingStep, ArrangedStep, TypesKnownStep,
     GeneratedStep
     DEF SetupInv
<1>2. QED
  BY InitSetup, <1>1, PTL DEF ScaffoldSpec

-----------------------------------------------------------------------------
LEMMA TypesFollow == SetupInv => ScaffoldTypeOK
<1> SUFFICES ASSUME SetupInv PROVE ScaffoldTypeOK
  OBVIOUS
<1>1. /\ tree \subseteq File /\ symbols \in Seq(Symbol) /\ Len(symbols) \in Nat
      /\ \A k \in 1 .. Len(symbols) : symbols[k] \in Symbol
      /\ DOMAIN symbols = 1 .. Len(symbols)
  BY Shapes DEF SetupInv
<1>2. language \in Languages \cup {"mixed"}
  BY DEF SetupInv, Requested, Chosen, Languages, Detected, Guess
<1>3. seen \subseteq QualifiedNames
  BY <1>1 DEF SetupInv, Arranged, Symbol
<1>4. \A d \in placed : d.of < next /\ d.section \in Visibilities
  <2>1. \A k \in Passed : k < next /\ symbols[k] \in Symbol
    BY <1>1 DEF Passed, Firsts
  <2>2. QED
    BY <2>1
       DEF SetupInv, Arranged, Declaration, Effective, Symbol, Visibilities,
           NoVisibility
<1>5. QED
  BY <1>1, <1>2, <1>3, <1>4 DEF SetupInv, ScaffoldTypeOK, Requested, Arranged, TypesKnown, Writing

(* The state of topo-init is well-typed, for every set of projects. *)
THEOREM ScaffoldTypes == ScaffoldSpec => []ScaffoldTypeOK
  BY SetupInvariance, TypesFollow, PTL

(* A language that is guessed has the most files, but for the tie of Rust and
   Java, whatever files there are. *)
LEMMA GuessIsCommonest ==
  ASSUME Requested
  PROVE  \/ \A l \in Languages : Counted(l) <= Counted(Detected)
         \/ /\ Counted("rust") = Counted("java")
            /\ Counted("rust") > Counted("cpp")
            /\ Detected = "cpp"
<1>1. \A l : Counted(l) \in Nat
  <2> TAKE l
  <2>1. IsFiniteSet({f \in tree : f.ext = l /\ f.dir \notin {"build", "node_modules"}})
    BY Shapes, FS_Subset
  <2>2. QED
    BY <2>1, FS_CardinalityType DEF Counted
<1>2. QED
  BY <1>1 DEF Detected, Beats, Languages, PythonsRivals

(* detectLanguage finds a language with the most files, or its one exception. *)
THEOREM DetectionIsOfTheCommonest == ScaffoldSpec => []DetectedIsCommonest
<1>1. SetupInv => DetectedIsCommonest
  BY GuessIsCommonest
     DEF SetupInv, Requested, Chosen, Undecided, DetectedIsCommonest, Guess
<1>2. QED
  BY SetupInvariance, <1>1, PTL

-----------------------------------------------------------------------------
(* Every name is declared once and in its place, in whatever order and however
   many symbols an extractor reports. *)
LEMMA PlacesFollow == SetupInv => EachInItsPlace
<1> SUFFICES ASSUME SetupInv, document # Empty PROVE EachInItsPlace
  BY DEF EachInItsPlace
<1> DEFINE D == document.declarations
           T == document.types
<1>1. next = Len(symbols) + 1 /\ T = types /\ D = placed
  BY DEF SetupInv, Generated
<1>2. Passed = Firsts /\ \A key : DeclaredBefore(key) = Declarers(key)
  <2>1. Passed = Firsts
    BY <1>1, Shapes DEF SetupInv, Passed, Firsts
  <2>2. QED
    BY <2>1 DEF DeclaredBefore, Declarers
<1> HIDE DEF D, T
<1>3. {d.of : d \in D} = {k \in Firsts : ~IsType(symbols[k])}
  <2>1. D = {Declaration(k, symbols[k]) :
               k \in {j \in Firsts : ~IsType(symbols[j])}}
    BY <1>1, <1>2 DEF SetupInv, Arranged
  <2>2. \A k : Declaration(k, symbols[k]).of = k
    BY DEF Declaration
  <2>3. QED
    BY <2>1, <2>2
<1>4. ASSUME NEW d \in D
      PROVE  /\ \A e \in D : d.of = e.of => d = e
             /\ symbols[d.of].visibility # NoVisibility =>
                  d.section = symbols[d.of].visibility
             /\ IsMember(symbols[d.of]) <=> d.type = <<TypeOf(symbols[d.of])>>
  <2>1. \A e \in D : e = Declaration(e.of, symbols[e.of])
    BY <1>1 DEF SetupInv, Arranged, Declaration
  <2>2. \A e \in D : d.of = e.of => d = e
    BY <1>4, <2>1
  <2>3. symbols[d.of].visibility # NoVisibility => d.section = symbols[d.of].visibility
    BY <1>4, <2>1 DEF Declaration, Effective
  <2>4. IsMember(symbols[d.of]) <=> d.type = <<TypeOf(symbols[d.of])>>
    BY <1>4, <2>1 DEF Declaration
  <2>5. QED
    BY <2>2, <2>3, <2>4
<1>5. {t.key : t \in T} =
        {TypeOf(symbols[k]) :
           k \in {j \in Firsts : IsType(symbols[j])
                                      \/ IsMember(symbols[j])}}
  BY <1>1, <1>2 DEF SetupInv, TypesKnown, Typing
<1>6. ASSUME NEW t \in T
      PROVE  /\ \A u \in T : t.key = u.key => t = u
             /\ \A k \in Declarers(t.key) : Declarers(t.key) = {k} =>
                  /\ t.visibility = Effective(symbols[k].visibility)
                  /\ t.todo = (symbols[k].visibility = NoVisibility)
             /\ Declarers(t.key) = {} => t.visibility = "protected" /\ t.todo
  <2>1. Declarers(t.key) \subseteq Passed
    BY <1>2 DEF Declarers
  <2>2. QED
    BY <1>1, <1>2, <1>6, <2>1 DEF SetupInv, TypesKnown
<1>7. QED
  BY <1>3, <1>4, <1>5, <1>6, Zenon DEF EachInItsPlace, D, T

(* generateTopoBody puts every symbol where it belongs, whatever is extracted. *)
THEOREM PlacesAreRight == ScaffoldSpec => []EachInItsPlace
  BY SetupInvariance, PlacesFollow, PTL

(* The files of the scaffold are written in the order that keeps what refers to
   another file from being there without it. *)
LEMMA OrderFollows == SetupInv => WritesInOrder
<1> SUFFICES ASSUME SetupInv PROVE WritesInOrder
  OBVIOUS
<1> USE DEF Op
<1>1. /\ step \in 1 .. Len(Steps) + 1 /\ Len(Steps) \in Nat
      /\ \A i \in 1 .. step - 1 :
           Steps[i].file \in lost \cup (IF Steps[i].what = "open" THEN begun ELSE written)
      /\ \A f \in begun : \E i \in 1 .. step - 1 : Steps[i] = Op("open", f)
      /\ \A f \in written : \E i \in 1 .. step - 1 : Steps[i] = Op("close", f)
  BY StepsKnown DEF SetupInv, Writing, Taken
<1>2. "Topo.toml" \in written => "main.topo" \in written \cup lost
  <2> SUFFICES ASSUME "Topo.toml" \in written PROVE "main.topo" \in written \cup lost
    OBVIOUS
  <2>1. PICK i \in 1 .. step - 1 : Steps[i] = Op("close", "Topo.toml")
    BY <1>1
  <2>2. i > 2
    <3>1. i \in 1 .. Len(Steps)
      BY <1>1
    <3>2. QED
      BY <2>1, <3>1, StepsPlaces
  <2>3. Steps[2] = Op("close", "main.topo")
    BY StepsAre
  <2>4. QED
    BY <1>1, <2>1, <2>2, <2>3
<1>3. ".lldbinit" \in written => /\ "formatter" \in begun \cup lost
                                 /\ "Topo.toml" \in begun \cup lost
  <2> SUFFICES ASSUME ".lldbinit" \in written
               PROVE  "formatter" \in begun \cup lost /\ "Topo.toml" \in begun \cup lost
    OBVIOUS
  <2>1. PICK i \in 1 .. step - 1 : Steps[i] = Op("close", ".lldbinit")
    BY <1>1
  <2>2. /\ i > 4 /\ Steps[4] = Op("open", "formatter")
        /\ Steps[3] = Op("open", "Topo.toml")
    BY <1>1, <2>1, StepsAre, StepsPlaces
  <2>3. QED
    BY <1>1, <2>1, <2>2
<1>4. exit = 0 => begun \subseteq written \cup lost
  <2> SUFFICES ASSUME step = Len(Steps) + 1, NEW f \in begun PROVE f \in written \cup lost
    BY DEF SetupInv, Phases, Untouched
  <2>1. PICK i \in 1 .. Len(Steps) : Steps[i] = Op("open", f)
    BY <1>1
  <2>2. \E j \in 1 .. Len(Steps) : Steps[j] = Op("close", f)
    BY <2>1, StepsPlaces
  <2>3. QED
    BY <1>1, <2>2
<1>5. dry \/ exit = 1 => begun \cup lost = {}
  BY DEF SetupInv, Phases, Untouched
<1>6. QED
  BY <1>2, <1>3, <1>4, <1>5 DEF WritesInOrder

(* Whatever cannot be opened and wherever topo-init is killed, a file that names
   another is not there before it, unless that one could not be opened, and
   neither a refused nor a dry run touches any. *)
THEOREM FilesAreInOrder == ScaffoldSpec => []WritesInOrder
  BY SetupInvariance, OrderFollows, PTL
=============================================================================
