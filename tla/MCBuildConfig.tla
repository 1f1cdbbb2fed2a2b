--------------------------- MODULE MCBuildConfig ---------------------------
(* Small instances of BuildConfig. *)
EXTENDS BuildConfig, TLC

ProfileNames == {"a", "b", "c", "server"}
OneFeature == {"parallel"}
AllValues == ProfileNames \cup {"none", "c++17", "exe", "normal", "auto", "cpp",
  "dev", "2", "no", "yes", "off", "aggressive", "salted", "generated", "java",
  "c++20", "shared", "3", "0", "x", "y", "salt", "rust", "commands"}

Empty == <<>>
Extends(n, s) == [extends |-> n, sets |-> s]

(* A built-in profile that sets what the others do, too. *)
ServerProfile == "server" :> Extends("none", "parallel" :> "auto" @@ "optLevel" :> "3")

(* Every way in which three profiles extend one another, a built-in one or
   none, one of them possibly not there, the built-in one possibly the
   user's. *)
Base(n) == CASE n = "a" -> "optLevel" :> "0"
             [] n = "b" -> "optLevel" :> "2" @@ "obfMode" :> "salted"
             [] n = "c" -> "obfMode" :> "normal" @@ "parallel" :> "off"
                           @@ "obfSalt" :> "x"
             [] OTHER -> "buildMode" :> "dev" @@ "obfSalt" :> "none"
Tables ==
  {[n \in N |-> Extends(e[n], Base(n))] :
     N \in {{"a", "b"}, {"a", "b", "c"}, ProfileNames},
     e \in [ProfileNames -> ProfileNames \cup {"none"}]}

Project == "topoRoot" :> "y" @@ "sources" :> "y" @@ "outputPath" :> "y"
Chatty == Project @@ "outputType" :> "shared" @@ "obfMode" :> "salted"
          @@ "buildMode" :> "aggressive" @@ "standard" :> "c++20"
          @@ "noIncremental" :> "no" @@ "parallel" :> "auto" @@ "checkMode" :> "off"
Sections == {Empty, Project, Chatty, Project @@ "language" :> "rust",
             Project @@ "auditCheck" :> "yes" @@ "language" :> "java",
             Chatty @@ "auditCheck" :> "yes", Chatty @@ "auditCheck" :> "no"
               @@ "obfSalt" :> "salt"}
OneTable == {Empty, "a" :> Extends("b", Base("a")) @@ "b" :> Extends("none", Base("b"))}

File(s, p) == [sets |-> s, profiles |-> p]
SomeFiles == {File(Chatty, p) : p \in Tables}
             \cup {File(s, p) : s \in Sections, p \in OneTable}

Says(f, v) == [field |-> f, value |-> v]
WithProfile == <<Says("profile", "b"), Says("optLevel", "3"), Says("profile", "a")>>
SomeLines ==
  {<<>>, WithProfile,
   <<Says("sources", "x"), Says("topoRoot", "x"), Says("sources", "y"),
     Says("outputPath", "x"), Says("standard", "c++17"), Says("obfMode", "salted")>>,
   <<Says("outputPath", "y"), Says("outputPath", "x"), Says("standard", "c++20"),
     Says("outputType", "exe"), Says("noIncremental", "yes")>>,
   <<Says("auditCheck", "yes"), Says("checkCli", "yes"), Says("checkCli", "no")>>,
   <<Says("checkCli", "no"), Says("checkCli", "yes"), Says("auditCheck", "yes"),
     Says("nativeEvidence", "x")>>,
   <<Says("evidence", "commands")>>,
   <<Says("evidence", "x"), Says("evidenceOutput", "x")>>,
   <<Says("sources", "x"), Says("topoRoot", "x"), Says("outputPath", "x"),
     Says("profile", "server")>>,
   <<Says("evidenceOutput", "x"), Says("evidence", "commands"), Says("profile", "server")>>,
   <<Says("outputPath", "x"), Says("unknown", "x")>>}
=============================================================================
