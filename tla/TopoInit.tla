------------------------------ MODULE TopoInit ------------------------------
(***************************************************************************)
(* topo-init (tools/topo-init): the language of a project is guessed from  *)
(* its files, its sources are collected, an extractor names their symbols, *)
(* TopoGenerator arranges them by namespace, visibility and type, and the  *)
(* files of the scaffold are written one after the other.                  *)
(*                                                                         *)
(* A source file is known by its extension and the kind of directory it is *)
(* in: the root, below src (src/main/java, test and node_modules there on  *)
(* their own), build, any other.  A qualified name is a sequence of        *)
(* identifiers.  Text (types, parameters, indentation, bindings) is left   *)
(* out: a declaration is known by the symbol it is of.  External: the      *)
(* extractor and the file system.                                          *)
(***************************************************************************)
EXTENDS Integers, Sequences, FiniteSets

CONSTANTS
  Projects,    (* the projects: their files and what an extractor finds    *)
  Linked,      (* the languages whose plugin is linked in                  *)
  Formatted,   (* the languages that come with an lldb formatter           *)
  QualifiedNames, (* the qualified names of a project                      *)
  Wrapper      (* sanitizeNamespaceName of the project's name              *)

VARIABLES
  project, asked, dry, (* the project, --language or Guess, --dry-run      *)
  place,       (* where topo-init is                                       *)
  language,    (* cfg.language                                             *)
  next,        (* the symbol the generator looks at next                   *)
  seen,        (* the qualified names it has met                           *)
  types,       (* the ClassContents: visibility and TODO of each type      *)
  placed,      (* the declarations: where each symbol was put              *)
  document,    (* what main.topo says, once it is generated                *)
  step,        (* the next of the Steps that write the scaffold            *)
  begun,       (* the files that were opened, which empties them           *)
  written,     (* the files whose contents have left the stream's buffer   *)
  lost,        (* the files that could not be, which nobody looks at       *)
  exit         (* the exit code, or Running                                *)

request == <<project, asked, dry>>
grouping == <<next, seen, types, placed, document>>
scaffold == <<step, begun, written, lost>>
initVars == <<request, place, language, grouping, scaffold, exit>>

tree == project.files
symbols == project.symbols

Guess == "auto"
Running == -1
Crashed == 134
-----------------------------------------------------------------------------
Languages == {"cpp", "rust", "java", "python", "typescript"}
Extensions == Languages \cup {"header"}
Directories == {"root", "src", "maven", "test", "node_modules", "build", "other"}
File == [ext : Extensions, dir : Directories, n : Nat]
Scaffold == {"main.topo", "Topo.toml", "formatter", ".lldbinit"}

Visibilities == {"public", "protected", "private", "internal", "ignore"}
NoVisibility == "none"
NoName == <<>>
Symbol == [name : QualifiedNames, kind : {"type", "member", "function"},
           class : QualifiedNames \cup {NoName},
           visibility : Visibilities \cup {NoVisibility}]

ASSUME ProjectsAssumption == Projects \subseteq [files : SUBSET File, symbols : Seq(Symbol)]
ASSUME QualifiedNamesAssumption == \A n \in QualifiedNames : Len(n) > 0
ASSUME TreesAssumption == \A p \in Projects : IsFiniteSet(p.files)

-----------------------------------------------------------------------------
(* detectLanguage: what is counted, and who is ahead of whom. *)
Counted(l) == Cardinality({f \in tree : f.ext = l /\ f.dir \notin {"build", "node_modules"}})
Beats(l, others) == \A o \in others : Counted(l) > Counted(o)
RustOnly == {"cpp", "rust"}
PythonsRivals == {"cpp", "rust", "java"}
Detected == IF Beats("typescript", Languages \ {"typescript"}) THEN "typescript"
            ELSE IF Beats("python", PythonsRivals) THEN "python"
            ELSE IF Beats("rust", {"cpp", "java"}) THEN "rust"
            ELSE IF Beats("java", {"cpp", "rust"}) THEN "java"
            ELSE "cpp"

(* collectSourceFiles: where the files of a language are looked for.  A Maven
   project has src/main/java, which is below src. *)
Below(l) == IF l = "java" /\ \E f \in tree : f.dir = "maven" THEN {"maven"}
            ELSE {"src", "maven", "node_modules"}
Looked(l) == CASE l \in {"cpp", "python", "typescript"} -> Below(l) \cup {"root"}
               [] l \in {"rust", "java"} -> Below(l)
               [] OTHER -> {}
Matches(f, l) == f.ext = l \/ (l = "cpp" /\ f.ext = "header")
Sources(l) == {f \in tree : Matches(f, l) /\ f.dir \in Looked(l)}

(* splitNamespace, of a member by its class; what has no namespace is put into
   one named after the project. *)
Front(s) == SubSeq(s, 1, Len(s) - 1)
Last(s) == s[Len(s)]
IsMember(s) == s.kind = "member" /\ s.class # NoName
IsType(s) == s.kind = "type"
Owner(s) == IF IsMember(s) THEN s.class ELSE s.name
Namespace(s) == IF Front(Owner(s)) = <<>> THEN <<Wrapper>> ELSE Front(Owner(s))

(* The type a symbol is, or is a member of: the key of its ClassContent. *)
TypeOf(s) == <<Namespace(s), Last(Owner(s))>>
AsIs(v) == v
Effective(v) == IF v = NoVisibility THEN "protected" ELSE v

(* main's streams: main.topo is closed before the next file is opened, the
   others when main, or the block they are declared in, is left, the last one
   first. *)
Op(what, f) == [what |-> what, file |-> f]
LateTopo == <<Op("open", "main.topo"), Op("open", "Topo.toml"), Op("close", "Topo.toml"),
              Op("close", "main.topo")>>
Formatter == <<Op("open", "formatter"), Op("open", ".lldbinit"),
               Op("close", ".lldbinit"), Op("close", "formatter")>>
Steps == <<Op("open", "main.topo"), Op("close", "main.topo"), Op("open", "Topo.toml")>>
         \o (IF language \in Formatted THEN Formatter ELSE <<>>)
         \o <<Op("close", "Topo.toml")>>
MakesDirectory(op) == op.what = "open" /\ op.file \in {"main.topo", "formatter"}

Empty == [types |-> {}, declarations |-> {}]

ScaffoldInit ==
  /\ project \in Projects
  /\ asked \in Languages \cup {Guess, "mixed", "wrong", "help"}
  /\ dry \in BOOLEAN
  /\ place = "detect" /\ language = "cpp"
  /\ next = 1 /\ seen = {}
  /\ types = {} /\ placed = {} /\ document = Empty
  /\ step = 1 /\ begun = {} /\ written = {} /\ lost = {}
  /\ exit = Running

Proceeds(to) == place' = to /\ exit' = exit
Exits(code) == place' = "done" /\ exit' = code

-----------------------------------------------------------------------------
(* main: the command line is refused, or asks for help ... *)
Refuse == /\ place = "detect"
          /\ \/ asked = "wrong" /\ Exits(1)
             \/ asked = "help" /\ Exits(0)
          /\ UNCHANGED <<request, language, grouping, scaffold>>

(* ... or names the language, or leaves it to be guessed ... *)
Detect == /\ place = "detect"
          /\ asked \notin {"wrong", "help"}
          /\ language' = IF asked = Guess THEN Detected ELSE asked
          /\ Proceeds("collect")
          /\ UNCHANGED <<request, grouping, scaffold>>

(* ... its sources and its extractor, which may report an error or nothing. *)
Collect == /\ place = "collect"
           /\ IF Sources(language) # {} /\ language \in Linked
              THEN Proceeds("extract") ELSE Exits(1)
           /\ UNCHANGED <<request, language, grouping, scaffold>>

Extract == /\ place = "extract"
           /\ \/ Exits(1)
              \/ symbols = <<>> /\ Exits(0)
              \/ symbols # <<>> /\ Proceeds("group")
           /\ UNCHANGED <<request, language, grouping, scaffold>>

-----------------------------------------------------------------------------
(* generateTopoBody: one symbol; a name counts once, overloads or not.  A type
   takes the visibility of its own symbol, before or after its members; a type
   that only its members speak of is protected, to be reviewed. *)
Unreviewed(key) == [key |-> key, visibility |-> "protected", todo |-> TRUE]
Declared(s) == [key |-> TypeOf(s), visibility |-> Effective(s.visibility),
                todo |-> s.visibility = NoVisibility]
Others(key) == {t \in types : t.key # key}

Afresh(s) == Others(TypeOf(s)) \cup {Unreviewed(TypeOf(s))}
Entered(s) == IF \E t \in types : t.key = TypeOf(s) THEN types
              ELSE types \cup {Unreviewed(TypeOf(s))}

Declaration(k, s) == [of |-> k, ns |-> Namespace(s),
                      type |-> IF IsMember(s) THEN <<TypeOf(s)>> ELSE <<>>,
                      section |-> Effective(s.visibility)]

Group ==
  /\ place = "group"
  /\ next <= Len(symbols)
  /\ LET s == symbols[next] IN
       /\ next' = next + 1
       /\ seen' = seen \cup {s.name}
       /\ types' = IF s.name \in seen THEN types
                   ELSE IF IsType(s) THEN Others(TypeOf(s)) \cup {Declared(s)}
                   ELSE IF IsMember(s) THEN Entered(s) ELSE types
       /\ placed' = IF s.name \in seen \/ IsType(s) THEN placed
                    ELSE placed \cup {Declaration(next, s)}
  /\ UNCHANGED <<request, place, language, document, scaffold, exit>>

(* What is printed of a namespace are the sections that a function or a type of
   it has; members are printed in the block of their type. *)
FreeLevels(ns) == {d.section : d \in {e \in placed : e.ns = ns /\ e.type = <<>>}}
Levels(ns) == FreeLevels(ns) \cup {t.visibility : t \in {u \in types : u.key[1] = ns}}
PrintedTypes == {t \in types : t.visibility \in Levels(t.key[1])}
Printed(d) == IF d.type = <<>> THEN d.section \in Levels(d.ns)
              ELSE \E t \in PrintedTypes : t.key = d.type[1]

(* A dry run prints what the others write. *)
Grouped == /\ place = "group"
           /\ next > Len(symbols)
           /\ document' = [types |-> PrintedTypes,
                           declarations |-> {d \in placed : Printed(d)}]
           /\ IF dry THEN Exits(0) ELSE Proceeds("write")
           /\ UNCHANGED <<request, language, next, seen, types, placed, scaffold>>

-----------------------------------------------------------------------------
(* That a file could not be opened or written is not looked at ... *)
Write == /\ place = "write"
         /\ step <= Len(Steps)
         /\ step' = step + 1
         /\ LET op == Steps[step] IN
              \/ /\ op.what = "open"
                 /\ begun' = begun \cup {op.file}
                 /\ UNCHANGED <<written, lost>>
              \/ /\ op.what = "close"
                 /\ op.file \in begun
                 /\ written' = written \cup {op.file}
                 /\ UNCHANGED <<begun, lost>>
              \/ lost' = lost \cup {op.file} /\ UNCHANGED <<begun, written>>
         /\ UNCHANGED <<request, place, language, grouping, exit>>

(* ... a directory that cannot be made ends the program by an exception, which
   leaves the buffers of the open streams unwritten. *)
NoDirectory == /\ place = "write"
               /\ step <= Len(Steps)
               /\ MakesDirectory(Steps[step])
               /\ Exits(Crashed)
               /\ UNCHANGED <<request, language, grouping, scaffold>>

Finish == /\ place = "write"
          /\ step > Len(Steps)
          /\ Exits(0)
          /\ UNCHANGED <<request, language, grouping, scaffold>>

Kill == /\ place # "done"
        /\ Exits(Crashed)
        /\ UNCHANGED <<request, language, grouping, scaffold>>

Stop == place = "done" /\ UNCHANGED initVars

ScaffoldNext == \/ Refuse \/ Detect \/ Collect \/ Extract \/ Group \/ Grouped
                \/ Write \/ NoDirectory \/ Finish \/ Kill \/ Stop

ScaffoldSpec == ScaffoldInit /\ [][ScaffoldNext]_initVars
-----------------------------------------------------------------------------
(* Type correctness. *)
ScaffoldTypeOK ==
  /\ tree \subseteq File /\ symbols \in Seq(Symbol) /\ dry \in BOOLEAN
  /\ language \in Languages \cup {"mixed"}
  /\ next \in 1 .. Len(symbols) + 1
  /\ seen \subseteq QualifiedNames
  /\ \A t \in types : t.visibility \in Visibilities /\ t.todo \in BOOLEAN
  /\ \A d \in placed : d.of < next /\ d.section \in Visibilities
  /\ step \in 1 .. Len(Steps) + 1
  /\ UNION {begun, written, lost} \subseteq Scaffold
  /\ exit \in {Running, 0, 1, Crashed}

(* A language that is guessed is one that the project has the most files of,
   whoever is tied with whom, except that Rust and Java with the same number of
   files cancel each other out and leave C++, though it has fewer, or none. *)
DetectedIsCommonest ==
  asked = Guess /\ place # "detect" /\ exit # Crashed =>
    \/ \A l \in Languages : Counted(l) <= Counted(language)
    \/ /\ Counted("rust") = Counted("java")
       /\ Counted("rust") > Counted("cpp")
       /\ language = "cpp"

(* The first symbol of its name, and the symbols that declare a type. *)
First(k) == \A j \in 1 .. k - 1 : symbols[j].name # symbols[k].name
Firsts == {k \in DOMAIN symbols : First(k)}
Declarers(key) == {k \in Firsts : IsType(symbols[k]) /\ TypeOf(symbols[k]) = key}

(* In whatever order the extractor reports types, members and functions, every
   name is declared once and in its place: a function in the section of its
   visibility, a member in the block of its type, a type in the section of its
   own visibility, or protected and marked when nothing but members is known of
   it; and there is no block for anything else. *)
EachInItsPlace ==
  document # Empty =>
    /\ {d.of : d \in document.declarations} = {k \in Firsts : ~IsType(symbols[k])}
    /\ \A d \in document.declarations :
         LET s == symbols[d.of] IN
           /\ \A e \in document.declarations : d.of = e.of => d = e
           /\ s.visibility # NoVisibility => d.section = s.visibility
           /\ IsMember(s) <=> d.type = <<TypeOf(s)>>
    /\ {t.key : t \in document.types} =
         {TypeOf(symbols[k]) : k \in {j \in Firsts : IsType(symbols[j]) \/ IsMember(symbols[j])}}
    /\ \A t \in document.types :
         /\ \A u \in document.types : t.key = u.key => t = u
         /\ \A k \in Declarers(t.key) : Declarers(t.key) = {k} =>
              /\ t.visibility = Effective(symbols[k].visibility)
              /\ t.todo = (symbols[k].visibility = NoVisibility)
         /\ Declarers(t.key) = {} => t.visibility = "protected" /\ t.todo

(* Wherever topo-init fails or is killed, a Topo.toml that says anything has the
   whole main.topo it names, and an .lldbinit at least the beginning of the
   formatter it imports, unless writing that one was what failed; at an end with
   0 no file is left cut short but those, and one with 1 or a dry run has
   touched nothing. *)
WritesInOrder ==
  /\ "Topo.toml" \in written => "main.topo" \in written \cup lost
  /\ ".lldbinit" \in written => "formatter" \in begun \cup lost /\ "Topo.toml" \in begun \cup lost
  /\ exit = 0 => begun \subseteq written \cup lost
  /\ dry \/ exit = 1 => begun \cup lost = {}
=============================================================================
