SPECIFICATION Spec
CONSTANTS
  p1 = p1
  p2 = p2
  a = a
  b = b
  Procs = {p1}
  Roots = {a, b}
  Recipes <- PlainRecipes
  MaxVersion = 0
  MaxOverwrites = 0
  EditsDuringBuild = FALSE
  FailedSaveKeepsOld = FALSE
  Absent = Absent
INVARIANTS
  DeclarationsAreOwn
