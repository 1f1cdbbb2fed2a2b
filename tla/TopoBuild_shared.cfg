SPECIFICATION Spec
CONSTANTS
  p1 = p1
  p2 = p2
  a = a
  b = b
  Procs = {p1, p2}
  Roots = {a}
  Recipes <- AllRecipes
  MaxVersion = 1
  MaxOverwrites = 1
  EditsDuringBuild = FALSE
  FailedSaveKeepsOld = FALSE
  Absent = Absent
SYMMETRY Symmetry
INVARIANTS
  TypeOK
  DeclarationsAreOwn
  ValidCacheIsCurrent
  
  
