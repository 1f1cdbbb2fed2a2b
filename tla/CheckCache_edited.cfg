SPECIFICATION Spec
CONSTANTS
  p1 = p1
  p2 = p2
  topo = topo
  host = host
  Hole = Hole
  Procs <- One
  Files = {topo, host}
  HeadFiles = {topo}
  MaxVersion = 1
  Kinds = {"plain"}
  BlankSeam = FALSE
  EditsDuringRun = TRUE
SYMMETRY Symmetry
INVARIANTS
  HitIsCertified
