SPECIFICATION Spec
CONSTANTS
  p1 = p1
  p2 = p2
  topo = topo
  host = host
  Hole = Hole
  Procs <- Two
  Files = {topo, host}
  HeadFiles = {topo}
  MaxVersion = 2
  Kinds <- AllKinds
  BlankSeam = FALSE
  EditsDuringRun = FALSE
SYMMETRY Symmetry
INVARIANTS
  TypeOK
  HitIsCertified
  HitAnswersTheRequest
