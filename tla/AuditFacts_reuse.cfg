SPECIFICATION Spec
CONSTANTS
  a1 = a1
  a2 = a2
  toml = toml
  topo = topo
  src = src
  Audits <- TwoAudits
  Inputs <- ThreeInputs
  Configuration <- OneConfiguration
  Declarations <- OneDeclaration
  MaxVersion = 1
  MaxDamage = 1
SYMMETRY Symmetry
CONSTRAINT Bounded
INVARIANTS
  TypeOK
  HitIsFresh
  PassIsOfItsInputs
PROPERTIES
  EntriesSurvive
