SPECIFICATION Spec
CONSTANTS
  Modes = {"check", "list"}
  Selections <- SomeSelections
  Offs <- SomeOffs
  NoEntry = NoEntry
INVARIANTS
  TypeOK
  PassIsWhole
  DegradedNeverPasses
